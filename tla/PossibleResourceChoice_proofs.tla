-------------------- MODULE PossibleResourceChoice_proofs --------------------
(***************************************************************************)
(* Proof that UpdatePossibleResource patches the right template: on        *)
(* EFI_SUCCESS the short-form RESS was used exactly when the first RESS    *)
(* can take the list, the template patched is the first of its name, and  *)
(* nothing outside its original Buffer changed (TemplateChoice).           *)
(***************************************************************************)
EXTENDS PossibleResource_proofs

(* The least element of a set of integers is what FirstAnchor's CHOOSE   *)
(* picks.                                                                *)
LEMMA LeastIsChosen ==
  ASSUME NEW S \in SUBSET Int, NEW o \in S, \A o2 \in S : o <= o2
  PROVE  (CHOOSE x \in S : \A y \in S : x <= y) = o
<1>1. \E x \in S : \A y \in S : x <= y
  OBVIOUS
<1>2. \A x \in S : (\A y \in S : x <= y) => x = o
  OBVIOUS
<1>. QED
  BY <1>1, <1>2

(* The weights of the little-endian bytes LeValue adds up. *)
LEMMA Powers256 ==
  /\ 256 ^ 0 = 1
  /\ 256 ^ 1 = 256
  /\ 256 ^ 2 = 65536
  /\ 256 ^ 3 = 16777216
OBVIOUS

(* A lead byte that is not short form announces one to three ByteData. *)
LEMMA FollowCountRange ==
  ASSUME NEW x \in Byte, ~IsShortLead(x)
  PROVE  FollowCount(x) \in 1..3
BY DEF FollowCount, IsShortLead, Byte

(* The long-form OriginalPkgLength the code decodes (lead nybble and     *)
(* ByteData 1 only) is at most the PkgLength the encoding gives, which   *)
(* adds ByteData 2 and 3 at higher weights: DataEndPtr never lies past    *)
(* the end of the original Buffer.                                       *)
LEMMA LongFormUnderestimates ==
  ASSUME NEW b, NEW p \in Nat,
         \A i \in 0..4 : ByteOf(b, p + i) \in Byte,
         ~IsShortLead(ByteOf(b, p))
  PROVE  /\ ByteOf(b, p + 1) * 16 + (ByteOf(b, p) % 16) <= PkgValue(b, p)
         /\ PkgValue(b, p) \in Nat
<1>1. \A i \in 0..4 : ByteOf(b, p + i) \in Nat
  BY DEF Byte
<1> DEFINE w == FollowCount(ByteOf(b, p))
<1>2. w \in 1..3
  BY FollowCountRange
<1>3. LeValue(b, p + 1, w) =
        ByteOf(b, p + 1) * 1
        + (IF 1 < w THEN ByteOf(b, p + 2) * 256 ELSE 0)
        + (IF 2 < w THEN ByteOf(b, p + 3) * 65536 ELSE 0)
        + (IF 3 < w THEN ByteOf(b, p + 4) * 16777216 ELSE 0)
  BY <1>2, Powers256 DEF LeValue
<1>4. LeValue(b, p + 1, w) >= ByteOf(b, p + 1)
  BY <1>1, <1>2, <1>3
<1>5. PkgValue(b, p) = (ByteOf(b, p) % 16) + 16 * LeValue(b, p + 1, w)
  BY DEF PkgValue
<1>. QED
  BY <1>1, <1>2, <1>3, <1>4, <1>5

-----------------------------------------------------------------------------
(* The routine has patched a template: it will report EFI_SUCCESS, has  *)
(* reported it, or has changed the table (and may still fail, line 349). *)
Patched == (pc = "check" /\ ptr < ScanBound) \/ status = "SUCCESS" \/ buf # table0

(* The name of the template the routine settled on. *)
ChosenName == IF isShort THEN TPM_PRS_RESS ELSE TPM_PRS_RESL

(* Inductive invariant for TemplateChoice: each scan has passed over no *)
(* anchor of its name; the RESL scan runs only after the first RESS      *)
(* turned out too small; once a template is patched, DataPtr sits on the *)
(* PkgLength of the first anchor of the chosen name, and DataEndPtr is   *)
(* no further than the end of that template's original Buffer.          *)
ChoiceInv ==
  /\ pc # "done" => status = "NONE"
  /\ pc \in {"ress", "resl"} => ptr >= HeaderSize
  /\ pc = "ress" => \A o \in Anchors(TPM_PRS_RESS) : ptr <= o
  /\ pc = "resl" => /\ Anchors(TPM_PRS_RESS) # {}
                    /\ ~RessFits
                    /\ \A o \in Anchors(TPM_PRS_RESL) : ptr <= o
  /\ Patched =>
       /\ ptr - (TPM_PRS_RES_NAME_SIZE + 1) \in Anchors(ChosenName)
       /\ \A o \in Anchors(ChosenName) : ptr - (TPM_PRS_RES_NAME_SIZE + 1) <= o
       /\ isShort = RessFits
       /\ endPtr = ptr + origLen
       /\ origLen <= PkgValue(table0, ptr)
       /\ PkgValue(table0, ptr) \in Nat

(* A step that keeps the loaded image and the IRQ list, and the table's  *)
(* length, keeps the anchors, the scan bound and RessFits.               *)
LEMMA ChoiceFrame ==
  ASSUME TypeOK, TypeOK', table0' = table0, irq' = irq
  PROVE  /\ ScanBound' = ScanBound
         /\ Anchors(TPM_PRS_RESS)' = Anchors(TPM_PRS_RESS)
         /\ Anchors(TPM_PRS_RESL)' = Anchors(TPM_PRS_RESL)
         /\ RessFits' = RessFits
<1>1. Len(buf') = Len(buf)
  BY DEF TypeOK
<1>2. ScanBound' = ScanBound
  BY <1>1 DEF ScanBound
<1>3. Anchors(TPM_PRS_RESS)' = Anchors(TPM_PRS_RESS)
      /\ Anchors(TPM_PRS_RESL)' = Anchors(TPM_PRS_RESL)
  BY <1>2 DEF Anchors, ByteOf
<1>4. RessFits' = RessFits
  BY <1>3 DEF RessFits, FirstAnchor, ByteOf
<1>. QED
  BY <1>2, <1>3, <1>4

(* While the table is the loaded image, the code's CompareMem at DataPtr *)
(* succeeds exactly at the anchors of the reference decoder.            *)
LEMMA AnchorHere ==
  ASSUME TypeOK, buf = table0, NEW name, ptr \in HeaderSize..(ScanBound - 1)
  PROVE  NameAt(ptr, name) <=> ptr \in Anchors(name)
BY DEF NameAt, At, Anchors, ByteOf

(* The anchors lie inside the scanned range. *)
LEMMA AnchorsRange ==
  ASSUME NEW name
  PROVE  Anchors(name) \subseteq HeaderSize..(ScanBound - 1)
BY DEF Anchors

(* If the scan stands on an anchor and has passed over none, that anchor *)
(* is FirstAnchor.                                                       *)
LEMMA FirstAnchorHere ==
  ASSUME NEW name, NEW o \in Anchors(name), \A o2 \in Anchors(name) : o <= o2
  PROVE  FirstAnchor(name) = o
<1>1. Anchors(name) \subseteq Int
  BY AnchorsRange, HeaderSizeAssumption
<1>. QED
  BY <1>1, LeastIsChosen DEF FirstAnchor

-----------------------------------------------------------------------------
(* Before the first byte is scanned, no anchor lies behind DataPtr. *)
LEMMA InitChoiceInv == Init => ChoiceInv
<1> SUFFICES ASSUME Init PROVE ChoiceInv
  OBVIOUS
<1>1. \A o \in Anchors(TPM_PRS_RESS) : ptr <= o
  BY AnchorsRange, HeaderSizeAssumption DEF Init
<1>. QED
  BY <1>1, HeaderSizeAssumption DEF Init, ChoiceInv, Patched

(* A step that ends the routine with an error keeps the invariant. *)
LEMMA ErrorReturn ==
  ASSUME pc' = "done", status' \in Status \ {"NONE", "SUCCESS"}, buf' = table0'
  PROVE  ChoiceInv'
BY DEF ChoiceInv, Patched, Status

(* A step that leaves the scans for the check with DataPtr at or past the *)
(* scan bound keeps the invariant: it is heading for EFI_NOT_FOUND.      *)
LEMMA ExhaustStep ==
  ASSUME pc' = "check", status' = "NONE", ptr' \in Int, ScanBound' \in Int,
         ptr' >= ScanBound', buf' = table0'
  PROVE  ChoiceInv'
BY DEF ChoiceInv, Patched

(* Every step of the two scans, of the template patch and of the         *)
(* descriptor rewrite keeps ChoiceInv: a scan step moves past a byte that *)
(* is not an anchor, the switch to the "RESL" scan happens only at the    *)
(* first "RESS" when it cannot take the list, and a patch happens at the  *)
(* first anchor of its scan.                                              *)
LEMMA NextChoiceInv == IInv /\ ChoiceInv /\ [Next]_vars => ChoiceInv'
<1> SUFFICES ASSUME IInv, ChoiceInv, [Next]_vars PROVE ChoiceInv'
  OBVIOUS
<1>. USE DEF TPM_PRS_RES_NAME_SIZE
<1>1. TypeOK /\ TypeOK'
  BY NextIInv DEF IInv
<1>2. table0' = table0 /\ irq' = irq
  BY DEF Next, vars, RessSkip, RessExhausted, RessUnsupported, RessTooLong,
         RessNoRoom, RessPatch, ReslSkip, ReslExhausted, ReslUnsupported,
         ReslNoRoom, ReslPatch, RessDecodes, ReslDecodes, NotFound, PatchDescriptor
<1>3. /\ ScanBound' = ScanBound
      /\ Anchors(TPM_PRS_RESS)' = Anchors(TPM_PRS_RESS)
      /\ Anchors(TPM_PRS_RESL)' = Anchors(TPM_PRS_RESL)
      /\ RessFits' = RessFits
  BY <1>1, <1>2, ChoiceFrame
<1>4. /\ ScanBound \in Int
      /\ ScanBound + 27 = Len(buf)
      /\ ptr \in Nat
      /\ Anchors(TPM_PRS_RESS) \subseteq Int
      /\ Anchors(TPM_PRS_RESL) \subseteq Int
  BY <1>1, ScanBoundFacts, AnchorsRange, HeaderSizeAssumption
     DEF TypeOK, TPM_POS_RES_TEMPLATE_MIN_SIZE
<1>5. ptr' \in Int
  BY <1>1 DEF TypeOK
(* a scan step stands on a byte of the loaded image *)
<1>6. pc \in {"ress", "resl"} /\ ptr < ScanBound =>
        /\ buf = table0
        /\ ptr \in HeaderSize..(ScanBound - 1)
  BY <1>4 DEF IInv, ChoiceInv
<1>10. CASE RessSkip
  <2>1. ptr \notin Anchors(TPM_PRS_RESS)
    BY <1>10, <1>1, <1>6, AnchorHere DEF RessSkip
  <2>2. \A o \in Anchors(TPM_PRS_RESS) : ptr' <= o
    BY <2>1, <1>4, <1>10 DEF RessSkip, ChoiceInv
  <2>3. status' = "NONE" /\ pc' = "ress" /\ ptr' >= HeaderSize
    BY <1>10, <1>4, HeaderSizeAssumption DEF RessSkip, ChoiceInv
  <2>4. ~Patched'
    BY <2>3, <1>2, <1>6, <1>10 DEF RessSkip, Patched
  <2>. QED
    BY <2>2, <2>3, <2>4, <1>3 DEF ChoiceInv
<1>11. CASE RessExhausted
  BY <1>11, <1>2, <1>3, <1>4, <1>5, ExhaustStep DEF RessExhausted, ChoiceInv, IInv
<1>12. CASE RessUnsupported \/ RessNoRoom \/ ReslUnsupported \/ ReslNoRoom
  <2>1. pc' = "done" /\ status' \in Status \ {"NONE", "SUCCESS"}
    BY <1>12 DEF RessUnsupported, RessNoRoom, ReslUnsupported, ReslNoRoom,
                 RessDecodes, ReslDecodes, Status
  <2>2. buf' = table0'
    BY <1>12, <1>2 DEF RessUnsupported, RessNoRoom, ReslUnsupported, ReslNoRoom,
                       RessDecodes, ReslDecodes, IInv
  <2>. QED
    BY <2>1, <2>2, ErrorReturn
(* EFI_NOT_FOUND after the scans: either nothing was written, or a       *)
(* template was patched with its Buffer too close to the table's end.    *)
<1>20. CASE NotFound
  <2>1. CASE buf = table0
    BY <2>1, <1>2, <1>20, ErrorReturn DEF NotFound, Status
  <2>2. CASE buf # table0
    <3>1. Patched /\ Patched'
      BY <2>2, <1>2, <1>20 DEF NotFound, Patched
    <3>2. Anchors(ChosenName)' = Anchors(ChosenName)
      BY <1>20, <1>3 DEF NotFound, ChosenName
    <3>. QED
      BY <3>1, <3>2, <1>2, <1>3, <1>20 DEF NotFound, ChoiceInv
  <2>. QED
    BY <2>1, <2>2
<1>13. CASE RessTooLong
  <2>1. ptr \in Anchors(TPM_PRS_RESS)
    BY <1>13, <1>1, <1>6, AnchorHere DEF RessTooLong, RessDecodes
  <2>2. FirstAnchor(TPM_PRS_RESS) = ptr
    BY <2>1, FirstAnchorHere, <1>13 DEF RessTooLong, RessDecodes, ChoiceInv
  <2>3. ByteOf(table0, ptr + TPM_PRS_RES_NAME_SIZE + 2) = At(ptr + TPM_PRS_RES_NAME_SIZE + 2)
    BY <1>13, <1>6 DEF RessTooLong, RessDecodes, ByteOf, At
  <2>4. ~RessFits
    <3>1. IntegerSize(At(ptr + TPM_PRS_RES_NAME_SIZE + 2)) \in {0, 2, 3, 5}
      BY IntegerSizeRange
    <3>2. Len(irq) \in Nat
      BY <1>1, IrqBuffersAssumption DEF TypeOK
    <3>3. RessNeed(ptr + TPM_PRS_RES_NAME_SIZE + 1) > 63
      BY <1>13 DEF RessTooLong
    <3>4. RessFits =>
            1 + IntegerSize(ByteOf(table0, ptr + TPM_PRS_RES_NAME_SIZE + 2))
              + FixedPart + Len(irq) <= 63
      BY <2>2, <1>4 DEF RessFits
    <3>. QED
      BY <1>4, <2>3, <3>1, <3>2, <3>3, <3>4 DEF RessNeed, FixedPart
  <2>5. \A o \in Anchors(TPM_PRS_RESL) : HeaderSize <= o
    BY AnchorsRange
  <2>6. status = "NONE"
    BY <1>13 DEF RessTooLong, RessDecodes, ChoiceInv
  <2>. QED
    BY <2>1, <2>4, <2>5, <2>6, <1>2, <1>3, <1>6, <1>13, HeaderSizeAssumption
       DEF RessTooLong, RessDecodes, ChoiceInv, Patched
<1>14. CASE RessPatch
  <2>1. ptr \in Anchors(TPM_PRS_RESS)
    BY <1>14, <1>1, <1>6, AnchorHere DEF RessPatch, RessDecodes
  <2>2. FirstAnchor(TPM_PRS_RESS) = ptr
    BY <2>1, FirstAnchorHere, <1>14 DEF RessPatch, RessDecodes, ChoiceInv
  <2>3. /\ ByteOf(table0, ptr + TPM_PRS_RES_NAME_SIZE + 1) = At(ptr + TPM_PRS_RES_NAME_SIZE + 1)
        /\ ByteOf(table0, ptr + TPM_PRS_RES_NAME_SIZE + 2) = At(ptr + TPM_PRS_RES_NAME_SIZE + 2)
    BY <1>14, <1>6 DEF RessPatch, RessDecodes, ByteOf, At
  <2>7. /\ IsShortLead(At(ptr + TPM_PRS_RES_NAME_SIZE + 1))
        /\ IntegerSize(At(ptr + TPM_PRS_RES_NAME_SIZE + 2)) # 0
    BY <1>14, <1>4 DEF RessPatch, RessDecodes
  <2>4. RessFits
    <3>1. RessNeed(ptr + TPM_PRS_RES_NAME_SIZE + 1) <= 63
      BY <1>14 DEF RessPatch
    <3>. QED
      BY <1>4, <2>1, <2>2, <2>3, <3>1, <2>7 DEF RessNeed, RessFits
  <2>5. PkgValue(table0, ptr') = origLen'
    BY <1>14, <2>3, <2>7 DEF RessPatch, RessDecodes, PkgValue
  <2>6. /\ ptr' - (TPM_PRS_RES_NAME_SIZE + 1) = ptr
        /\ ChosenName' = TPM_PRS_RESS
        /\ isShort' = RessFits
        /\ endPtr' = ptr' + origLen'
        /\ status' = "NONE" /\ pc' = "check"
    BY <1>14, <1>4, <2>4 DEF RessPatch, RessDecodes, ChosenName, ChoiceInv
  <2>8. Anchors(ChosenName)' = Anchors(TPM_PRS_RESS)
    BY <2>6, <1>3 DEF ChosenName
  <2>10. \A o \in Anchors(TPM_PRS_RESS) : ptr <= o
    BY <1>14 DEF RessPatch, RessDecodes, ChoiceInv
  <2>11. (ptr - (TPM_PRS_RES_NAME_SIZE + 1))' \in Anchors(ChosenName)'
    BY <2>1, <2>6, <2>8
  <2>12. \A o \in Anchors(ChosenName)' : (ptr - (TPM_PRS_RES_NAME_SIZE + 1))' <= o
    BY <2>10, <2>6, <2>8
  <2>13. (origLen <= PkgValue(table0, ptr) /\ PkgValue(table0, ptr) \in Nat)'
    BY <2>5, <1>1, <1>2 DEF TypeOK
  <2>. QED
    BY <1>3, <2>6, <2>11, <2>12, <2>13 DEF ChoiceInv, Patched
<1>15. CASE ReslSkip
  <2>1. ptr \notin Anchors(TPM_PRS_RESL)
    BY <1>15, <1>1, <1>6, AnchorHere DEF ReslSkip
  <2>2. \A o \in Anchors(TPM_PRS_RESL) : ptr' <= o
    BY <2>1, <1>4, <1>15 DEF ReslSkip, ChoiceInv
  <2>3. status' = "NONE" /\ pc' = "resl" /\ ptr' >= HeaderSize
    BY <1>15, <1>4, HeaderSizeAssumption DEF ReslSkip, ChoiceInv
  <2>4. ~Patched'
    BY <2>3, <1>2, <1>6, <1>15 DEF ReslSkip, Patched
  <2>. QED
    BY <2>2, <2>3, <2>4, <1>3, <1>15 DEF ReslSkip, ChoiceInv
<1>16. CASE ReslExhausted
  BY <1>16, <1>2, <1>3, <1>4, <1>5, ExhaustStep DEF ReslExhausted, ChoiceInv, IInv
<1>17. CASE ReslPatch
  <2>1. ptr \in Anchors(TPM_PRS_RESL)
    BY <1>17, <1>1, <1>6, AnchorHere DEF ReslPatch, ReslDecodes
  <2>2. \A i \in 0..4 : ByteOf(table0, ptr + TPM_PRS_RES_NAME_SIZE + 1 + i) \in Byte
    <3>1. \A i \in 0..4 : ptr + TPM_PRS_RES_NAME_SIZE + 1 + i \in 0..(Len(buf) - 1)
      BY <1>4, <1>17 DEF ReslPatch, ReslDecodes
    <3>. QED
      BY <3>1, <1>1, <1>6, <1>17, AtByte DEF ReslPatch, ReslDecodes, At, ByteOf
  <2>3. ~IsShortLead(ByteOf(table0, ptr + TPM_PRS_RES_NAME_SIZE + 1))
    BY <1>6, <1>17 DEF ReslPatch, ReslDecodes, At, ByteOf
  <2>4. /\ ReslOrig(ptr + TPM_PRS_RES_NAME_SIZE + 1)
             <= PkgValue(table0, ptr + TPM_PRS_RES_NAME_SIZE + 1)
        /\ PkgValue(table0, ptr + TPM_PRS_RES_NAME_SIZE + 1) \in Nat
    <3>1. ReslOrig(ptr + TPM_PRS_RES_NAME_SIZE + 1)
            = ByteOf(table0, ptr + TPM_PRS_RES_NAME_SIZE + 2) * 16
              + (ByteOf(table0, ptr + TPM_PRS_RES_NAME_SIZE + 1) % 16)
      BY <1>6, <1>17 DEF ReslPatch, ReslDecodes, ReslOrig, At, ByteOf
    <3>. QED
      BY <3>1, <2>2, <2>3, <1>4, LongFormUnderestimates
  <2>5. /\ ptr' - (TPM_PRS_RES_NAME_SIZE + 1) = ptr
        /\ ChosenName' = TPM_PRS_RESL
        /\ isShort' = RessFits
        /\ endPtr' = ptr' + origLen'
        /\ status' = "NONE" /\ pc' = "check"
        /\ (origLen <= PkgValue(table0, ptr) /\ PkgValue(table0, ptr) \in Nat)'
    <3>1. ptr' - (TPM_PRS_RES_NAME_SIZE + 1) = ptr /\ endPtr' = ptr' + origLen'
      BY <1>17, <1>4 DEF ReslPatch
    <3>2. isShort' = FALSE /\ ~RessFits
      BY <1>17 DEF ReslPatch, ReslDecodes, ChoiceInv
    <3>3. status' = "NONE" /\ pc' = "check"
      BY <1>17 DEF ReslPatch, ReslDecodes, ChoiceInv
    <3>4. (origLen <= PkgValue(table0, ptr) /\ PkgValue(table0, ptr) \in Nat)'
      BY <1>17, <1>2, <2>4 DEF ReslPatch
    <3>5. isShort' = RessFits
      BY <3>2, Zenon DEF RessFits
    <3>6. ChosenName' = TPM_PRS_RESL
      BY <3>2 DEF ChosenName
    <3>. QED
      BY <3>1, <3>3, <3>4, <3>5, <3>6
  <2>6. Anchors(ChosenName)' = Anchors(TPM_PRS_RESL)
    BY <2>5, <1>3 DEF ChosenName
  <2>7. \A o \in Anchors(TPM_PRS_RESL) : ptr <= o
    BY <1>17 DEF ReslPatch, ReslDecodes, ChoiceInv
  <2>8. (ptr - (TPM_PRS_RES_NAME_SIZE + 1))' \in Anchors(ChosenName)'
    BY <2>1, <2>5, <2>6
  <2>9. \A o \in Anchors(ChosenName)' : (ptr - (TPM_PRS_RES_NAME_SIZE + 1))' <= o
    BY <2>7, <2>5, <2>6
  <2>. QED
    BY <1>3, <2>5, <2>8, <2>9 DEF ChoiceInv, Patched
<1>18. CASE PatchDescriptor
  <2>1. Patched /\ Patched'
    BY <1>18 DEF PatchDescriptor, Patched
  <2>2. Anchors(ChosenName)' = Anchors(ChosenName)
    BY <1>18, <1>3 DEF PatchDescriptor, ChosenName
  <2>. QED
    BY <2>1, <2>2, <1>2, <1>3, <1>18 DEF PatchDescriptor, ChoiceInv
<1>19. CASE UNCHANGED vars
  <2>1. Patched' = Patched /\ Anchors(ChosenName)' = Anchors(ChosenName)
    BY <1>19, <1>3 DEF vars, Patched, ChosenName
  <2>. QED
    BY <2>1, <1>2, <1>3, <1>19 DEF vars, ChoiceInv
<1>. QED
  BY <1>10, <1>11, <1>12, <1>13, <1>14, <1>15, <1>16, <1>17, <1>18, <1>19, <1>20 DEF Next

(* With the routine's state described by IInv and ChoiceInv, a reported  *)
(* EFI_SUCCESS means TemplateChoice: FirstAnchor of the chosen name is    *)
(* the anchor DataPtr was decoded from, and every changed byte lies in    *)
(* that anchor's original Buffer.                                         *)
LEMMA ChoiceInvImpliesTemplateChoice == IInv /\ ChoiceInv => TemplateChoice
<1> SUFFICES ASSUME IInv, ChoiceInv, status = "SUCCESS"
             PROVE  TemplateChoice
  BY DEF TemplateChoice
<1>1. Patched
  BY DEF Patched
<1>2. FirstAnchor(ChosenName) = ptr - (TPM_PRS_RES_NAME_SIZE + 1)
  BY <1>1, FirstAnchorHere DEF ChoiceInv
<1>3. /\ isShort = RessFits
      /\ endPtr = ptr + origLen
      /\ origLen <= PkgValue(table0, ptr)
      /\ PkgValue(table0, ptr) \in Nat
  BY <1>1 DEF ChoiceInv
<1>4. ptr \in Nat /\ origLen \in Nat
  BY DEF IInv, TypeOK
<1>5. \A q \in 0..(Len(buf) - 1) :
         q \notin ptr .. (ptr + PkgValue(table0, ptr) - 1) => At(q) = ByteOf(table0, q)
  BY <1>3, <1>4 DEF IInv, WritesStayInTemplate
<1>6. FirstAnchor(ChosenName) + TPM_PRS_RES_NAME_SIZE + 1 = ptr
  BY <1>2, <1>4 DEF TPM_PRS_RES_NAME_SIZE
<1>. QED
  BY <1>3, <1>5, <1>6 DEF TemplateChoice, ChosenName

(* UpdatePossibleResource patches the short-form "RESS" template exactly  *)
(* when the first "RESS" of the loaded SSDT can take the IRQ list within  *)
(* PkgLength 63, and the first "RESL" otherwise; when it reports          *)
(* EFI_SUCCESS every byte outside that template's original Buffer is as   *)
(* loaded.  Proved for every header size, table image and IRQ buffer the  *)
(* constant assumptions admit.                                             *)
THEOREM TemplateChoiceHolds == Spec => []TemplateChoice
<1>1. Init => IInv /\ ChoiceInv
  BY InitIInv, InitChoiceInv
<1>2. IInv /\ ChoiceInv /\ [Next]_vars => IInv' /\ ChoiceInv'
  BY NextIInv, NextChoiceInv
<1>3. IInv /\ ChoiceInv => TemplateChoice
  BY ChoiceInvImpliesTemplateChoice
<1>. QED
  BY <1>1, <1>2, <1>3, PTL DEF Spec
====
