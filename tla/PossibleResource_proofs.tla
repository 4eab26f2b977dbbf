----------------------- MODULE PossibleResource_proofs -----------------------
(***************************************************************************)
(* Proofs about UpdatePossibleResource, for every table image, every       *)
(* header size and every IRQ buffer the assumptions of PossibleResource    *)
(* admit.                                                                  *)
(***************************************************************************)
EXTENDS PossibleResource, TLAPS

(* Writing one byte of a byte sequence keeps it a byte sequence of the    *)
(* same length, as long as the value is a byte whenever the offset is     *)
(* inside the sequence.                                                    *)
LEMMA PokeType ==
  ASSUME NEW b \in Seq(Byte), NEW o \in Int, NEW v,
         o + 1 \in 1..Len(b) => v \in Byte
  PROVE  /\ Poke(b, o, v) \in Seq(Byte)
         /\ Len(Poke(b, o, v)) = Len(b)
<1>1. CASE o + 1 \in 1..Len(b)
  <2>1. Poke(b, o, v) \in [1..Len(b) -> Byte]
    BY <1>1 DEF Poke
  <2>. QED
    BY <2>1
<1>2. CASE o + 1 \notin 1..Len(b)
  <2>1. Poke(b, o, v) = b
    BY <1>2 DEF Poke
  <2>. QED
    BY <2>1
<1>. QED
  BY <1>1, <1>2

(* A value reduced modulo 256, as the code's UINT8 casts do, is a byte.  *)
LEMMA ModByte ==
  ASSUME NEW n \in Int
  PROVE  n % 256 \in Byte
  BY DEF Byte

(* The two bytes the long-form PkgLength patch writes are bytes: the     *)
(* lead byte keeps its high nybble and takes the low nybble of the new    *)
(* length, ByteData 1 takes bits 4..11 of it.                             *)
LEMMA NybbleBytes ==
  ASSUME NEW a \in Byte, NEW n \in Nat
  PROVE  /\ (a - (a % 16)) + (n % 16) \in Byte
         /\ (n % 4096) \div 16 \in Byte
BY DEF Byte

(* Writing one byte leaves every other byte as it was. *)
LEMMA PokeFrame ==
  ASSUME NEW b \in Seq(Byte), NEW o \in Int, NEW v,
         NEW q \in 0..(Len(b) - 1), q # o
  PROVE  ByteOf(Poke(b, o, v), q) = ByteOf(b, q)
BY DEF Poke, ByteOf, Byte

(* The BufferSize widths the routine handles. *)
LEMMA IntegerSizeRange ==
  ASSUME NEW b
  PROVE  IntegerSize(b) \in {0, 2, 3, 5}
BY DEF IntegerSize, AML_BYTE_PREFIX, AML_WORD_PREFIX, AML_DWORD_PREFIX

(* A byte inside the buffer is a byte. *)
LEMMA AtByte ==
  ASSUME TypeOK, NEW o \in 0..(Len(buf) - 1)
  PROVE  At(o) \in Byte
BY DEF TypeOK, At

(* The scan range is non-empty and starts at a natural offset. *)
LEMMA ScanBoundFacts ==
  ASSUME TypeOK
  PROVE  /\ ScanBound \in Int
         /\ ScanBound >= HeaderSize
         /\ ScanBound + TPM_PRS_RES_NAME_SIZE + TPM_POS_RES_TEMPLATE_MIN_SIZE = Len(buf)
BY HeaderSizeAssumption, TablesAssumption
   DEF TypeOK, ScanBound, TPM_PRS_RES_NAME_SIZE, TPM_POS_RES_TEMPLATE_MIN_SIZE

-----------------------------------------------------------------------------
(* The loaded table, before UpdatePossibleResource has scanned a byte,   *)
(* satisfies the inductive invariant.                                     *)
THEOREM InitIInv == Init => IInv
<1> SUFFICES ASSUME Init PROVE IInv
  OBVIOUS
<1>1. TypeOK
  BY HeaderSizeAssumption, TablesAssumption DEF Init, TypeOK, Status
<1>2. WritesStayInTemplate
  BY DEF Init, WritesStayInTemplate, At, ByteOf
<1>. QED
  BY <1>1, <1>2 DEF Init, IInv

(* Steps that leave the buffer, DataPtr and DataEndPtr alone, or that   *)
(* leave the loops with the buffer untouched, keep the invariant as long *)
(* as the new counters are naturals.                                      *)
LEMMA NoWriteStep ==
  ASSUME IInv,
         buf' = buf, table0' = table0, irq' = irq,
         pc' \in {"ress", "resl", "check", "done"},
         ptr' \in Nat, newLen' \in Nat, origLen' \in Nat, endPtr' \in Nat,
         isShort' \in BOOLEAN, status' \in Status,
         buf = table0 \/ (ptr' = ptr /\ endPtr' = endPtr),
         pc' \in {"ress", "resl"} => buf = table0,
         pc' = "check" /\ ptr' < ScanBound' =>
            /\ ptr' + newLen' <= endPtr'
            /\ newLen' >= 7 + Len(irq')
  PROVE  IInv'
<1>1. TypeOK'
  BY DEF IInv, TypeOK
<1>2. WritesStayInTemplate'
  BY DEF IInv, WritesStayInTemplate, At, ByteOf
<1>. QED
  BY <1>1, <1>2 DEF IInv, ScanBound

(* Every step of the two scan loops, of the PkgLength/BufferSize patch   *)
(* and of the descriptor rewrite preserves the inductive invariant: the   *)
(* loops write nothing, and a patch that fits its template writes only    *)
(* between DataPtr and DataEndPtr.                                         *)
THEOREM NextIInv == IInv /\ [Next]_vars => IInv'
<1> SUFFICES ASSUME IInv, [Next]_vars PROVE IInv'
  OBVIOUS
<1>. USE DEF Status, TPM_PRS_RES_NAME_SIZE, TPM_POS_RES_TEMPLATE_MIN_SIZE, FixedPart
<1>0. TypeOK
  BY DEF IInv
<1>00. ptr \in Nat
  BY <1>0 DEF TypeOK
<1>1. CASE RessSkip
  BY <1>0, <1>1, NoWriteStep DEF RessSkip, IInv, TypeOK, ScanBound
<1>2. CASE RessExhausted
  <2>1. TypeOK'
    BY <1>0, <1>2 DEF RessExhausted, TypeOK
  <2>2. WritesStayInTemplate'
    BY <1>2 DEF RessExhausted, IInv, WritesStayInTemplate, At, ByteOf
  <2>3. (pc = "check" /\ ptr < ScanBound)'
          => (ptr + newLen <= endPtr /\ newLen >= 7 + Len(irq))'
    BY <1>0, <1>2 DEF RessExhausted, ScanBound, TypeOK
  <2>. QED
    BY <2>1, <2>2, <2>3, <1>2 DEF IInv, RessExhausted
<1>3. CASE RessUnsupported
  <2> DEFINE p == ptr + TPM_PRS_RES_NAME_SIZE + 1
  <2> USE DEF p
  <2>1. p \in 0..(Len(buf) - 1) /\ p + 1 \in 0..(Len(buf) - 1)
    BY <1>0, <1>3, ScanBoundFacts DEF RessUnsupported, TypeOK
  <2>2. At(p) \in Byte /\ At(p + 1) \in Byte
    BY <2>1, <1>0 DEF TypeOK, At
  <2>3. At(p) \in Nat /\ At(p + 1) \in Nat /\ p \in Nat
    BY <2>2, <1>00 DEF Byte
  <2>4. buf' = table0'
    BY <1>3 DEF RessUnsupported, IInv
  <2>5. TypeOK'
    <3>1. ptr' \in Nat /\ origLen' \in Nat /\ endPtr' \in Nat /\ newLen' \in Nat
      BY <2>3, <1>0, <1>3 DEF RessUnsupported, TypeOK
    <3>. QED
      BY <3>1, <1>0, <1>3 DEF RessUnsupported, TypeOK
  <2>6. WritesStayInTemplate'
    BY <2>4 DEF WritesStayInTemplate, At, ByteOf
  <2>. QED
    BY <2>4, <2>5, <2>6, <1>3 DEF IInv, RessUnsupported
<1>4. CASE RessTooLong
  <2> DEFINE p == ptr + TPM_PRS_RES_NAME_SIZE + 1
  <2> USE DEF p
  <2>1. p \in 0..(Len(buf) - 1) /\ p + 1 \in 0..(Len(buf) - 1)
    BY <1>0, <1>4, ScanBoundFacts DEF RessTooLong, RessDecodes, TypeOK
  <2>2. At(p) \in Byte /\ At(p + 1) \in Byte
    BY <2>1, <1>0 DEF TypeOK, At
  <2>3. At(p) \in Nat /\ At(p + 1) \in Nat /\ p \in Nat
    BY <2>2, <1>00 DEF Byte
  <2>4. buf' = table0'
    BY <1>4 DEF RessTooLong, RessDecodes, IInv
  <2>5. TypeOK'
    BY <2>3, <1>0, <1>4, IntegerSizeRange, HeaderSizeAssumption DEF RessTooLong, RessDecodes, RessNeed, TypeOK
  <2>6. WritesStayInTemplate'
    BY <2>4 DEF WritesStayInTemplate, At, ByteOf
  <2>. QED
    BY <2>4, <2>5, <2>6, <1>4 DEF IInv, RessTooLong
<1>5. CASE RessNoRoom
  <2> DEFINE p == ptr + TPM_PRS_RES_NAME_SIZE + 1
  <2> USE DEF p
  <2>1. p \in 0..(Len(buf) - 1) /\ p + 1 \in 0..(Len(buf) - 1)
    BY <1>0, <1>5, ScanBoundFacts DEF RessNoRoom, RessDecodes, TypeOK
  <2>2. At(p) \in Byte /\ At(p + 1) \in Byte
    BY <2>1, <1>0 DEF TypeOK, At
  <2>3. At(p) \in Nat /\ At(p + 1) \in Nat /\ p \in Nat
    BY <2>2, <1>00 DEF Byte
  <2>4. buf' = table0'
    BY <1>5 DEF RessNoRoom, RessDecodes, IInv
  <2>5. TypeOK'
    BY <2>3, <1>0, <1>5, IntegerSizeRange DEF RessNoRoom, RessDecodes, RessNeed, TypeOK
  <2>6. WritesStayInTemplate'
    BY <2>4 DEF WritesStayInTemplate, At, ByteOf
  <2>. QED
    BY <2>4, <2>5, <2>6, <1>5 DEF IInv, RessNoRoom
<1>6. CASE RessPatch
  <2> DEFINE p == ptr + TPM_PRS_RES_NAME_SIZE + 1
             v1 == RessNeed(p) % 256
             v2 == (Len(irq) + FixedPart) % 256
             b1 == Poke(buf, p, v1)
  <2> USE DEF p, v1, v2, b1
  <2>1. p \in 0..(Len(buf) - 1) /\ p + 1 \in 0..(Len(buf) - 1)
    BY <1>0, <1>6, ScanBoundFacts DEF RessPatch, RessDecodes, TypeOK
  <2>2. At(p) \in Byte /\ At(p + 1) \in Byte
    BY <2>1, <1>0 DEF TypeOK, At
  <2>3. At(p) \in Nat /\ p \in Nat
    BY <2>2, <1>00 DEF Byte
  <2>4. Len(irq) \in Nat
    BY <1>0, IrqBuffersAssumption DEF TypeOK
  <2>5. IntegerSize(At(p + 1)) \in {2, 3, 5}
    BY <1>6, IntegerSizeRange DEF RessPatch, RessDecodes
  <2>6. RessNeed(p) \in Nat /\ RessNeed(p) >= 22 + Len(irq) /\ RessNeed(p) <= At(p)
    <3>1. RessNeed(p) <= At(p)
      BY <1>6 DEF RessPatch
    <3>2. RessNeed(p) \in Nat /\ RessNeed(p) >= 22 + Len(irq)
      BY <2>4, <2>5 DEF RessNeed
    <3>. QED
      BY <3>1, <3>2
  <2>7. v1 \in Byte /\ v2 \in Byte
    <3>1. RessNeed(p) \in Int /\ Len(irq) + FixedPart \in Int
      BY <2>4, <2>6
    <3>. QED
      BY <3>1, ModByte
  <2>8. buf = table0
    BY <1>6 DEF RessPatch, RessDecodes, IInv
  <2>9. b1 \in Seq(Byte) /\ Len(b1) = Len(buf)
    BY <1>0, <2>3, <2>7, PokeType DEF TypeOK
  <2>10. buf' = Poke(b1, p + 2, v2)
    BY <1>6 DEF RessPatch
  <2>11. buf' \in Seq(Byte) /\ Len(buf') = Len(buf)
    BY <2>9, <2>10, <2>3, <2>7, PokeType
  <2>12. TypeOK'
    BY <1>0, <1>6, <2>3, <2>6, <2>11 DEF RessPatch, TypeOK
  <2>13. WritesStayInTemplate'
    <3>0. ptr' = p /\ endPtr' = p + At(p) /\ table0' = table0
      BY <1>6 DEF RessPatch
    <3> SUFFICES ASSUME NEW q \in 0..(Len(buf') - 1),
                        At(q)' # ByteOf(table0, q)'
                 PROVE  q \in ptr' .. (endPtr' - 1)
      BY DEF WritesStayInTemplate
    <3>a. q \in 0..(Len(buf) - 1) /\ ByteOf(buf', q) # ByteOf(table0, q)
      BY <3>0, <2>11 DEF At, ByteOf
    <3> SUFFICES q \in p .. (p + At(p) - 1)
      BY <3>0, <2>3
    <3>1. CASE q \notin {p, p + 2}
      <4>0. q \in 0..(Len(b1) - 1) /\ p + 2 \in Int /\ q # p + 2 /\ q # p
        BY <3>a, <3>1, <2>9, <2>3
      <4>1. ByteOf(buf', q) = ByteOf(b1, q)
        BY <4>0, <2>9, <2>10, PokeFrame
      <4>2. ByteOf(b1, q) = ByteOf(buf, q)
        BY <4>0, <3>a, <1>0, <2>3, PokeFrame DEF TypeOK
      <4>. QED
        BY <3>a, <4>1, <4>2, <2>8
    <3>2. CASE q \in {p, p + 2}
      BY <3>2, <2>3, <2>6
    <3>. QED
      BY <3>1, <3>2
  <2>14. (ptr + newLen <= endPtr /\ newLen >= 7 + Len(irq))'
    BY <1>6, <2>3, <2>6 DEF RessPatch
  <2>. QED
    BY <2>12, <2>13, <2>14, <1>6 DEF IInv, RessPatch
<1>7. CASE ReslSkip
  BY <1>0, <1>7, NoWriteStep DEF ReslSkip, IInv, TypeOK, ScanBound
<1>8. CASE ReslExhausted
  <2>1. TypeOK'
    BY <1>0, <1>8 DEF ReslExhausted, TypeOK
  <2>2. WritesStayInTemplate'
    BY <1>8 DEF ReslExhausted, IInv, WritesStayInTemplate, At, ByteOf
  <2>3. (pc = "check" /\ ptr < ScanBound)'
          => (ptr + newLen <= endPtr /\ newLen >= 7 + Len(irq))'
    BY <1>0, <1>8 DEF ReslExhausted, ScanBound, TypeOK
  <2>. QED
    BY <2>1, <2>2, <2>3, <1>8 DEF IInv, ReslExhausted
<1>9. CASE ReslUnsupported
  <2> DEFINE p == ptr + TPM_PRS_RES_NAME_SIZE + 1
  <2> USE DEF p
  <2>1. p \in 0..(Len(buf) - 1) /\ p + 1 \in 0..(Len(buf) - 1)
    BY <1>0, <1>9, ScanBoundFacts DEF ReslUnsupported, TypeOK
  <2>2. At(p) \in Byte /\ At(p + 1) \in Byte
    BY <2>1, <1>0 DEF TypeOK, At
  <2>3. At(p) \in Nat /\ At(p + 1) \in Nat /\ p \in Nat
    BY <2>2, <1>00 DEF Byte
  <2>4. buf' = table0'
    BY <1>9 DEF ReslUnsupported, IInv
  <2>5. TypeOK'
    <3>1. ReslOrig(p) \in Nat /\ 1 + FollowCount(At(p)) \in Nat
      BY <2>3 DEF ReslOrig, FollowCount
    <3>2. ptr' \in Nat /\ origLen' \in Nat /\ endPtr' \in Nat /\ newLen' \in Nat
      BY <3>1, <2>3, <1>0, <1>9 DEF ReslUnsupported, TypeOK
    <3>. QED
      BY <3>2, <1>0, <1>9 DEF ReslUnsupported, TypeOK
  <2>6. WritesStayInTemplate'
    BY <2>4 DEF WritesStayInTemplate, At, ByteOf
  <2>. QED
    BY <2>4, <2>5, <2>6, <1>9 DEF IInv, ReslUnsupported
<1>10. CASE ReslNoRoom
  <2> DEFINE p == ptr + TPM_PRS_RES_NAME_SIZE + 1
  <2> USE DEF p
  <2>1. p \in 0..(Len(buf) - 1) /\ p + 1 \in 0..(Len(buf) - 1)
    BY <1>0, <1>10, ScanBoundFacts DEF ReslNoRoom, ReslDecodes, TypeOK
  <2>2. At(p) \in Byte /\ At(p + 1) \in Byte
    BY <2>1, <1>0 DEF TypeOK, At
  <2>3. At(p) \in Nat /\ At(p + 1) \in Nat /\ p \in Nat
    BY <2>2, <1>00 DEF Byte
  <2>4. buf' = table0'
    BY <1>10 DEF ReslNoRoom, ReslDecodes, IInv
  <2>5. TypeOK'
    <3>1. IntegerSize(At(ReslPrefixAt(p))) \in {0, 2, 3, 5}
      BY IntegerSizeRange
    <3>2. Len(irq) \in Nat
      BY <1>0, IrqBuffersAssumption DEF TypeOK
    <3>5. FollowCount(At(p)) \in Nat
      BY <2>3 DEF FollowCount
    <3>3. ReslNeed(p) \in Nat
      BY <3>1, <3>2, <3>5 DEF ReslNeed
    <3>4. ReslOrig(p) \in Nat
      BY <2>3 DEF ReslOrig
    <3>. QED
      BY <3>3, <3>4, <2>3, <1>0, <1>10 DEF ReslNoRoom, ReslDecodes, TypeOK
  <2>6. WritesStayInTemplate'
    BY <2>4 DEF WritesStayInTemplate, At, ByteOf
  <2>. QED
    BY <2>4, <2>5, <2>6, <1>10 DEF IInv, ReslNoRoom
<1>11. CASE ReslPatch
  <2> DEFINE p == ptr + TPM_PRS_RES_NAME_SIZE + 1
             n == ReslNeed(p)
             r == ReslPrefixAt(p) + 1
             v1 == (At(p) - (At(p) % 16)) + (n % 16)
             v2 == (n % 4096) \div 16
             v3 == (Len(irq) + FixedPart) % 256
             b1 == Poke(buf, p, v1)
             b2 == Poke(b1, p + 1, v2)
  <2> USE DEF p, n, r, v1, v2, v3, b1, b2
  <2>1. p \in 0..(Len(buf) - 1) /\ p + 1 \in 0..(Len(buf) - 1)
        /\ p + 5 \in 0..(Len(buf) - 1)
    BY <1>0, <1>11, ScanBoundFacts DEF ReslPatch, ReslDecodes, TypeOK
  <2>2. At(p) \in Byte /\ At(p + 1) \in Byte
    BY <2>1, <1>0 DEF TypeOK, At
  <2>3. At(p) \in Nat /\ At(p + 1) \in Nat /\ p \in Nat
    BY <2>2, <1>00 DEF Byte
  <2>4. Len(irq) \in Nat
    BY <1>0, IrqBuffersAssumption DEF TypeOK
  <2>5. FollowCount(At(p)) \in 1..3
    <3>1. At(p) >= 64
      BY <1>11, <2>3 DEF ReslPatch, ReslDecodes, IsShortLead
    <3>2. At(p) <= 255
      BY <2>2 DEF Byte
    <3>. QED
      BY <3>1, <3>2, <2>3 DEF FollowCount
  <2>6. IntegerSize(At(ReslPrefixAt(p))) \in {2, 3, 5}
    <3>1. IntegerSize(At(ReslPrefixAt(p))) \in {0, 2, 3, 5}
      BY IntegerSizeRange
    <3>. QED
      BY <3>1, <1>11 DEF ReslPatch, ReslDecodes
  <2>7. n \in Nat /\ n >= 22 + Len(irq) /\ n >= 22 + FollowCount(At(p))
    <3>1. n = 1 + FollowCount(At(p)) + IntegerSize(At(ReslPrefixAt(p))) + 19 + Len(irq)
      BY DEF ReslNeed
    <3>. QED
      BY <3>1, <2>4, <2>5, <2>6
  <2>8. ReslOrig(p) \in Nat /\ n <= ReslOrig(p)
    <3>1. n <= ReslOrig(p)
      BY <1>11 DEF ReslPatch
    <3>2. ReslOrig(p) \in Nat
      BY <2>3 DEF ReslOrig
    <3>. QED
      BY <3>1, <3>2
  <2>9. r = p + 2 + FollowCount(At(p)) /\ r \in p + 3 .. p + 5
    BY <2>3, <2>5 DEF ReslPrefixAt
  <2>10. v1 \in Byte /\ v2 \in Byte /\ v3 \in Byte
    <3>1. v1 \in Byte /\ v2 \in Byte
      BY <2>2, <2>7, NybbleBytes
    <3>2. Len(irq) + FixedPart \in Int
      BY <2>4
    <3>. QED
      BY <3>1, <3>2, ModByte
  <2>11. buf = table0
    BY <1>11 DEF ReslPatch, ReslDecodes, IInv
  <2>12. b1 \in Seq(Byte) /\ Len(b1) = Len(buf)
    BY <1>0, <2>3, <2>10, PokeType DEF TypeOK
  <2>13. b2 \in Seq(Byte) /\ Len(b2) = Len(buf)
    BY <2>12, <2>3, <2>10, PokeType
  <2>14. buf' = Poke(b2, r, v3)
    BY <1>11 DEF ReslPatch
  <2>15. buf' \in Seq(Byte) /\ Len(buf') = Len(buf)
    <3>1. r \in Int
      BY <2>9, <2>3
    <3>. QED
      BY <2>13, <2>14, <3>1, <2>10, PokeType
  <2>0. /\ ptr' = p /\ newLen' = n /\ origLen' = ReslOrig(p)
        /\ endPtr' = p + ReslOrig(p) /\ isShort' = FALSE /\ pc' = "check"
        /\ UNCHANGED <<table0, irq, status>>
    BY <1>11 DEF ReslPatch
  <2>16. TypeOK'
    <3>1. buf' \in Seq(Byte) /\ Len(buf') = Len(table0')
      BY <1>0, <2>0, <2>15 DEF TypeOK
    <3>2. ptr' \in Nat /\ newLen' \in Nat /\ origLen' \in Nat /\ endPtr' \in Nat
      BY <2>0, <2>3, <2>7, <2>8
    <3>3. table0' \in Tables /\ irq' \in IrqBuffers /\ status' \in Status
      BY <1>0, <2>0 DEF TypeOK
    <3>. QED
      BY <3>1, <3>2, <3>3, <2>0 DEF TypeOK
  <2>19. {p, p + 1, r} \subseteq p .. (p + ReslOrig(p) - 1)
    <3>1. FollowCount(At(p)) + 3 <= ReslOrig(p)
      BY <2>5, <2>7, <2>8
    <3>. QED
      BY <3>1, <2>3, <2>5, <2>8, <2>9
  <2>17. WritesStayInTemplate'
    <3>0. ptr' = p /\ endPtr' = p + ReslOrig(p) /\ table0' = table0
      BY <1>11 DEF ReslPatch
    <3> SUFFICES ASSUME NEW q \in 0..(Len(buf') - 1),
                        At(q)' # ByteOf(table0, q)'
                 PROVE  q \in ptr' .. (endPtr' - 1)
      BY DEF WritesStayInTemplate
    <3>a. q \in 0..(Len(buf) - 1) /\ ByteOf(buf', q) # ByteOf(table0, q)
      BY <3>0, <2>15 DEF At, ByteOf
    <3> SUFFICES q \in p .. (p + ReslOrig(p) - 1)
      BY <3>0, <2>8, <2>3
    <3>1. CASE q \notin {p, p + 1, r}
      <4>a. q \in 0..(Len(b2) - 1) /\ q \in 0..(Len(b1) - 1)
        BY <3>a, <2>12, <2>13
      <4>b. r \in Int /\ p + 1 \in Int
        BY <2>9, <2>3
      <4>c. q # r /\ q # p + 1 /\ q # p
        BY <3>1
      <4>0. /\ q \in 0..(Len(b2) - 1) /\ q \in 0..(Len(b1) - 1)
            /\ r \in Int /\ p + 1 \in Int
            /\ q # r /\ q # p + 1 /\ q # p
        BY <4>a, <4>b, <4>c
      <4>1. ByteOf(buf', q) = ByteOf(b2, q)
        BY <4>0, <2>13, <2>14, PokeFrame
      <4>2. ByteOf(b2, q) = ByteOf(b1, q)
        BY <4>0, <2>12, PokeFrame
      <4>3. ByteOf(b1, q) = ByteOf(buf, q)
        BY <4>0, <3>a, <1>0, <2>3, PokeFrame DEF TypeOK
      <4>. QED
        BY <3>a, <4>1, <4>2, <4>3, <2>11
    <3>2. CASE q \in {p, p + 1, r}
      BY <3>2, <2>19
    <3>. QED
      BY <3>1, <3>2
  <2>18. (ptr + newLen <= endPtr /\ newLen >= 7 + Len(irq))'
    BY <2>0, <2>3, <2>7, <2>8
  <2>. QED
    BY <2>16, <2>17, <2>18, <2>0 DEF IInv
<1>12. CASE NotFound
  BY <1>0, <1>12, NoWriteStep DEF NotFound, IInv, TypeOK, ScanBound
<1>13. CASE PatchDescriptor
  <2> DEFINE d == DescAt
             n == Len(irq)
  <2> USE DEF d, n
  <2>0. /\ buf' = [i \in DOMAIN buf |-> PatchedByte(i - 1)]
        /\ pc' = "done" /\ status' = "SUCCESS"
        /\ UNCHANGED <<table0, irq, ptr, newLen, origLen, endPtr, isShort>>
        /\ pc = "check" /\ ptr < ScanBound
    BY <1>13 DEF PatchDescriptor
  <2>1. irq \in Seq(Byte) /\ n \in Nat
    BY <1>0, IrqBuffersAssumption DEF TypeOK
  <2>2. ptr \in Nat /\ newLen \in Nat /\ endPtr \in Nat
        /\ ptr + newLen <= endPtr /\ newLen >= 7 + n
    BY <1>0, <2>0 DEF IInv, TypeOK
  <2>3. d \in Int /\ ptr <= d + 1 /\ d + 6 + n <= endPtr - 1
    BY <2>1, <2>2 DEF DescAt
  <2>4. \A o \in 0..(Len(buf) - 1) : PatchedByte(o) \in Byte
    <3> SUFFICES ASSUME NEW o \in 0..(Len(buf) - 1) PROVE PatchedByte(o) \in Byte
      OBVIOUS
    <3>1. At(o) \in Byte
      BY <1>0, AtByte
    <3>2. \A k \in 1..n : irq[k] \in Byte
      BY <2>1
    <3>3. (2 + n) % 256 \in Byte /\ (n \div 4) % 256 \in Byte
      BY <2>1, ModByte
    <3>4. {ACPI_END_TAG_DESCRIPTOR, 0, AML_NOOP_OP} \subseteq Byte
      BY DEF ACPI_END_TAG_DESCRIPTOR, AML_NOOP_OP, Byte
    <3>5. CASE o = d + 1
      <4>0. /\ o # d + 4 /\ o \notin d + 5 .. d + 4 + n
            /\ o # d + 5 + n /\ o # d + 6 + n /\ o \notin d + 7 + n .. endPtr - 1
        BY <3>5, <2>1, <2>3
      <4>1. PatchedByte(o) = (2 + n) % 256
        BY <3>5, <4>0 DEF PatchedByte
      <4>. QED
        BY <4>1, <3>3
    <3>6. CASE o = d + 4
      <4>1. /\ o # d + 1 /\ o \notin d + 5 .. d + 4 + n
            /\ o # d + 5 + n /\ o # d + 6 + n /\ o \notin d + 7 + n .. endPtr - 1
        BY <3>6, <2>1, <2>3
      <4>2. PatchedByte(o) = (n \div 4) % 256
        BY <3>6, <4>1 DEF PatchedByte
      <4>. QED
        BY <4>2, <3>3
    <3>7. CASE o \in d + 5 .. d + 4 + n
      <4>1. o - d - 4 \in 1..n
        BY <3>7, <2>1, <2>3
      <4>2. /\ o # d + 1 /\ o # d + 4
            /\ o # d + 5 + n /\ o # d + 6 + n /\ o \notin d + 7 + n .. endPtr - 1
        BY <3>7, <2>1, <2>3
      <4>3. PatchedByte(o) = irq[o - d - 4]
        BY <3>7, <4>2 DEF PatchedByte
      <4>. QED
        BY <4>1, <4>3, <3>2
    <3>8. CASE o = d + 5 + n \/ o = d + 6 + n \/ o \in d + 7 + n .. endPtr - 1
      <4>1. PatchedByte(o) \in {ACPI_END_TAG_DESCRIPTOR, 0, AML_NOOP_OP}
        BY <3>8, <2>1, <2>3 DEF PatchedByte
      <4>. QED
        BY <4>1, <3>4
    <3>9. CASE /\ o # d + 1 /\ o # d + 4 /\ o \notin d + 5 .. d + 4 + n
               /\ o # d + 5 + n /\ o # d + 6 + n /\ o \notin d + 7 + n .. endPtr - 1
      <4>1. PatchedByte(o) = At(o)
        BY <3>9 DEF PatchedByte
      <4>. QED
        BY <4>1, <3>1
    <3>. QED
      BY <3>5, <3>6, <3>7, <3>8, <3>9
  <2>5. \A o \in 0..(Len(buf) - 1) :
           o \notin ptr .. (endPtr - 1) => PatchedByte(o) = At(o)
    <3> SUFFICES ASSUME NEW o \in 0..(Len(buf) - 1), o \notin ptr .. (endPtr - 1)
                 PROVE  PatchedByte(o) = At(o)
      OBVIOUS
    <3>1. /\ o # d + 1 /\ o # d + 4 /\ o \notin d + 5 .. d + 4 + n
          /\ o # d + 5 + n /\ o # d + 6 + n /\ o \notin d + 7 + n .. endPtr - 1
      BY <2>1, <2>2, <2>3
    <3>. QED
      BY <3>1 DEF PatchedByte
  <2>6. buf' \in Seq(Byte) /\ Len(buf') = Len(buf)
        /\ \A o \in 0..(Len(buf) - 1) : ByteOf(buf', o) = PatchedByte(o)
    BY <1>0, <2>0, <2>4 DEF TypeOK, ByteOf
  <2>7. TypeOK'
    <3>1. buf' \in Seq(Byte) /\ Len(buf') = Len(table0')
      BY <1>0, <2>0, <2>6 DEF TypeOK
    <3>. QED
      BY <3>1, <1>0, <2>0 DEF TypeOK, Status
  <2>8. WritesStayInTemplate'
    <3> SUFFICES ASSUME NEW q \in 0..(Len(buf') - 1),
                        At(q)' # ByteOf(table0, q)'
                 PROVE  q \in ptr' .. (endPtr' - 1)
      BY DEF WritesStayInTemplate
    <3>1. q \in 0..(Len(buf) - 1) /\ ByteOf(buf', q) # ByteOf(table0, q)
      BY <2>0, <2>6 DEF At, ByteOf
    <3>2. CASE q \in ptr .. (endPtr - 1)
      BY <3>2, <2>0
    <3>3. CASE q \notin ptr .. (endPtr - 1)
      <4>1. ByteOf(buf', q) = At(q)
        BY <3>1, <3>3, <2>5, <2>6
      <4>2. q \in ptr .. (endPtr - 1)
        BY <4>1, <3>1, <1>0 DEF IInv, WritesStayInTemplate, At, ByteOf
      <4>. QED
        BY <4>2, <2>0
    <3>. QED
      BY <3>2, <3>3
  <2>. QED
    BY <2>7, <2>8, <2>0 DEF IInv
<1>14. CASE UNCHANGED vars
  BY <1>0, <1>14, NoWriteStep DEF vars, IInv, TypeOK, ScanBound
<1>. QED
  BY <1>1, <1>2, <1>3, <1>4, <1>5, <1>6, <1>7, <1>8, <1>9, <1>10, <1>11, <1>12, <1>13, <1>14 DEF Next

-----------------------------------------------------------------------------
(* UpdatePossibleResource never leaves its variables ill-typed: every     *)
(* byte it writes into the table is a byte, and the table keeps its size. *)
THEOREM TypeCorrect == Spec => []TypeOK
<1>1. IInv => TypeOK
  BY DEF IInv
<1>. QED
  BY InitIInv, NextIInv, <1>1, PTL DEF Spec

(* Every byte UpdatePossibleResource changes lies inside the Buffer of   *)
(* the template it matched, from the PkgLength byte to DataEndPtr: the    *)
(* patch of PkgLength, BufferSize, the descriptor and the NOOP fill never *)
(* touches the rest of the SSDT, for every table and IRQ list.            *)
THEOREM WritesStayInTemplateHolds == Spec => []WritesStayInTemplate
<1>1. IInv => WritesStayInTemplate
  BY DEF IInv
<1>. QED
  BY InitIInv, NextIInv, <1>1, PTL DEF Spec

=============================================================================
