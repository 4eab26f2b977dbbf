--------------------------- MODULE PossibleResource ---------------------------
(***************************************************************************)
(* UpdatePossibleResource (Tcg2AcpiFfa.c): patch the interrupt list of the *)
(* _PRS ResourceTemplate inside the pre-compiled TPM SSDT, in place.       *)
(*                                                                         *)
(* The table is a byte buffer; offsets are 0-based as in the C code, so    *)
(* the byte at DataPtr = Table + o is At(o) = buf[o + 1].  The procedure   *)
(* runs sequentially: every iteration of the two anchor-scan loops is one  *)
(* step, every way a loop body can end (return, break, fall back to the    *)
(* long-form template) is one action, and steps 3-5 of the routine        *)
(* (rewrite the interrupt descriptor, End Tag, NOOP padding) are one       *)
(* action.                                                                 *)
(***************************************************************************)
EXTENDS Integers, Sequences

CONSTANTS
  HeaderSize,   \* sizeof (EFI_ACPI_DESCRIPTION_HEADER): the scans start at Table + 1
  Tables,       \* the pre-built SSDT images the routine may be handed
  IrqBuffers    \* the PcdTpm2PossibleIrqNumBuf contents that reach the call

Byte == 0..255

(* Constants of Tcg2AcpiFfa.c and of the AML encoding it relies on. *)
TPM_PRS_RES_NAME_SIZE == 4
TPM_POS_RES_TEMPLATE_MIN_SIZE == 1 + 1 + 2 + 12 + 5 + 2
MAX_PRS_INT_BUF_SIZE == 15 * 4
TPM_PRS_RESS == <<82, 69, 83, 83>>        \* "RESS"
TPM_PRS_RESL == <<82, 69, 83, 76>>        \* "RESL"
AML_BYTE_PREFIX == 10
AML_WORD_PREFIX == 11
AML_DWORD_PREFIX == 12
AML_NOOP_OP == 163
ACPI_END_TAG_DESCRIPTOR == 121

ASSUME HeaderSizeAssumption == HeaderSize \in Nat
ASSUME TablesAssumption ==
  \A t \in Tables :
     /\ t \in Seq(Byte)
     /\ Len(t) >= HeaderSize + TPM_PRS_RES_NAME_SIZE + TPM_POS_RES_TEMPLATE_MIN_SIZE
(* PublishAcpiTable only calls the routine with a size <= 60 that is a    *)
(* multiple of sizeof (UINT32).                                           *)
ASSUME IrqBuffersAssumption ==
  \A q \in IrqBuffers :
     /\ q \in Seq(Byte)
     /\ Len(q) <= MAX_PRS_INT_BUF_SIZE
     /\ Len(q) % 4 = 0

Status == {"NONE", "SUCCESS", "UNSUPPORTED", "INVALID_PARAMETER", "NOT_FOUND"}

VARIABLES
  table0,  \* the image as loaded from the FV (never written)
  irq,     \* IrqBuffer; IrqBuffserSize = Len(irq)
  buf,     \* the table bytes, patched in place
  pc,      \* "ress" / "resl": inside loop 1 / loop 2; "check": after them; "done"
  ptr,     \* DataPtr - Table
  newLen,  \* NewPkgLength
  origLen, \* OriginalPkgLength
  endPtr,  \* DataEndPtr - Table (0 for NULL)
  isShort, \* *IsShortFormPkgLength
  status   \* the EFI_STATUS returned

vars == <<table0, irq, buf, pc, ptr, newLen, origLen, endPtr, isShort, status>>

At(o) == buf[o + 1]

Poke(b, o, v) == [b EXCEPT ![o + 1] = v]

(* Both scan loops run while DataPtr < Table + Length - (4 + 23). *)
ScanBound == Len(buf) - (TPM_PRS_RES_NAME_SIZE + TPM_POS_RES_TEMPLATE_MIN_SIZE)

(* CompareMem (DataPtr, name, TPM_PRS_RES_NAME_SIZE) == 0 *)
NameAt(o, name) == \A i \in 0..(TPM_PRS_RES_NAME_SIZE - 1) : At(o + i) = name[i + 1]

(* Bytes taken by the BufferSize Integer whose prefix is b; 0 = not handled. *)
IntegerSize(b) ==
  CASE b = AML_BYTE_PREFIX  -> 2
    [] b = AML_WORD_PREFIX  -> 3
    [] b = AML_DWORD_PREFIX -> 5
    [] OTHER                -> 0

(* PkgLeadByte & (BIT7|BIT6), and the count of ByteData it announces. *)
IsShortLead(b) == b < 64
FollowCount(b) == b \div 64

(* Memory32Fixed (12) + Interrupt descriptor header (5) + End Tag (2) *)
FixedPart == 19

-----------------------------------------------------------------------------
Init ==
  /\ table0 \in Tables
  /\ irq \in IrqBuffers
  /\ buf = table0
  /\ pc = "ress"
  /\ ptr = HeaderSize
  /\ newLen = 0
  /\ origLen = 0
  /\ endPtr = 0
  /\ isShort = FALSE
  /\ status = "NONE"

(* Loop 1: no "RESS" at DataPtr, advance by one byte. *)
RessSkip ==
  /\ pc = "ress"
  /\ ptr < ScanBound
  /\ ~NameAt(ptr, TPM_PRS_RESS)
  /\ ptr' = ptr + 1
  /\ UNCHANGED <<table0, irq, buf, pc, newLen, origLen, endPtr, isShort, status>>

(* Loop 1 exhausted: NewPkgLength is still 0, so loop 2 is skipped. *)
RessExhausted ==
  /\ pc = "ress"
  /\ ptr >= ScanBound
  /\ pc' = "check"
  /\ UNCHANGED <<table0, irq, buf, ptr, newLen, origLen, endPtr, isShort, status>>

(* "RESS" found: the PkgLength at DataPtr + 5 is long form or the         *)
(* BufferSize prefix is none of Byte/Word/Dword: ASSERT, EFI_UNSUPPORTED.  *)
RessUnsupported ==
  LET p == ptr + TPM_PRS_RES_NAME_SIZE + 1 IN
  /\ pc = "ress"
  /\ ptr < ScanBound
  /\ NameAt(ptr, TPM_PRS_RESS)
  /\ ~IsShortLead(At(p)) \/ IntegerSize(At(p + 1)) = 0
  /\ ptr' = p
  /\ origLen' = IF IsShortLead(At(p)) THEN At(p) ELSE origLen
  /\ endPtr' = IF IsShortLead(At(p)) THEN p + At(p) ELSE endPtr
  /\ newLen' = IF IsShortLead(At(p)) THEN 1 ELSE newLen
  /\ status' = "UNSUPPORTED"
  /\ pc' = "done"
  /\ UNCHANGED <<table0, irq, buf, isShort>>

(* NewPkgLength the short-form template would need. *)
RessNeed(p) == 1 + IntegerSize(At(p + 1)) + FixedPart + Len(irq)

RessDecodes(p) ==
  /\ pc = "ress"
  /\ ptr < ScanBound
  /\ NameAt(ptr, TPM_PRS_RESS)
  /\ IsShortLead(At(p))
  /\ IntegerSize(At(p + 1)) # 0

(* Mutant: the NewPkgLength > 63 test written as >= 63 (off by one). *)
RessTooLongAt63 ==
  LET p == ptr + TPM_PRS_RES_NAME_SIZE + 1 IN
  /\ RessDecodes(p)
  /\ RessNeed(p) >= 63
  /\ pc' = "resl"
  /\ ptr' = HeaderSize
  /\ newLen' = 0
  /\ origLen' = 0
  /\ endPtr' = p + At(p)
  /\ UNCHANGED <<table0, irq, buf, isShort, status>>

(* Mutant: the fallback rescans for "RESS" instead of "RESL". *)
RessTooLongRescan ==
  LET p == ptr + TPM_PRS_RES_NAME_SIZE + 1 IN
  /\ RessDecodes(p)
  /\ RessNeed(p) > 63
  /\ pc' = "ress"
  /\ ptr' = HeaderSize
  /\ newLen' = 0
  /\ origLen' = 0
  /\ endPtr' = p + At(p)
  /\ UNCHANGED <<table0, irq, buf, isShort, status>>

(* The list does not fit a PkgLength <= 63: break, and since             *)
(* NewPkgLength > 63 restart the scan for "RESL" with both lengths 0.    *)
RessTooLong ==
  LET p == ptr + TPM_PRS_RES_NAME_SIZE + 1 IN
  /\ RessDecodes(p)
  /\ RessNeed(p) > 63
  /\ pc' = "resl"
  /\ ptr' = HeaderSize
  /\ newLen' = 0
  /\ origLen' = 0
  /\ endPtr' = p + At(p)
  /\ UNCHANGED <<table0, irq, buf, isShort, status>>

(* It would fit in 63 but not in the template's own PkgLength. *)
RessNoRoom ==
  LET p == ptr + TPM_PRS_RES_NAME_SIZE + 1 IN
  /\ RessDecodes(p)
  /\ RessNeed(p) <= 63
  /\ RessNeed(p) > At(p)
  /\ ptr' = p
  /\ newLen' = RessNeed(p)
  /\ origLen' = At(p)
  /\ endPtr' = p + At(p)
  /\ status' = "INVALID_PARAMETER"
  /\ pc' = "done"
  /\ UNCHANGED <<table0, irq, buf, isShort>>

(* Mutant: the NewPkgLength > OriginalPkgLength check dropped. *)
RessPatchNoRoomCheck ==
  LET p == ptr + TPM_PRS_RES_NAME_SIZE + 1 IN
  /\ RessDecodes(p)
  /\ RessNeed(p) <= 63
  /\ buf' = Poke(Poke(buf, p, RessNeed(p) % 256), p + 2, (Len(irq) + FixedPart) % 256)
  /\ ptr' = p
  /\ newLen' = RessNeed(p)
  /\ origLen' = At(p)
  /\ endPtr' = p + At(p)
  /\ isShort' = TRUE
  /\ pc' = "check"
  /\ UNCHANGED <<table0, irq, status>>

(* 1.1/1.2: patch PkgLength and the low byte of BufferSize, report short *)
(* form, break.                                                          *)
RessPatch ==
  LET p == ptr + TPM_PRS_RES_NAME_SIZE + 1 IN
  /\ RessDecodes(p)
  /\ RessNeed(p) <= 63
  /\ RessNeed(p) <= At(p)
  /\ buf' = Poke(Poke(buf, p, RessNeed(p) % 256), p + 2, (Len(irq) + FixedPart) % 256)
  /\ ptr' = p
  /\ newLen' = RessNeed(p)
  /\ origLen' = At(p)
  /\ endPtr' = p + At(p)
  /\ isShort' = TRUE
  /\ pc' = "check"
  /\ UNCHANGED <<table0, irq, status>>

(* Loop 2: no "RESL" at DataPtr, advance by one byte. *)
ReslSkip ==
  /\ pc = "resl"
  /\ ptr < ScanBound
  /\ ~NameAt(ptr, TPM_PRS_RESL)
  /\ ptr' = ptr + 1
  /\ UNCHANGED <<table0, irq, buf, pc, newLen, origLen, endPtr, isShort, status>>

(* Loop 2 exhausted without a match. *)
ReslExhausted ==
  /\ pc = "resl"
  /\ ptr >= ScanBound
  /\ pc' = "check"
  /\ UNCHANGED <<table0, irq, buf, ptr, newLen, origLen, endPtr, isShort, status>>

(* OriginalPkgLength as loop 2 decodes it: PkgLeadByte's low nybble and  *)
(* the first ByteData only, whatever the ByteData count.                 *)
ReslOrig(p) == At(p + 1) * 16 + (At(p) % 16)

(* Offset, from the PkgLeadByte, of the BufferSize prefix. *)
ReslPrefixAt(p) == p + 1 + FollowCount(At(p))

(* "RESL" found: PkgLength is short form or the BufferSize prefix is not *)
(* handled: ASSERT, EFI_UNSUPPORTED.                                      *)
ReslUnsupported ==
  LET p == ptr + TPM_PRS_RES_NAME_SIZE + 1 IN
  /\ pc = "resl"
  /\ ptr < ScanBound
  /\ NameAt(ptr, TPM_PRS_RESL)
  /\ IsShortLead(At(p)) \/ IntegerSize(At(ReslPrefixAt(p))) = 0
  /\ ptr' = p
  /\ origLen' = IF IsShortLead(At(p)) THEN origLen ELSE ReslOrig(p)
  /\ endPtr' = IF IsShortLead(At(p)) THEN endPtr ELSE p + ReslOrig(p)
  /\ newLen' = IF IsShortLead(At(p)) THEN newLen ELSE 1 + FollowCount(At(p))
  /\ status' = "UNSUPPORTED"
  /\ pc' = "done"
  /\ UNCHANGED <<table0, irq, buf, isShort>>

(* NewPkgLength the long-form template needs. *)
ReslNeed(p) ==
  1 + FollowCount(At(p)) + IntegerSize(At(ReslPrefixAt(p))) + FixedPart + Len(irq)

ReslDecodes(p) ==
  /\ pc = "resl"
  /\ ptr < ScanBound
  /\ NameAt(ptr, TPM_PRS_RESL)
  /\ ~IsShortLead(At(p))
  /\ IntegerSize(At(ReslPrefixAt(p))) # 0

(* The list does not fit the template's PkgLength: EFI_INVALID_PARAMETER. *)
ReslNoRoom ==
  LET p == ptr + TPM_PRS_RES_NAME_SIZE + 1 IN
  /\ ReslDecodes(p)
  /\ ReslNeed(p) > ReslOrig(p)
  /\ ptr' = p
  /\ newLen' = ReslNeed(p)
  /\ origLen' = ReslOrig(p)
  /\ endPtr' = p + ReslOrig(p)
  /\ status' = "INVALID_PARAMETER"
  /\ pc' = "done"
  /\ UNCHANGED <<table0, irq, buf, isShort>>

(* Mutant: BufferSize patched at DataPtr + 3, as if PkgLength always had *)
(* exactly one ByteData.                                                 *)
ReslPatchFixedBufferSize ==
  LET p == ptr + TPM_PRS_RES_NAME_SIZE + 1
      n == ReslNeed(p)
  IN
  /\ ReslDecodes(p)
  /\ n <= ReslOrig(p)
  /\ buf' = Poke(Poke(Poke(buf, p, (At(p) - (At(p) % 16)) + (n % 16)),
                      p + 1, (n % 4096) \div 16),
                 p + 3, (Len(irq) + FixedPart) % 256)
  /\ ptr' = p
  /\ newLen' = n
  /\ origLen' = ReslOrig(p)
  /\ endPtr' = p + ReslOrig(p)
  /\ isShort' = FALSE
  /\ pc' = "check"
  /\ UNCHANGED <<table0, irq, status>>

(* 2.1/2.2: patch PkgLeadByte's nybble and the first ByteData, then the  *)
(* low byte of BufferSize; report long form, break.                      *)
ReslPatch ==
  LET p == ptr + TPM_PRS_RES_NAME_SIZE + 1
      n == ReslNeed(p)
  IN
  /\ ReslDecodes(p)
  /\ n <= ReslOrig(p)
  /\ buf' = Poke(Poke(Poke(buf, p, (At(p) - (At(p) % 16)) + (n % 16)),
                      p + 1, (n % 4096) \div 16),
                 ReslPrefixAt(p) + 1, (Len(irq) + FixedPart) % 256)
  /\ ptr' = p
  /\ newLen' = n
  /\ origLen' = ReslOrig(p)
  /\ endPtr' = p + ReslOrig(p)
  /\ isShort' = FALSE
  /\ pc' = "check"
  /\ UNCHANGED <<table0, irq, status>>

(* After the loops, DataPtr at or past the scan bound: EFI_NOT_FOUND. *)
NotFound ==
  /\ pc = "check"
  /\ ptr >= ScanBound
  /\ status' = "NOT_FOUND"
  /\ pc' = "done"
  /\ UNCHANGED <<table0, irq, buf, ptr, newLen, origLen, endPtr, isShort>>

(* Offset of the Interrupt descriptor: DataPtr + NewPkgLength - (5 + n + 2). *)
DescAt == ptr + newLen - (5 + Len(irq) + 2)

(* Steps 3-5: descriptor length and count, the IRQ list, End Tag with a   *)
(* zero checksum, and AML_NOOP_OP from there up to DataEndPtr.  DataPtr   *)
(* is a local that is not read after the fill, so ptr keeps the PkgLength *)
(* offset.                                                                 *)
PatchedByte(o) ==
  LET d == DescAt
      n == Len(irq)
  IN CASE o = d + 1                  -> (2 + n) % 256
       [] o = d + 4                  -> (n \div 4) % 256
       [] o \in d + 5 .. d + 4 + n   -> irq[o - d - 4]
       [] o = d + 5 + n              -> ACPI_END_TAG_DESCRIPTOR
       [] o = d + 6 + n              -> 0
       [] o \in d + 7 + n .. endPtr - 1 -> AML_NOOP_OP
       [] OTHER                      -> At(o)

PatchDescriptor ==
  /\ pc = "check"
  /\ ptr < ScanBound
  /\ buf' = [i \in DOMAIN buf |-> PatchedByte(i - 1)]
  /\ status' = "SUCCESS"
  /\ pc' = "done"
  /\ UNCHANGED <<table0, irq, ptr, newLen, origLen, endPtr, isShort>>

Next ==
  \/ RessSkip \/ RessExhausted \/ RessUnsupported
  \/ RessTooLong \/ RessNoRoom \/ RessPatch
  \/ ReslSkip \/ ReslExhausted \/ ReslUnsupported
  \/ ReslNoRoom \/ ReslPatch
  \/ NotFound \/ PatchDescriptor

Spec == Init /\ [][Next]_vars

-----------------------------------------------------------------------------
(***************************************************************************)
(* Type invariant.                                                         *)
(***************************************************************************)
TypeOK ==
  /\ table0 \in Tables
  /\ irq \in IrqBuffers
  /\ buf \in Seq(Byte)
  /\ Len(buf) = Len(table0)
  /\ pc \in {"ress", "resl", "check", "done"}
  /\ ptr \in Nat
  /\ newLen \in Nat
  /\ origLen \in Nat
  /\ endPtr \in Nat
  /\ isShort \in BOOLEAN
  /\ status \in Status

(***************************************************************************)
(* A reference decoder of the AML the routine patches, written from the    *)
(* encoding (ACPI 20.2.4, 19.3.3) rather than from the routine's own       *)
(* arithmetic: it reads every ByteData of a PkgLength and the whole        *)
(* BufferSize integer.  ByteOf(b, o) is the byte at 0-based offset o.      *)
(***************************************************************************)
ByteOf(b, o) == b[o + 1]

(* Little-endian value of the w bytes at offset o, w \in 0..4. *)
LeValue(b, o, w) ==
  LET v(i) == IF i < w THEN ByteOf(b, o + i) * (256 ^ i) ELSE 0
  IN v(0) + v(1) + v(2) + v(3)

PkgBytes(b, s) == 1 + FollowCount(ByteOf(b, s))

PkgValue(b, s) ==
  IF IsShortLead(ByteOf(b, s))
    THEN ByteOf(b, s)
    ELSE (ByteOf(b, s) % 16) + 16 * LeValue(b, s + 1, FollowCount(ByteOf(b, s)))

(* Offsets of "RESS"/"RESL" in the original image inside the scanned range. *)
Anchors(name) ==
  { o \in HeaderSize .. (ScanBound - 1) :
      \A i \in 0..(TPM_PRS_RES_NAME_SIZE - 1) : ByteOf(table0, o + i) = name[i + 1] }

(***************************************************************************)
(* buf holds, at anchor o, a Buffer whose PkgLength ends exactly after the *)
(* End Tag, whose BufferSize counts the descriptors, whose Interrupt       *)
(* descriptor carries irq with matching length and count, and whose bytes  *)
(* from there to the end of the original Buffer are AML_NOOP_OP.          *)
(***************************************************************************)
WellFormedAt(o) ==
  LET s   == o + TPM_PRS_RES_NAME_SIZE + 1
      pfx == s + PkgBytes(buf, s)
      w   == IntegerSize(At(pfx))
      d   == pfx + w + 12
      n   == Len(irq)
      len == PkgValue(buf, s)
  IN /\ w # 0
     /\ s + len = d + 7 + n
     /\ LeValue(buf, pfx + 1, w - 1) = FixedPart + n
     /\ At(d + 1) + 256 * At(d + 2) = 2 + n
     /\ At(d + 4) = n \div 4
     /\ \A k \in 1..n : At(d + 4 + k) = irq[k]
     /\ At(d + 5 + n) = ACPI_END_TAG_DESCRIPTOR
     /\ At(d + 6 + n) = 0
     /\ \A q \in (s + len) .. (s + PkgValue(table0, s) - 1) : At(q) = AML_NOOP_OP

(* First anchor of a name, as the byte-by-byte scan meets it. *)
FirstAnchor(name) == CHOOSE o \in Anchors(name) : \A o2 \in Anchors(name) : o <= o2

(* Whether the first "RESS" template is short form, with a handled       *)
(* BufferSize, and the new list makes its PkgLength at most 63.          *)
RessFits ==
  /\ Anchors(TPM_PRS_RESS) # {}
  /\ LET s == FirstAnchor(TPM_PRS_RESS) + TPM_PRS_RES_NAME_SIZE + 1
     IN /\ IsShortLead(ByteOf(table0, s))
        /\ IntegerSize(ByteOf(table0, s + 1)) # 0
        /\ 1 + IntegerSize(ByteOf(table0, s + 1)) + FixedPart + Len(irq) <= 63

(***************************************************************************)
(* Properties.                                                             *)
(***************************************************************************)

(* When UpdatePossibleResource returns EFI_SUCCESS, the _PRS template it  *)
(* patched (PkgLength, BufferSize, Interrupt descriptor, End Tag, NOOP    *)
(* padding, written by five separate pointer computations) decodes as     *)
(* well-formed AML carrying exactly the new IRQ list.                     *)
PatchedTemplateWellFormed ==
  status = "SUCCESS" =>
    \E o \in Anchors(TPM_PRS_RESS) \cup Anchors(TPM_PRS_RESL) : WellFormedAt(o)

(* On EFI_SUCCESS the short-form "RESS" template was patched (and         *)
(* *IsShortFormPkgLength is TRUE) exactly when the first "RESS" can take  *)
(* the list within PkgLength 63; otherwise the first "RESL" was patched.  *)
(* Only that template's original Buffer differs from the loaded image.   *)
TemplateChoice ==
  status = "SUCCESS" =>
    LET o == FirstAnchor(IF isShort THEN TPM_PRS_RESS ELSE TPM_PRS_RESL)
        s == o + TPM_PRS_RES_NAME_SIZE + 1
    IN /\ isShort = RessFits
       /\ \A q \in 0..(Len(buf) - 1) :
            q \notin s .. (s + PkgValue(table0, s) - 1) => At(q) = ByteOf(table0, q)

(* At every point of the routine, the only bytes that differ from the    *)
(* loaded image lie between DataPtr and DataEndPtr, the Buffer decoded at *)
(* the anchor: the patch never writes past the original PkgLength.       *)
WritesStayInTemplate ==
  \A q \in 0..(Len(buf) - 1) :
     At(q) # ByteOf(table0, q) => q \in ptr .. (endPtr - 1)

(* Inductive strengthening of WritesStayInTemplate: while scanning, the *)
(* table is untouched; once a template has been patched and the          *)
(* descriptor is still to be written, the new Buffer (DataPtr +         *)
(* NewPkgLength) ends inside the old one and leaves room for the         *)
(* Interrupt descriptor header, the list and the End Tag.                *)
IInv ==
  /\ TypeOK
  /\ WritesStayInTemplate
  /\ pc \in {"ress", "resl"} => buf = table0
  /\ pc = "check" /\ ptr < ScanBound =>
        /\ ptr + newLen <= endPtr
        /\ newLen >= 7 + Len(irq)

(* Whenever the routine returns an error, the table is still the loaded  *)
(* image: PublishAcpiTable installs the table whatever the status, so a  *)
(* failed patch must leave nothing half-written (spec 5, 7).             *)
FailureLeavesTableIntact ==
  status \notin {"NONE", "SUCCESS"} => buf = table0
=============================================================================
