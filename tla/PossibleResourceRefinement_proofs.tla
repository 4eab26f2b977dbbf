------------------- MODULE PossibleResourceRefinement_proofs -------------------
(***************************************************************************)
(* UpdatePossibleResource, step by step, implements the confined part of  *)
(* its contract PossibleResourceAbstract!ConfinedSpec: every step before  *)
(* the return is a stutter of the caller's view, and the return is a      *)
(* Fail or a SucceedConfined.  The well-formedness conjunct of Succeed is *)
(* not a theorem: it fails for templates whose RESL PkgLength has more    *)
(* than one ByteData, or whose BufferSize is a Word or a Dword above 255  *)
(* (lines 265 and 293); TLC checks it on the templates Tpm.asl produces.  *)
(***************************************************************************)
EXTENDS PossibleResourceRefinement, PossibleResourceChoice_proofs

(* The abstract decoder's constants and byte-level operators are the     *)
(* routine's: they do not depend on the table the caller sees.           *)
LEMMA MappedOperators ==
  /\ Abstract!D!TPM_PRS_RES_NAME_SIZE = TPM_PRS_RES_NAME_SIZE
  /\ Abstract!D!TPM_POS_RES_TEMPLATE_MIN_SIZE = TPM_POS_RES_TEMPLATE_MIN_SIZE
  /\ Abstract!D!TPM_PRS_RESS = TPM_PRS_RESS
  /\ Abstract!D!TPM_PRS_RESL = TPM_PRS_RESL
  /\ Abstract!D!Byte = Byte
  /\ Abstract!D!FixedPart = FixedPart
  /\ \A b, s : Abstract!D!PkgValue(b, s) = PkgValue(b, s)
  /\ \A b, s : Abstract!D!ByteOf(b, s) = ByteOf(b, s)
  /\ \A x : Abstract!D!IsShortLead(x) = IsShortLead(x)
  /\ \A x : Abstract!D!IntegerSize(x) = IntegerSize(x)
BY DEF Abstract!D!TPM_PRS_RES_NAME_SIZE, TPM_PRS_RES_NAME_SIZE,
       Abstract!D!TPM_POS_RES_TEMPLATE_MIN_SIZE, TPM_POS_RES_TEMPLATE_MIN_SIZE,
       Abstract!D!TPM_PRS_RESS, TPM_PRS_RESS, Abstract!D!TPM_PRS_RESL, TPM_PRS_RESL,
       Abstract!D!Byte, Byte, Abstract!D!FixedPart, FixedPart,
       Abstract!D!PkgValue, PkgValue, Abstract!D!ByteOf, ByteOf,
       Abstract!D!IsShortLead, IsShortLead, Abstract!D!LeValue, LeValue,
       Abstract!D!FollowCount, FollowCount, Abstract!D!IntegerSize, IntegerSize,
       Abstract!D!AML_BYTE_PREFIX, AML_BYTE_PREFIX, Abstract!D!AML_WORD_PREFIX,
       AML_WORD_PREFIX, Abstract!D!AML_DWORD_PREFIX, AML_DWORD_PREFIX

(* The caller's table has the routine's length, so the abstract decoder  *)
(* scans the same range, finds the same anchors and makes the same       *)
(* choice as the one the routine's state is read with.                   *)
LEMMA MappedDecoder ==
  ASSUME TypeOK
  PROVE  /\ Abstract!D!ScanBound = ScanBound
         /\ \A name : Abstract!D!Anchors(name) = Anchors(name)
         /\ \A name : Abstract!D!FirstAnchor(name) = FirstAnchor(name)
         /\ Abstract!D!RessFits = RessFits
<1>1. Len(callerBuf) = Len(buf)
  BY DEF TypeOK, callerBuf
<1>2. Abstract!D!ScanBound = ScanBound
  BY <1>1, MappedOperators DEF ScanBound, Abstract!D!ScanBound
<1>3. \A name : Abstract!D!Anchors(name) = Anchors(name)
  BY <1>2, MappedOperators DEF Anchors, Abstract!D!Anchors
<1>4. \A name : Abstract!D!FirstAnchor(name) = FirstAnchor(name)
  BY <1>3 DEF FirstAnchor, Abstract!D!FirstAnchor
<1>5. Abstract!D!RessFits = RessFits
  BY <1>3, <1>4, MappedOperators DEF RessFits, Abstract!D!RessFits
<1>. QED
  BY <1>2, <1>3, <1>4, <1>5

(* A table nb of the loaded length whose changed bytes lie between the    *)
(* PkgLength byte p of an anchor and an end e no later than the end of    *)
(* that anchor's original Buffer has changed only that Buffer.            *)
LEMMA BufferConfined ==
  ASSUME NEW nb, NEW p \in Int, NEW e \in Int,
         DOMAIN nb = 1..Len(table0),
         \A q \in DOMAIN nb : nb[q] \in Byte,
         PkgValue(table0, p) \in Nat,
         e <= p + PkgValue(table0, p),
         \A q \in 0..(Len(table0) - 1) : nb[q + 1] # table0[q + 1] => q \in p..(e - 1)
  PROVE  Abstract!OnlyBufferChanged(nb, p - (TPM_PRS_RES_NAME_SIZE + 1))
<1>1. Abstract!BufferOf(p - (TPM_PRS_RES_NAME_SIZE + 1))
        = p .. (p + PkgValue(table0, p) - 1)
  BY MappedOperators DEF Abstract!BufferOf, TPM_PRS_RES_NAME_SIZE
<1>. QED
  BY <1>1, MappedOperators DEF Abstract!OnlyBufferChanged

-----------------------------------------------------------------------------
(* Every step of UpdatePossibleResource is, in the caller's view, a       *)
(* stutter (the scans and the patches before the return), a Fail (an      *)
(* error return, with the table as loaded or with one template patched)   *)
(* or a SucceedConfined (the descriptor rewrite and EFI_SUCCESS).         *)
LEMMA RefinementStep ==
  ASSUME IInv, ChoiceInv, [Next]_vars
  PROVE  [Abstract!SucceedConfined \/ Abstract!Fail]_Abstract!avars
<1>1. TypeOK /\ IInv'
  BY NextIInv DEF IInv
<1>2. table0' = table0 /\ irq' = irq
  BY DEF Next, vars, RessSkip, RessExhausted, RessUnsupported, RessTooLong,
         RessNoRoom, RessPatch, ReslSkip, ReslExhausted, ReslUnsupported,
         ReslNoRoom, ReslPatch, RessDecodes, ReslDecodes, NotFound, PatchDescriptor
<1>3. CASE UNCHANGED vars
  BY <1>3 DEF vars, Abstract!avars, callerBuf, callerIsShort
<1>4. CASE RessSkip \/ RessExhausted \/ RessTooLong \/ RessPatch
                   \/ ReslSkip \/ ReslExhausted \/ ReslPatch
  <2>1. pc # "done" /\ pc' # "done" /\ status' = status
    BY <1>4 DEF RessSkip, RessExhausted, RessTooLong, RessPatch, ReslSkip,
                ReslExhausted, ReslPatch, RessDecodes, ReslDecodes
  <2>. QED
    BY <2>1, <1>2 DEF Abstract!avars, callerBuf, callerIsShort
<1>5. CASE RessUnsupported \/ RessNoRoom \/ ReslUnsupported \/ ReslNoRoom
  <2>1. /\ pc \in {"ress", "resl"} /\ pc' = "done"
        /\ status' \in Abstract!Errors
        /\ buf' = buf /\ isShort' = isShort
    BY <1>5 DEF RessUnsupported, RessNoRoom, ReslUnsupported, ReslNoRoom,
                RessDecodes, ReslDecodes, Abstract!Errors
  <2>2. status = "NONE" /\ buf = table0 /\ isShort \in BOOLEAN
    BY <2>1, <1>1 DEF ChoiceInv, IInv, TypeOK
  <2>. QED
    BY <2>1, <2>2, <1>2 DEF Abstract!Fail, callerBuf, callerIsShort
<1>6. CASE NotFound
  <2>1. /\ pc = "check" /\ pc' = "done" /\ status' = "NOT_FOUND"
        /\ buf' = buf /\ isShort' = isShort /\ status = "NONE"
    BY <1>6 DEF NotFound, ChoiceInv
  <2>2. isShort \in BOOLEAN
    BY <1>1 DEF TypeOK
  <2>3. buf = table0 \/ \E o \in Abstract!AnyAnchor : Abstract!OnlyBufferChanged(buf, o)
    <3>1. CASE buf # table0
      <4>1. /\ ptr - (TPM_PRS_RES_NAME_SIZE + 1) \in Anchors(ChosenName)
            /\ endPtr = ptr + origLen
            /\ origLen <= PkgValue(table0, ptr)
            /\ PkgValue(table0, ptr) \in Nat
        BY <3>1 DEF ChoiceInv, Patched
      <4>2. ptr - (TPM_PRS_RES_NAME_SIZE + 1) \in Abstract!AnyAnchor
        BY <4>1, <1>1, MappedDecoder, MappedOperators DEF Abstract!AnyAnchor, ChosenName
      <4>3. Abstract!OnlyBufferChanged(buf, ptr - (TPM_PRS_RES_NAME_SIZE + 1))
        <5>1. /\ DOMAIN buf = 1..Len(table0)
              /\ \A q \in DOMAIN buf : buf[q] \in Byte
              /\ ptr \in Int /\ endPtr \in Int /\ origLen \in Nat
          BY <1>1 DEF TypeOK
        <5>2. \A q \in 0..(Len(table0) - 1) :
                 buf[q + 1] # table0[q + 1] => q \in ptr..(endPtr - 1)
          BY <5>1 DEF IInv, WritesStayInTemplate, At, ByteOf
        <5>3. endPtr <= ptr + PkgValue(table0, ptr) /\ PkgValue(table0, ptr) \in Nat
          BY <4>1, <5>1
        <5>. QED
          BY <5>1, <5>2, <5>3, BufferConfined, Zenon
      <4>. QED
        BY <4>2, <4>3
    <3>. QED
      BY <3>1
  <2>. QED
    BY <2>1, <2>2, <2>3, <1>2 DEF Abstract!Fail, Abstract!Errors, callerBuf, callerIsShort
<1>7. CASE PatchDescriptor
  <2> DEFINE o == ptr - (TPM_PRS_RES_NAME_SIZE + 1)
  <2>1. /\ pc = "check" /\ ptr < ScanBound
        /\ pc' = "done" /\ status' = "SUCCESS" /\ status = "NONE"
        /\ ptr' = ptr /\ endPtr' = endPtr /\ isShort' = isShort
    BY <1>7 DEF PatchDescriptor, ChoiceInv
  <2>2. /\ o \in Anchors(ChosenName)
        /\ \A o2 \in Anchors(ChosenName) : o <= o2
        /\ isShort = RessFits
        /\ endPtr = ptr + origLen
        /\ origLen <= PkgValue(table0, ptr)
        /\ PkgValue(table0, ptr) \in Nat
    BY <2>1 DEF ChoiceInv, Patched, o
  <2>3. Abstract!Target = ChosenName
    <3>1. Abstract!D!RessFits = isShort
      BY <2>2, <1>1, MappedDecoder
    <3>2. isShort \in BOOLEAN
      BY <1>1 DEF TypeOK
    <3>. QED
      BY <3>1, <3>2, MappedOperators DEF Abstract!Target, ChosenName
  <2>4. /\ o \in Abstract!D!Anchors(Abstract!Target)
        /\ o = Abstract!D!FirstAnchor(Abstract!Target)
    BY <2>2, <2>3, <1>1, MappedDecoder, FirstAnchorHere
  <2>5. Abstract!OnlyBufferChanged(buf', o)
    <3>1. /\ DOMAIN buf' = 1..Len(table0)
          /\ \A q \in DOMAIN buf' : buf'[q] \in Byte
          /\ ptr \in Int /\ endPtr \in Int /\ origLen \in Nat
      BY <1>1, <1>2 DEF IInv, TypeOK
    <3>2. \A q \in 0..(Len(table0) - 1) :
             buf'[q + 1] # table0[q + 1] => q \in ptr..(endPtr - 1)
      BY <1>1, <1>2, <2>1, <3>1 DEF IInv, WritesStayInTemplate, At, ByteOf
    <3>3. endPtr <= ptr + PkgValue(table0, ptr) /\ PkgValue(table0, ptr) \in Nat
      BY <2>2, <3>1
    <3>. QED
      BY <3>1, <3>2, <3>3, BufferConfined, Zenon DEF o
  <2>6. callerBuf' = buf' /\ callerIsShort' = Abstract!D!RessFits
    BY <2>1, <2>2, <1>1, MappedDecoder DEF callerBuf, callerIsShort
  <2>. QED
    BY <2>1, <2>4, <2>5, <2>6, <1>2 DEF Abstract!SucceedConfined
<1>. QED
  BY <1>3, <1>4, <1>5, <1>6, <1>7 DEF Next

(* UpdatePossibleResource implements its contract without the            *)
(* well-formedness conjunct, for every header size, table image and IRQ   *)
(* buffer the assumptions admit: the caller sees the loaded table until   *)
(* the one return; EFI_SUCCESS sets *IsShortFormPkgLength to whether the  *)
(* first "RESS" can take the list and changes only the Buffer of the      *)
(* first anchor of that name; an error return leaves the table as loaded  *)
(* or changed inside one "RESS"/"RESL" Buffer.                            *)
THEOREM ImplementsConfinedContract == Spec => Abstract!ConfinedSpec
<1>1. Init => Abstract!Init
  BY DEF Init, Abstract!Init, callerBuf, callerIsShort
<1>2. Spec => [](IInv /\ ChoiceInv)
  BY InitIInv, InitChoiceInv, NextIInv, NextChoiceInv, PTL DEF Spec
<1>3. IInv /\ ChoiceInv /\ [Next]_vars
        => [Abstract!SucceedConfined \/ Abstract!Fail]_Abstract!avars
  BY RefinementStep
<1>. QED
  BY <1>1, <1>2, <1>3, PTL DEF Spec, Abstract!ConfinedSpec
====
