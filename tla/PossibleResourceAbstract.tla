----------------------- MODULE PossibleResourceAbstract -----------------------
(***************************************************************************)
(* What UpdatePossibleResource promises its caller, as one atomic step    *)
(* from the loaded table to the result.  The routine returns; only the    *)
(* bytes of one RESS or RESL Buffer may differ from the loaded table; on  *)
(* EFI_SUCCESS that Buffer decodes as a well-formed template with the new *)
(* IRQ list, in the short-form RESS exactly when the first RESS can take  *)
(* it, and *IsShortFormPkgLength says which.  The reference decoder is    *)
(* the one of PossibleResource, read with the scan state left out.        *)
(***************************************************************************)
EXTENDS Integers, Sequences

CONSTANTS HeaderSize, Tables, IrqBuffers

VARIABLES table0, irq, buf, isShort, status

avars == <<table0, irq, buf, isShort, status>>

D == INSTANCE PossibleResource
             WITH pc <- "done", ptr <- 0, newLen <- 0, origLen <- 0, endPtr <- 0

Errors == {"UNSUPPORTED", "INVALID_PARAMETER", "NOT_FOUND"}

(* Offsets of the Buffer, PkgLength to end, of the template at anchor o. *)
BufferOf(o) ==
  LET s == o + D!TPM_PRS_RES_NAME_SIZE + 1 IN s .. (s + D!PkgValue(table0, s) - 1)

(* nb keeps the length and every byte outside BufferOf(o). *)
OnlyBufferChanged(nb, o) ==
  /\ DOMAIN nb = 1..Len(table0)
  /\ \A q \in DOMAIN nb : nb[q] \in D!Byte
  /\ LET inside == BufferOf(o) IN
       \A q \in 0..(Len(table0) - 1) : q \notin inside => nb[q + 1] = table0[q + 1]

AnyAnchor == D!Anchors(D!TPM_PRS_RESS) \cup D!Anchors(D!TPM_PRS_RESL)

Init ==
  /\ table0 \in Tables
  /\ irq \in IrqBuffers
  /\ buf = table0
  /\ isShort = FALSE
  /\ status = "NONE"

(* The template the routine must patch: the first RESS if it can take *)
(* the list, else the first RESL.                                      *)
Target == IF D!RessFits THEN D!TPM_PRS_RESS ELSE D!TPM_PRS_RESL

(* EFI_SUCCESS with only the Buffer of the right template changed. *)
SucceedConfined ==
  /\ status = "NONE"
  /\ status' = "SUCCESS"
  /\ isShort' = D!RessFits
  /\ \E o \in D!Anchors(Target) :
       /\ o = D!FirstAnchor(Target)
       /\ OnlyBufferChanged(buf', o)
  /\ UNCHANGED <<table0, irq>>

(* ... and that Buffer now decodes as a well-formed template. *)
Succeed ==
  /\ SucceedConfined
  /\ \E o \in D!Anchors(Target) : o = D!FirstAnchor(Target) /\ D!WellFormedAt(o)'

Fail ==
  /\ status = "NONE"
  /\ status' \in Errors
  /\ isShort' \in BOOLEAN
  /\ buf' = table0 \/ \E o \in AnyAnchor : OnlyBufferChanged(buf', o)
  /\ UNCHANGED <<table0, irq>>

Return == Succeed \/ Fail

SafeSpec == Init /\ [][Return]_avars

(* The contract without the well-formedness of the patched Buffer: the  *)
(* routine returns once, on success with the right template changed and *)
(* nothing else, on failure with at most one template's Buffer changed. *)
ConfinedSpec == Init /\ [][SucceedConfined \/ Fail]_avars

(* The routine returns.  Fail is enabled whenever status = "NONE", so    *)
(* under SafeSpec the fairness condition WF_avars(Return) says exactly    *)
(* that a Return step happens: Spec is SafeSpec /\ Returns.              *)
Returns == <>(status # "NONE")

Spec == SafeSpec /\ WF_avars(Return)
=============================================================================
