--------------------- MODULE PossibleResourceRefinement ---------------------
(***************************************************************************)
(* UpdatePossibleResource step by step implements its one-step contract   *)
(* PossibleResourceAbstract.  Until the routine returns, the caller sees  *)
(* the loaded table (the scans and the patch all happen inside one call), *)
(* so every step before the return is a stutter of the abstract spec and  *)
(* the returning step is its Return.                                      *)
(***************************************************************************)
EXTENDS PossibleResource

(* The routine is sequential code: each step the code can take, it takes. *)
FairSpec == Spec /\ WF_vars(Next)

(* Refinement mapping: the table and *IsShortFormPkgLength as the caller *)
(* sees them, i.e. as loaded until pc = "done".                           *)
callerBuf == IF pc = "done" THEN buf ELSE table0
callerIsShort == IF pc = "done" THEN isShort ELSE FALSE

Abstract == INSTANCE PossibleResourceAbstract
              WITH buf <- callerBuf, isShort <- callerIsShort

(* UpdatePossibleResource implements its contract: it returns, and it    *)
(* returns with a change confined to one RESS/RESL Buffer, well-formed    *)
(* and in the right form on EFI_SUCCESS.                                 *)
(* (Abstract!Spec is checked as Abstract!SafeSpec /\ Abstract!Returns,   *)
(* which it equals, because TLC cannot evaluate ENABLED through a       *)
(* mapping of variables to expressions.)                                 *)
ImplementsAbstract == Abstract!SafeSpec /\ Abstract!Returns
=============================================================================
