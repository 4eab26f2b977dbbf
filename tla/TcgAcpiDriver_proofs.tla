------------------------ MODULE TcgAcpiDriver_proofs ------------------------
(***************************************************************************)
(* Proofs about PublishTpm2 inside the whole entry point, for every TPM2   *)
(* configuration the assumptions of TcgAcpiDriver admit.                   *)
(***************************************************************************)
EXTENDS TcgAcpiDriver, TLAPS

(* The TPM2 tables PublishTpm2 can build from the template. *)
Tpm2Tables == { FfaStartMethod(Tpm2Fields(c, Tpm2Template), c) : c \in Tpm2Configs }

(* The stages in which PublishTpm2 has not yet run. *)
BeforeTpm2 == Stages \ {"ret", "done"}

(* Inductive invariant: mTpm2AcpiTemplate is untouched until PublishTpm2 *)
(* runs, and every TPM2 table installed so far has a Length that matches *)
(* its revision and log area.                                            *)
TInv ==
  /\ stage \in Stages
  /\ stage \in BeforeTpm2 => tpm2 = Tpm2Template
  /\ tpm2Installed \in Seq(Tpm2Tables)
  /\ Tpm2LengthMatchesLogArea

(* The table PublishTpm2 installs for configuration c, built from the    *)
(* template: its Length is 76 exactly when Revision is at least 4 and   *)
(* Laml and Lasa are both set.                                           *)
LEMMA Tpm2Installs ==
  ASSUME NEW c \in Tpm2Configs
  PROVE  LET ffa == FfaStartMethod(Tpm2Fields(c, Tpm2Template), c)
         IN  ffa.length =
               IF /\ ffa.revision >= EFI_TPM2_ACPI_TABLE_REVISION_4
                  /\ ffa.laml # 0
                  /\ ffa.lasa # 0
                 THEN 76 ELSE SIZEOF_EFI_TPM2_ACPI_TABLE
<1> DEFINE t == Tpm2Fields(c, Tpm2Template)
           ffa == FfaStartMethod(t, c)
<1>1. c.rev \in 0..255 /\ c.class \in 0..255 /\ c.laml \in Nat /\ c.lasa \in Nat
      /\ c.base \in Nat
  BY Tpm2ConfigsAssumption
<1>2. /\ t.revision = c.rev /\ t.laml = c.laml /\ t.lasa = c.lasa
      /\ t.length = IF RolledBack(c) THEN SIZEOF_EFI_TPM2_ACPI_TABLE ELSE 76
      /\ t.controlArea = 0 /\ t.startMethod = START_METHOD_TIS
      /\ t.psp = <<0, 0, 0, 0>>
      /\ t.flags \in Int
      /\ DOMAIN t = {"revision", "length", "flags", "controlArea", "startMethod",
                     "psp", "laml", "lasa"}
  <2>1. Tpm2Template.flags = 0
    BY DEF Tpm2Template
  <2>2. t.flags \in Int
    BY <1>1, <2>1 DEF Tpm2Fields
  <2>. QED
    BY <2>2 DEF Tpm2Fields, Tpm2Template
<1>3. /\ ffa.revision = t.revision /\ ffa.laml = t.laml /\ ffa.lasa = t.lasa
      /\ ffa.length = t.length /\ ffa.flags = t.flags
      /\ ffa.controlArea = c.base + 64
      /\ ffa.startMethod = START_METHOD_CRB_WITH_FFA
      /\ ffa.psp = <<0, 0, 128, 2>>
      /\ DOMAIN ffa = DOMAIN t
  BY DEF FfaStartMethod
<1>5. ffa.length =
        IF /\ ffa.revision >= EFI_TPM2_ACPI_TABLE_REVISION_4
           /\ ffa.laml # 0
           /\ ffa.lasa # 0
          THEN 76 ELSE SIZEOF_EFI_TPM2_ACPI_TABLE
  BY <1>1, <1>2, <1>3 DEF RolledBack, EFI_TPM2_ACPI_TABLE_REVISION_4
<1>. QED
  BY <1>5

LEMMA InitTInv == DInit => TInv
BY DEF DInit, TInv, Stages, BeforeTpm2, Tpm2LengthMatchesLogArea

LEMMA NextTInv == TInv /\ [DNext]_dvars => TInv'
<1> SUFFICES ASSUME TInv, [DNext]_dvars PROVE TInv'
  OBVIOUS
<1>1. CASE EntryCheck
  BY <1>1 DEF EntryCheck, TInv, Stages, BeforeTpm2, Tpm2LengthMatchesLogArea
<1>2. CASE LoadAndMeasure
  BY <1>2 DEF LoadAndMeasure, TInv, Stages, BeforeTpm2, Tpm2LengthMatchesLogArea
<1>3. CASE UpdatePPVersion
  BY <1>3 DEF UpdatePPVersion, TInv, Stages, BeforeTpm2, Tpm2LengthMatchesLogArea
<1>4. CASE UpdateHIDFailed
  BY <1>4 DEF UpdateHIDFailed, TInv, Stages, BeforeTpm2, Tpm2LengthMatchesLogArea
<1>5. CASE UpdateHID
  BY <1>5 DEF UpdateHID, TInv, Stages, BeforeTpm2, Tpm2LengthMatchesLogArea
<1>6. CASE PatchIrq
  BY <1>6 DEF PatchIrq, TInv, Stages, BeforeTpm2, Tpm2LengthMatchesLogArea
<1>7. CASE PrsStep
  BY <1>7 DEF PrsStep, dstate, TInv, Stages, BeforeTpm2, Tpm2LengthMatchesLogArea
<1>8. CASE InstallSsdt
  BY <1>8 DEF InstallSsdt, TInv, Stages, BeforeTpm2, Tpm2LengthMatchesLogArea
<1>9. CASE PublishTpm2
  <2>1. tpm2 = Tpm2Template
    BY <1>9 DEF PublishTpm2, TInv, Stages, BeforeTpm2
  <2>2. PICK c \in Tpm2Configs :
          IF c.iface = "Crb"
            THEN /\ tpm2' = FfaStartMethod(Tpm2Fields(c, tpm2), c)
                 /\ tpm2Installed' = Append(tpm2Installed, tpm2')
            ELSE UNCHANGED tpm2Installed
    BY <1>9 DEF PublishTpm2
  <2>3. stage' = "ret"
    BY <1>9 DEF PublishTpm2
  <2>4. tpm2Installed' \in Seq(Tpm2Tables)
    BY <2>1, <2>2 DEF TInv, Tpm2Tables
  <2>5. Tpm2LengthMatchesLogArea'
    <3>1. CASE c.iface = "Crb"
      <4>1. tpm2Installed' = Append(tpm2Installed, FfaStartMethod(Tpm2Fields(c, Tpm2Template), c))
        BY <2>1, <2>2, <3>1
      <4>2. FfaStartMethod(Tpm2Fields(c, Tpm2Template), c).length =
              IF /\ FfaStartMethod(Tpm2Fields(c, Tpm2Template), c).revision
                       >= EFI_TPM2_ACPI_TABLE_REVISION_4
                 /\ FfaStartMethod(Tpm2Fields(c, Tpm2Template), c).laml # 0
                 /\ FfaStartMethod(Tpm2Fields(c, Tpm2Template), c).lasa # 0
                THEN 76 ELSE SIZEOF_EFI_TPM2_ACPI_TABLE
        BY Tpm2Installs
      <4>. QED
        BY <4>1, <4>2 DEF TInv, Tpm2LengthMatchesLogArea
    <3>2. CASE c.iface # "Crb"
      BY <2>2, <3>2 DEF TInv, Tpm2LengthMatchesLogArea
    <3>. QED
      BY <3>1, <3>2
  <2>. QED
    BY <2>3, <2>4, <2>5 DEF TInv, Stages, BeforeTpm2
<1>10. CASE EntryReturn
  BY <1>10 DEF EntryReturn, TInv, Stages, BeforeTpm2, Tpm2LengthMatchesLogArea
<1>11. CASE UNCHANGED dvars
  BY <1>11 DEF dvars, dstate, TInv, Stages, BeforeTpm2, Tpm2LengthMatchesLogArea
<1>. QED
  BY <1>1, <1>2, <1>3, <1>4, <1>5, <1>6, <1>7, <1>8, <1>9, <1>10, <1>11 DEF DNext

(* Every TPM2 table PublishTpm2 hands to InstallAcpiTable declares the    *)
(* 76-byte V4 length exactly when its revision is at least 4 and both    *)
(* log-area fields are set, and the 52-byte length otherwise, whatever   *)
(* revision, Laml and Lasa the platform configures.                      *)
THEOREM Tpm2LengthMatchesLogAreaHolds == DSpec => []Tpm2LengthMatchesLogArea
<1>1. DInit => TInv
  BY InitTInv
<1>2. TInv /\ [DNext]_dvars => TInv'
  BY NextTInv
<1>3. TInv => Tpm2LengthMatchesLogArea
  BY DEF TInv
<1>. QED
  BY <1>1, <1>2, <1>3, PTL DEF DSpec
-----------------------------------------------------------------------------
(***************************************************************************)
(* The order of measuring and patching.                                    *)
(***************************************************************************)

(* The events TpmMeasureAndLogData can have logged: the SSDT as loaded   *)
(* and the TPM2 template as declared.                                    *)
MEvents == {<<"SSDT", image>>, <<"TPM2", Tpm2Template>>}

(* The stages after PublishAcpiTable has loaded and measured the SSDT   *)
(* and before the entry point has returned.                             *)
AfterLoad == Stages \ {"entry", "load", "done"}

(* Inductive invariant: the log holds only unpatched tables, nothing is  *)
(* loaded before GetSectionFromFv, and from then on the loaded SSDT is   *)
(* in the log.  TInv keeps the template as declared until PublishTpm2.   *)
MInv ==
  /\ TInv
  /\ measured \in Seq(MEvents)
  /\ stage \in {"entry", "load"} => buf = <<>>
  /\ stage \in AfterLoad => SkipMeasurements \/ Logged(<<"SSDT", image>>, measured)

(* Appending to a log keeps what it logged and logs the new event. *)
LEMMA LoggedAppend ==
  ASSUME NEW S, NEW l \in Seq(S), NEW x \in S, NEW e
  PROVE  /\ Logged(e, l) => Logged(e, Append(l, x))
         /\ Logged(x, Append(l, x))
BY DEF Logged

(* A measurement keeps the log a log of unpatched tables and logs the    *)
(* event, unless the platform skips measurements.                       *)
LEMMA MeasureEventLogs ==
  ASSUME NEW e \in MEvents, measured \in Seq(MEvents)
  PROVE  /\ MeasureEvent(e[1], e[2]) \in Seq(MEvents)
         /\ \A f : Logged(f, measured) => Logged(f, MeasureEvent(e[1], e[2]))
         /\ SkipMeasurements \/ Logged(e, MeasureEvent(e[1], e[2]))
<1>1. e = <<e[1], e[2]>>
  BY DEF MEvents
<1>. QED
  BY <1>1, LoggedAppend, SkipMeasurementsAssumption DEF MeasureEvent

LEMMA InitMInv == DInit => MInv
BY InitTInv DEF DInit, MInv, MEvents, AfterLoad, Stages
LEMMA NextMInv == MInv /\ [DNext]_dvars => MInv'
<1> SUFFICES ASSUME MInv, [DNext]_dvars PROVE MInv'
  OBVIOUS
<1>0. TInv'
  BY NextTInv DEF MInv
<1>1. CASE EntryCheck
  <2>1. /\ stage = "entry" /\ stage' \in {"load", "done"}
        /\ UNCHANGED <<buf, measured, image>>
    BY <1>1 DEF EntryCheck, vars
  <2>. QED
    BY <1>0, <2>1 DEF MInv, AfterLoad, MEvents, Stages
<1>2. CASE LoadAndMeasure
  <2>1. <<"SSDT", image>> \in MEvents /\ measured \in Seq(MEvents)
    BY DEF MInv, MEvents
  <2>2. /\ measured' = MeasureEvent(<<"SSDT", image>>[1], <<"SSDT", image>>[2])
        /\ stage' = "ppver" /\ image' = image /\ tpm2' = tpm2
    BY <1>2 DEF LoadAndMeasure
  <2>3. measured' \in Seq(MEvents') /\ (SkipMeasurements \/ Logged(<<"SSDT", image>>, measured'))
    BY <2>1, <2>2, MeasureEventLogs DEF MEvents
  <2>. QED
    BY <1>0, <2>2, <2>3 DEF MInv, AfterLoad, Stages
<1>3. CASE UpdatePPVersion
  BY <1>0, <1>3 DEF UpdatePPVersion, MInv, AfterLoad, Stages, MEvents
<1>4. CASE UpdateHIDFailed
  BY <1>0, <1>4 DEF UpdateHIDFailed, MInv, AfterLoad, Stages, MEvents
<1>5. CASE UpdateHID
  BY <1>0, <1>5 DEF UpdateHID, MInv, AfterLoad, Stages, MEvents
<1>6. CASE PatchIrq
  BY <1>0, <1>6 DEF PatchIrq, MInv, AfterLoad, Stages, MEvents
<1>7. CASE PrsStep
  BY <1>0, <1>7 DEF PrsStep, dstate, MInv, AfterLoad, Stages, MEvents
<1>8. CASE InstallSsdt
  BY <1>0, <1>8 DEF InstallSsdt, MInv, AfterLoad, Stages, MEvents
<1>9. CASE PublishTpm2
  <2>1. tpm2 = Tpm2Template /\ stage = "tpm2"
    BY <1>9 DEF PublishTpm2, MInv, TInv, BeforeTpm2, Stages
  <2>2. <<"TPM2", tpm2>> \in MEvents /\ measured \in Seq(MEvents)
    BY <2>1 DEF MInv, MEvents
  <2>3. /\ measured' = MeasureEvent(<<"TPM2", tpm2>>[1], <<"TPM2", tpm2>>[2])
        /\ stage' = "ret" /\ image' = image
    BY <1>9 DEF PublishTpm2
  <2>4. measured' \in Seq(MEvents')
    BY <2>2, <2>3, MeasureEventLogs DEF MEvents
  <2>5. SkipMeasurements \/ Logged(<<"SSDT", image>>, measured)
    BY <2>1 DEF MInv, AfterLoad, Stages
  <2>6. (SkipMeasurements \/ Logged(<<"SSDT", image>>, measured))'
    BY <2>2, <2>3, <2>5, MeasureEventLogs
  <2>. QED
    BY <1>0, <2>3, <2>4, <2>6 DEF MInv, AfterLoad, Stages
<1>10. CASE EntryReturn
  BY <1>0, <1>10 DEF EntryReturn, MInv, AfterLoad, Stages, MEvents
<1>11. CASE UNCHANGED dvars
  BY <1>0, <1>11 DEF dvars, vars, dstate, MInv, AfterLoad, Stages, MEvents
<1>. QED
  BY <1>1, <1>2, <1>3, <1>4, <1>5, <1>6, <1>7, <1>8, <1>9, <1>10, <1>11 DEF DNext
(* Under MInv every step of the entry point is a MeasuredStep. *)
LEMMA StepMeasured == MInv /\ [DNext]_dvars => [MeasuredStep]_dvars
<1> SUFFICES ASSUME MInv, [DNext]_dvars PROVE MeasuredStep
  OBVIOUS
<1>1. CASE EntryCheck
  BY <1>1 DEF EntryCheck, vars, MeasuredStep
<1>2. CASE LoadAndMeasure
  BY <1>2 DEF LoadAndMeasure, MInv, MeasuredStep
<1>3. CASE UpdatePPVersion
  BY <1>3 DEF UpdatePPVersion, MInv, AfterLoad, Stages, MeasuredStep
<1>4. CASE UpdateHIDFailed
  BY <1>4 DEF UpdateHIDFailed, vars, MeasuredStep
<1>5. CASE UpdateHID
  BY <1>5 DEF UpdateHID, MInv, AfterLoad, Stages, MeasuredStep
<1>6. CASE PatchIrq
  BY <1>6 DEF PatchIrq, MeasuredStep
<1>7. CASE PrsStep
  BY <1>7 DEF PrsStep, dstate, MInv, AfterLoad, Stages, MeasuredStep
<1>8. CASE InstallSsdt
  BY <1>8 DEF InstallSsdt, vars, MeasuredStep
<1>9. CASE PublishTpm2
  <2>1. tpm2 = Tpm2Template /\ <<"TPM2", tpm2>> \in MEvents /\ measured \in Seq(MEvents)
    BY <1>9 DEF PublishTpm2, MInv, TInv, BeforeTpm2, Stages, MEvents
  <2>2. /\ measured' = MeasureEvent(<<"TPM2", tpm2>>[1], <<"TPM2", tpm2>>[2])
        /\ buf' = buf
    BY <1>9 DEF PublishTpm2, vars
  <2>3. SkipMeasurements \/ Logged(<<"TPM2", Tpm2Template>>, measured')
    BY <2>1, <2>2, MeasureEventLogs
  <2>. QED
    BY <2>2, <2>3 DEF MeasuredStep
<1>10. CASE EntryReturn
  BY <1>10 DEF EntryReturn, vars, MeasuredStep
<1>11. CASE UNCHANGED dvars
  BY <1>11 DEF dvars, vars, dstate, MeasuredStep
<1>. QED
  BY <1>1, <1>2, <1>3, <1>4, <1>5, <1>6, <1>7, <1>8, <1>9, <1>10, <1>11 DEF DNext

(* PublishAcpiTable measures the SSDT as GetSectionFromFv loaded it      *)
(* before UpdatePPVersion, UpdateHID or UpdatePossibleResource writes a  *)
(* byte of it, and PublishTpm2 measures mTpm2AcpiTemplate as declared in *)
(* the step that first changes it: for every table image, PCD and TPM    *)
(* answer, the log never depends on what the patchers write.             *)
THEOREM MeasuredBeforeUpdateHolds == DSpec => MeasuredBeforeUpdate
<1>1. DInit => MInv
  BY InitMInv
<1>2. MInv /\ [DNext]_dvars => MInv'
  BY NextMInv
<1>3. MInv /\ [DNext]_dvars => [MeasuredStep]_dvars
  BY StepMeasured
<1>. QED
  BY <1>1, <1>2, <1>3, PTL DEF DSpec, MeasuredBeforeUpdate
====
