---------------------------- MODULE TcgAcpiDriver ----------------------------
(***************************************************************************)
(* The Tcg2AcpiFfa driver as a whole: InitializeTcgAcpiFfa checks the TPM  *)
(* instance, PublishAcpiTable loads and measures the SSDT, patches the     *)
(* "$PV" version tag (UpdatePPVersion), the "NNNN0000" _HID tag           *)
(* (UpdateHID) and the _PRS interrupt list (UpdatePossibleResource, the    *)
(* steps of module PossibleResource on the same buffer), and installs it;  *)
(* PublishTpm2 then fills in and installs the TPM2 table.                  *)
(*                                                                         *)
(* The driver is one sequential entry point, so stage records which call   *)
(* runs.  The string-tag patchers are one step each (their scans write     *)
(* nothing until the match); UpdatePossibleResource keeps its own steps.   *)
(* Firmware services are inputs: the FV image, the PCDs and the TPM        *)
(* capability answers are chosen from the constant sets below; the         *)
(* measurement log and the installed tables are recorded as sequences.     *)
(***************************************************************************)
EXTENDS PossibleResource

CONSTANTS
  SkipMeasurements,  \* FixedPcdGetBool (PcdSkipTcgSmmAcpiMeasurements)
  TpmInstances,      \* PcdTpmInstanceGuid values; "DTPM20" is the one accepted
  PPVersions,        \* PcdTcgPhysicalPresenceInterfaceVer, bytes without the NUL
  ManufacturerIds,   \* TPM_PT_MANUFACTURER as its four bytes in memory order
  FirmwareVersions,  \* TPM_PT_FIRMWARE_VERSION_1 as <<high 16 bits, low 16 bits>>
  CapabilityResults, \* what a Tpm2GetCapability* call may return
  CurrentIrqNums,    \* PcdTpm2CurrentIrqNum
  PcdIrqBuffers,     \* PcdTpm2PossibleIrqNumBuf, of any size
  BytesPastEnd,      \* the byte that follows the loaded table in memory
  Tpm2Configs        \* the TPM2 PCDs: revision, Laml, Lasa, interface, class, base

ASSUME SkipMeasurementsAssumption == SkipMeasurements \in BOOLEAN
(* PcdTpm2AcpiTableRev and PcdTpmPlatformClass are UINT8s; Laml, Lasa   *)
(* and the CRB base address are unsigned.                              *)
ASSUME Tpm2ConfigsAssumption ==
  \A c \in Tpm2Configs : /\ c.rev \in 0..255 /\ c.class \in 0..255
                        /\ c.laml \in Nat /\ c.lasa \in Nat /\ c.base \in Nat
ASSUME PcdIrqBuffersAssumption ==
  \A q \in PcdIrqBuffers :
     q \in Seq(Byte) /\ (Len(q) <= MAX_PRS_INT_BUF_SIZE /\ Len(q) % 4 = 0 => q \in IrqBuffers)

(* Tags and field widths, lines 39-47. *)
PHYSICAL_PRESENCE_VERSION_TAG == <<36, 80, 86>>               \* "$PV"
PHYSICAL_PRESENCE_VERSION_SIZE == 4
TPM_HID_TAG == <<78, 78, 78, 78, 48, 48, 48, 48>>             \* "NNNN0000"
TPM_HID_PNP_SIZE == 8
TPM_HID_ACPI_SIZE == 9

(* mTpm2AcpiTemplate (lines 72-101): EFI_TPM2_ACPI_TABLE_V4 is 76 bytes, *)
(* Revision EFI_TPM2_ACPI_TABLE_REVISION (4), StartMethod TIS (6).       *)
EFI_TPM2_ACPI_TABLE_REVISION_4 == 4
START_METHOD_TIS == 6
START_METHOD_CRB_WITH_FFA == 15
Tpm2Template ==
  [revision |-> EFI_TPM2_ACPI_TABLE_REVISION_4, length |-> 76, flags |-> 0,
   controlArea |-> 0, startMethod |-> START_METHOD_TIS, psp |-> <<0, 0, 0, 0>>,
   laml |-> 0, lasa |-> 0]
(* sizeof (EFI_TPM2_ACPI_TABLE): header, Flags, control area, StartMethod. *)
SIZEOF_EFI_TPM2_ACPI_TABLE == 52

VARIABLES
  stage,         \* which part of the entry point runs
  image,         \* the SSDT section as GetSectionFromFv returns it
  outside,       \* the byte in memory right after the table
  measured,      \* TpmMeasureAndLogData events: <<"SSDT" | "TPM2", data>>
  ppStatus,      \* what UpdatePPVersion returned ("NONE" before)
  hidStatus,     \* what UpdateHID returned ("NONE" before)
  pastEnd,       \* a tag scan read, or a patch wrote, at or past Table + Length
  ssdtInstalled, \* the SSDT bytes handed to InstallAcpiTable
  tpm2,          \* mTpm2AcpiTemplate
  crb,           \* the CRB control area PublishTpm2 writes
  tpm2Installed, \* the TPM2 tables handed to InstallAcpiTable
  entryStatus    \* what InitializeTcgAcpiFfa returned ("NONE" before)

dstate == <<stage, image, outside, measured, ppStatus, hidStatus, pastEnd,
            ssdtInstalled, tpm2, crb, tpm2Installed, entryStatus>>
dvars == <<vars, dstate>>

-----------------------------------------------------------------------------
(* The byte at offset o of the table, or the byte behind it. *)
Mem(b, o) == IF o < Len(b) THEN b[o + 1] ELSE outside

(* AsciiStrCmp (b + o, tag) == 0: the tag's characters, then a NUL. *)
StrMatch(b, o, tag) ==
  /\ \A i \in 0..(Len(tag) - 1) : Mem(b, o + i) = tag[i + 1]
  /\ Mem(b, o + Len(tag)) = 0

(* AsciiStrCmp reads up to the first difference: it reaches offset o + k *)
(* when the k bytes before match.                                        *)
ReadsPastEnd(b, o, tag) ==
  \E k \in 0..Len(tag) :
     /\ o + k >= Len(b)
     /\ \A i \in 0..(k - 1) : Mem(b, o + i) = tag[i + 1]

(* Offsets the loop "DataPtr <= Table + Length - w" finds the tag at. *)
TagHits(b, tag, w) == { o \in HeaderSize..(Len(b) - w) : StrMatch(b, o, tag) }

FirstOf(S) == CHOOSE o \in S : \A o2 \in S : o <= o2

(* The offsets the loop compares: all of them, or up to the first hit. *)
Scanned(b, tag, w) ==
  { o \in HeaderSize..(Len(b) - w) : \A h \in TagHits(b, tag, w) : o <= h }

ScanReadsPastEnd(b, tag, w) == \E o \in Scanned(b, tag, w) : ReadsPastEnd(b, o, tag)

(* CopyMem (b + o, s, Len(s)); bytes at or past the end are lost to the *)
(* model and flagged through WritesPastEnd.                              *)
CopyAt(b, o, s) ==
  [q \in DOMAIN b |-> IF q - 1 - o \in 0..(Len(s) - 1) THEN s[q - o] ELSE b[q]]

WritesPastEnd(b, o, s) == o + Len(s) > Len(b)

-----------------------------------------------------------------------------
(* "%d" of v < 100000, and "%02d": at least two digits. *)
DecimalDigits(v) ==
  LET n == CHOOSE k \in 1..5 : v < 10 ^ k /\ (k = 1 \/ v >= 10 ^ (k - 1))
  IN [i \in 1..n |-> 48 + ((v \div 10 ^ (n - i)) % 10)]

Pad2(v) == IF v < 10 THEN <<48>> \o DecimalDigits(v) ELSE DecimalDigits(v)

(* AsciiSPrint (buffer, size, ...) writes at most size - 1 characters and *)
(* a NUL.                                                                 *)
SPrint(s, size) ==
  (IF Len(s) < size THEN s ELSE SubSeq(s, 1, size - 1)) \o <<0>>

(* ManufacturerID >> 24 is 0x00 or 0x20: a 3-letter PNP vendor code. *)
PnpHID(mfr) == mfr[4] \in {0, 32}

(* Hid[TPM_HID_ACPI_SIZE], zeroed, then the vendor code and the two     *)
(* halves of FirmwareVersion1 printed "%02d%02d" into the 5 bytes left.  *)
HidString(mfr, fw) ==
  LET vendor == IF PnpHID(mfr) THEN SubSeq(mfr, 1, 3) ELSE mfr
      s      == vendor \o SPrint(Pad2(fw[1]) \o Pad2(fw[2]), 5)
  IN s \o [i \in 1..(TPM_HID_ACPI_SIZE - Len(s)) |-> 0]

(* Mutant: the ACPI path copies TPM_HID_ACPI_SIZE + 1 bytes. *)
HidPatchAcpiOverrun(mfr, fw) ==
  IF PnpHID(mfr)
    THEN SubSeq(HidString(mfr, fw), 1, TPM_HID_PNP_SIZE) \o <<AML_NOOP_OP>>
    ELSE HidString(mfr, fw) \o <<0>>

(* Mutant: the PNP path copies its 8 bytes and leaves the old NUL. *)
HidPatchNoNoop(mfr, fw) ==
  IF PnpHID(mfr)
    THEN SubSeq(HidString(mfr, fw), 1, TPM_HID_PNP_SIZE)
    ELSE HidString(mfr, fw)

(* What UpdateHID copies at the tag: 8 bytes and a NOOP, or all 9. *)
HidPatch(mfr, fw) ==
  IF PnpHID(mfr)
    THEN SubSeq(HidString(mfr, fw), 1, TPM_HID_PNP_SIZE) \o <<AML_NOOP_OP>>
    ELSE HidString(mfr, fw)
-----------------------------------------------------------------------------
DInit ==
  /\ table0 = <<>> /\ irq = <<>> /\ buf = <<>>
  /\ pc = "done" /\ ptr = 0 /\ newLen = 0 /\ origLen = 0 /\ endPtr = 0
  /\ isShort = FALSE /\ status = "NONE"
  /\ stage = "entry"
  /\ image \in Tables
  /\ outside \in BytesPastEnd
  /\ measured = <<>>
  /\ ppStatus = "NONE"
  /\ hidStatus = "NONE"
  /\ pastEnd = FALSE
  /\ ssdtInstalled = <<>>
  /\ tpm2 = Tpm2Template
  /\ crb = [commandSize |-> 0, responseSize |-> 0, command |-> 0, response |-> 0]
  /\ tpm2Installed = <<>>
  /\ entryStatus = "NONE"

(* InitializeTcgAcpiFfa: anything but a dTPM 2.0 instance is refused. *)
EntryCheck ==
  /\ stage = "entry"
  /\ \E g \in TpmInstances :
       IF g = "DTPM20"
         THEN stage' = "load" /\ UNCHANGED entryStatus
         ELSE stage' = "done" /\ entryStatus' = "UNSUPPORTED"
  /\ UNCHANGED <<vars, image, outside, measured, ppStatus, hidStatus, pastEnd,
                 ssdtInstalled, tpm2, crb, tpm2Installed>>

(* TpmMeasureAndLogData (data), unless PcdSkipTcgSmmAcpiMeasurements.    *)
(* Mutant: the PCD test inverted.                                         *)
MeasureEventInverted(tag, data) ==
  IF SkipMeasurements THEN Append(measured, <<tag, data>>) ELSE measured

MeasureEvent(tag, data) ==
  IF SkipMeasurements THEN measured ELSE Append(measured, <<tag, data>>)

(* PublishAcpiTable: GetSectionFromFv, then the measurement of the        *)
(* unpatched image unless the platform skips it.                          *)
LoadAndMeasure ==
  /\ stage = "load"
  /\ buf' = image
  /\ measured' = MeasureEvent("SSDT", image)
  /\ stage' = "ppver"
  /\ UNCHANGED <<table0, irq, pc, ptr, newLen, origLen, endPtr, isShort, status,
                 image, outside, ppStatus, hidStatus, pastEnd, ssdtInstalled,
                 tpm2, crb, tpm2Installed, entryStatus>>

(* UpdatePPVersion: the first "$PV" gets AsciiStrCpyS (DataPtr, 4, PPVer),*)
(* which copies the version and its NUL, or writes nothing and returns    *)
(* EFI_BUFFER_TOO_SMALL when it has 4 characters or more.  The caller     *)
(* only ASSERTs the status and goes on.                                   *)
UpdatePPVersion ==
  LET hits == TagHits(buf, PHYSICAL_PRESENCE_VERSION_TAG, PHYSICAL_PRESENCE_VERSION_SIZE)
  IN
  /\ stage = "ppver"
  /\ \E ver \in PPVersions :
       \/ /\ hits # {}
          /\ Len(ver) < PHYSICAL_PRESENCE_VERSION_SIZE
          /\ buf' = CopyAt(buf, FirstOf(hits), ver \o <<0>>)
          /\ ppStatus' = "SUCCESS"
       \/ /\ hits # {}
          /\ Len(ver) >= PHYSICAL_PRESENCE_VERSION_SIZE
          /\ ppStatus' = "BUFFER_TOO_SMALL"
          /\ UNCHANGED buf
       \/ /\ hits = {}
          /\ ppStatus' = "NOT_FOUND"
          /\ UNCHANGED buf
  /\ pastEnd' = (pastEnd \/ ScanReadsPastEnd(buf, PHYSICAL_PRESENCE_VERSION_TAG,
                                             PHYSICAL_PRESENCE_VERSION_SIZE))
  /\ stage' = "hid"
  /\ UNCHANGED <<table0, irq, pc, ptr, newLen, origLen, endPtr, isShort, status,
                 image, outside, measured, hidStatus, ssdtInstalled, tpm2, crb,
                 tpm2Installed, entryStatus>>

(* UpdateHID: Tpm2GetCapabilityManufactureID or                          *)
(* Tpm2GetCapabilityFirmwareVersion fails; UpdateHID returns that status *)
(* and PublishAcpiTable returns it without installing the SSDT.          *)
UpdateHIDFailed ==
  /\ stage = "hid"
  /\ \E r \in CapabilityResults \ {"SUCCESS"} : hidStatus' = r
  /\ stage' = "tpm2"
  /\ UNCHANGED <<vars, image, outside, measured, ppStatus, pastEnd,
                 ssdtInstalled, tpm2, crb, tpm2Installed, entryStatus>>

(* UpdateHID with both capabilities read: the first "NNNN0000" (scanned  *)
(* while DataPtr <= Length - 8) gets the 9 bytes of HidPatch; no tag is  *)
(* EFI_NOT_FOUND, and PublishAcpiTable returns without installing.       *)
UpdateHID ==
  LET hits == TagHits(buf, TPM_HID_TAG, TPM_HID_PNP_SIZE) IN
  /\ stage = "hid"
  /\ "SUCCESS" \in CapabilityResults
  /\ \E mfr \in ManufacturerIds, fw \in FirmwareVersions :
       \/ /\ hits # {}
          /\ buf' = CopyAt(buf, FirstOf(hits), HidPatch(mfr, fw))
          /\ pastEnd' = (pastEnd \/ ScanReadsPastEnd(buf, TPM_HID_TAG, TPM_HID_PNP_SIZE)
                          \/ WritesPastEnd(buf, FirstOf(hits), HidPatch(mfr, fw)))
          /\ hidStatus' = "SUCCESS"
          /\ stage' = "irq"
       \/ /\ hits = {}
          /\ pastEnd' = (pastEnd \/ ScanReadsPastEnd(buf, TPM_HID_TAG, TPM_HID_PNP_SIZE))
          /\ hidStatus' = "NOT_FOUND"
          /\ stage' = "tpm2"
          /\ UNCHANGED buf
  /\ UNCHANGED <<table0, irq, pc, ptr, newLen, origLen, endPtr, isShort, status,
                 image, outside, measured, ppStatus, ssdtInstalled, tpm2, crb,
                 tpm2Installed, entryStatus>>

(* With PcdTpm2CurrentIrqNum # 0 and an IRQ buffer of at most 60 bytes in *)
(* whole UINT32s, call UpdatePossibleResource: its locals start as in     *)
(* PossibleResource's Init, on the table as the tag patchers left it.     *)
(* Otherwise go straight to the installation.                            *)
PatchIrq ==
  /\ stage = "irq"
  /\ \E cur \in CurrentIrqNums, q \in PcdIrqBuffers :
       IF cur # 0 /\ Len(q) <= MAX_PRS_INT_BUF_SIZE /\ Len(q) % 4 = 0
         THEN /\ table0' = buf /\ irq' = q
              /\ pc' = "ress" /\ ptr' = HeaderSize
              /\ newLen' = 0 /\ origLen' = 0 /\ endPtr' = 0
              /\ isShort' = FALSE /\ status' = "NONE"
              /\ stage' = "prs"
         ELSE /\ stage' = "install"
              /\ UNCHANGED <<table0, irq, pc, ptr, newLen, origLen, endPtr, isShort, status>>
  /\ UNCHANGED <<buf, image, outside, measured, ppStatus, hidStatus, pastEnd,
                 ssdtInstalled, tpm2, crb, tpm2Installed, entryStatus>>

(* One step of UpdatePossibleResource. *)
PrsStep ==
  /\ stage = "prs"
  /\ Next
  /\ UNCHANGED dstate

(* InstallAcpiTable on the table, whatever UpdatePossibleResource        *)
(* returned (its status is only logged).                                 *)
InstallSsdt ==
  /\ \/ stage = "install"
     \/ stage = "prs" /\ pc = "done"
  /\ ssdtInstalled' = Append(ssdtInstalled, buf)
  /\ stage' = "tpm2"
  /\ UNCHANGED <<vars, image, outside, measured, ppStatus, hidStatus, pastEnd,
                 tpm2, crb, tpm2Installed, entryStatus>>

(* Mutant: the rollback test forgets Lasa. *)
RolledBackNoLasa(c) == c.rev < EFI_TPM2_ACPI_TABLE_REVISION_4 \/ c.laml = 0

(* Revision below 4, or Laml/Lasa not valid: Length goes back to        *)
(* sizeof (EFI_TPM2_ACPI_TABLE).                                         *)
RolledBack(c) == c.rev < EFI_TPM2_ACPI_TABLE_REVISION_4 \/ c.laml = 0 \/ c.lasa = 0

(* The fields PublishTpm2 sets on the template tpl from configuration c: *)
(* Revision, PlatformClass (revision 4 and up), Laml, Lasa, and the      *)
(* Length rollback.                                                      *)
Tpm2Fields(c, tpl) ==
  [tpl EXCEPT
     !.revision = c.rev,
     !.flags = IF c.rev >= EFI_TPM2_ACPI_TABLE_REVISION_4
                 THEN (@ - (@ % 65536)) + c.class ELSE @,
     !.laml = c.laml,
     !.lasa = c.lasa,
     !.length = IF RolledBack(c) THEN SIZEOF_EFI_TPM2_ACPI_TABLE ELSE @]

(* The CRB interface: StartMethod CRB over FF-A, the control area at     *)
(* base + 0x40 and the start-method parameters.                          *)
FfaStartMethod(t, c) ==
  [t EXCEPT !.startMethod = START_METHOD_CRB_WITH_FFA,
            !.controlArea = c.base + 64,
            !.psp = <<0, 0, 128, 2>>]

(* PublishTpm2: measure the template as it stands, then set its fields.  *)
(* Only a CRB interface gets the FF-A start method, the CRB control area *)
(* and an installed table; others return EFI_UNSUPPORTED.                *)
PublishTpm2 ==
  /\ stage = "tpm2"
  /\ measured' = MeasureEvent("TPM2", tpm2)
  /\ \E c \in Tpm2Configs :
       IF c.iface = "Crb"
         THEN /\ tpm2' = FfaStartMethod(Tpm2Fields(c, tpm2), c)
              /\ crb' = [commandSize |-> 3968, responseSize |-> 3968,
                         command |-> c.base + 128, response |-> c.base + 128]
              /\ tpm2Installed' = Append(tpm2Installed, tpm2')
         ELSE /\ tpm2' = Tpm2Fields(c, tpm2)
              /\ UNCHANGED <<crb, tpm2Installed>>
  /\ stage' = "ret"
  /\ UNCHANGED <<vars, image, outside, ppStatus, hidStatus, pastEnd,
                 ssdtInstalled, entryStatus>>

(* InitializeTcgAcpiFfa only ASSERTs both statuses and returns success. *)
EntryReturn ==
  /\ stage = "ret"
  /\ stage' = "done"
  /\ entryStatus' = "SUCCESS"
  /\ UNCHANGED <<vars, image, outside, measured, ppStatus, hidStatus, pastEnd,
                 ssdtInstalled, tpm2, crb, tpm2Installed>>

DNext ==
  \/ EntryCheck \/ LoadAndMeasure \/ UpdatePPVersion
  \/ UpdateHIDFailed \/ UpdateHID \/ PatchIrq \/ PrsStep
  \/ InstallSsdt \/ PublishTpm2 \/ EntryReturn

(* The entry point is one sequential call that runs every step it can.  *)
DSpec == DInit /\ [][DNext]_dvars /\ WF_dvars(DNext)

-----------------------------------------------------------------------------
(***************************************************************************)
(* Type invariant.                                                         *)
(***************************************************************************)
Stages == {"entry", "load", "ppver", "hid", "irq", "prs", "install", "tpm2", "ret", "done"}

DTypeOK ==
  /\ stage \in Stages
  /\ image \in Tables
  /\ outside \in Byte
  /\ buf \in Seq(Byte)
  /\ buf # <<>> => Len(buf) = Len(image)
  /\ \A i \in 1..Len(measured) : measured[i][1] \in {"SSDT", "TPM2"}
  /\ ppStatus \in {"NONE", "SUCCESS", "BUFFER_TOO_SMALL", "NOT_FOUND"}
  /\ hidStatus \in {"NONE", "SUCCESS", "NOT_FOUND"} \cup CapabilityResults
  /\ pastEnd \in BOOLEAN
  /\ ssdtInstalled \in Seq(Seq(Byte))
  /\ Len(tpm2Installed) <= 1
  /\ entryStatus \in {"NONE", "SUCCESS", "UNSUPPORTED"}

(***************************************************************************)
(* What the properties compare with: the fields each patcher owns in the  *)
(* loaded image, found by the same tag match the code uses.               *)
(***************************************************************************)
TagField(b, tag, w, width) ==
  IF TagHits(b, tag, w) = {} THEN {}
  ELSE FirstOf(TagHits(b, tag, w)) .. (FirstOf(TagHits(b, tag, w)) + width - 1)

(* The Buffer bytes, PkgLength to the end, of every RESS and RESL. *)
TemplateSpan(b) ==
  LET named(x, name) == \A i \in 0..(TPM_PRS_RES_NAME_SIZE - 1) : b[x + i + 1] = name[i + 1]
      anchors == { x \in HeaderSize..(Len(b) - (TPM_PRS_RES_NAME_SIZE + TPM_POS_RES_TEMPLATE_MIN_SIZE)) :
                     named(x, TPM_PRS_RESS) \/ named(x, TPM_PRS_RESL) }
  IN UNION { (x + 5) .. (x + 4 + PkgValue(b, x + 5)) : x \in anchors }

PatchFields(b) ==
  TagField(b, PHYSICAL_PRESENCE_VERSION_TAG, PHYSICAL_PRESENCE_VERSION_SIZE,
           PHYSICAL_PRESENCE_VERSION_SIZE)
  \cup TagField(b, TPM_HID_TAG, TPM_HID_PNP_SIZE, TPM_HID_ACPI_SIZE)
  \cup TemplateSpan(b)

(* Spec 4.4: a string of k < width characters, its NUL, then NOOPs. *)
PaddedString(b, o, width) ==
  \E k \in 0..(width - 1) :
     /\ \A i \in 0..(k - 1) : Mem(b, o + i) # 0
     /\ Mem(b, o + k) = 0
     /\ \A i \in (k + 1)..(width - 1) : Mem(b, o + i) = AML_NOOP_OP

(***************************************************************************)
(* Properties.                                                             *)
(***************************************************************************)

(* Every SSDT PublishAcpiTable installs differs from the image it loaded *)
(* and measured only inside the $PV field, the 9-byte _HID field and the *)
(* RESS/RESL Buffers: the three patchers, run one after the other on one *)
(* buffer, never write into each other's or anyone else's bytes.         *)
InstalledDiffersOnlyInPatchFields ==
  \A i \in 1..Len(ssdtInstalled) :
     \A q \in 0..(Len(image) - 1) :
        ssdtInstalled[i][q + 1] # image[q + 1] => q \in PatchFields(image)

(* After UpdateHID succeeds, the 9 bytes of the "NNNN0000" string hold   *)
(* the 7-character PNP or 8-character ACPI _HID, its NUL, and NOOP for    *)
(* the rest (spec 4.4): the PNP path has to overwrite the old NUL.       *)
HidFieldPadded ==
  hidStatus = "SUCCESS" =>
    PaddedString(buf, FirstOf(TagHits(image, TPM_HID_TAG, TPM_HID_PNP_SIZE)),
                 TPM_HID_ACPI_SIZE)

(* The event e is in the TCG log l. *)
Logged(e, l) == \E i \in 1..Len(l) : l[i] = e

(* A step writes into the loaded SSDT only once its unpatched image is  *)
(* logged, and changes mTpm2AcpiTemplate only while logging it as       *)
(* declared.                                                            *)
MeasuredStep ==
  /\ (buf # <<>> /\ buf' # buf) =>
        SkipMeasurements \/ Logged(<<"SSDT", image>>, measured)
  /\ tpm2' # tpm2 =>
        SkipMeasurements \/ Logged(<<"TPM2", Tpm2Template>>, measured')

(* Line 527: the measurement has to be done before any update.  Every   *)
(* step that writes into the loaded SSDT (the three patchers) comes      *)
(* after the log holds the SSDT exactly as GetSectionFromFv returned it, *)
(* and the step that fills in mTpm2AcpiTemplate logs the template as     *)
(* declared, so the PCR does not depend on the PCDs or the TPM firmware. *)
MeasuredBeforeUpdate == [][MeasuredStep]_dvars

(* The entry point returns: every scan of UpdatePossibleResource ends,  *)
(* its long-form fallback runs at most once, and every error path of the *)
(* two publishers leads on to the return.                                *)
DriverTerminates == <>(stage = "done")

(* Spec 4.4: in an installed SSDT the "$PV" tag has been replaced by the *)
(* version string, padded with NOOP to the 4-byte field; a missing tag   *)
(* is fatal to the patch pass.  UpdatePPVersion copies with              *)
(* AsciiStrCpyS and PublishAcpiTable only ASSERTs its status.            *)
PPVersionPatchedPerSpec ==
  \A i \in 1..Len(ssdtInstalled) :
     LET hits == TagHits(image, PHYSICAL_PRESENCE_VERSION_TAG, PHYSICAL_PRESENCE_VERSION_SIZE)
     IN /\ hits # {}
        /\ ~StrMatch(ssdtInstalled[i], FirstOf(hits), PHYSICAL_PRESENCE_VERSION_TAG)
        /\ PaddedString(ssdtInstalled[i], FirstOf(hits), PHYSICAL_PRESENCE_VERSION_SIZE)

(* Spec 4.1: the tag scans never read, and the patches never write, at   *)
(* or past Table + Length.  UpdateHID scans to Length - 8 for a tag that  *)
(* needs 9 bytes to match and 9 bytes to patch.                          *)
TagPatchersStayInTable == ~pastEnd

(* Spec 5: a buffer whose _PRS patch failed is not published, unless the *)
(* failure left it as it was (spec 7 lets the caller skip the optional    *)
(* patch).  PublishAcpiTable installs whatever UpdatePossibleResource     *)
(* left behind.                                                          *)
PublishedPrsConsistent ==
  \A i \in 1..Len(ssdtInstalled) :
     status \in {"NONE", "SUCCESS"} \/ ssdtInstalled[i] = table0

(* The Length of every installed TPM2 table covers Laml and Lasa (all 76 *)
(* bytes of EFI_TPM2_ACPI_TABLE_V4) exactly when the revision is 4 or     *)
(* more and both are set, and is sizeof (EFI_TPM2_ACPI_TABLE) otherwise:   *)
(* the OS never reads a Laml/Lasa that PublishTpm2 declared invalid, nor  *)
(* misses a valid one.                                                    *)
Tpm2LengthMatchesLogArea ==
  \A i \in 1..Len(tpm2Installed) :
     tpm2Installed[i].length =
       IF /\ tpm2Installed[i].revision >= EFI_TPM2_ACPI_TABLE_REVISION_4
          /\ tpm2Installed[i].laml # 0
          /\ tpm2Installed[i].lasa # 0
         THEN 76 ELSE SIZEOF_EFI_TPM2_ACPI_TABLE

(* An installed TPM2 table with the CRB-over-FF-A start method carries   *)
(* the start-method parameters PublishTpm2 writes (lines 664-667, the FF-A *)
(* partition ID): its Length reaches past them.  The rollback to          *)
(* sizeof (EFI_TPM2_ACPI_TABLE) cuts them off.                            *)
Tpm2FfaParametersPublished ==
  \A i \in 1..Len(tpm2Installed) :
     tpm2Installed[i].startMethod = START_METHOD_CRB_WITH_FFA =>
       tpm2Installed[i].length >= SIZEOF_EFI_TPM2_ACPI_TABLE + 4
=============================================================================
