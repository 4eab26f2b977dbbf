------------------------- MODULE MC_TcgAcpiDriver -------------------------
(***************************************************************************)
(* Model-checking instance of TcgAcpiDriver.  The SSDT images carry the   *)
(* two string tags as the ASL compiler emits them,                        *)
(*   Name (_HID, "NNNN0000")  and  Name (PPIV, "$PV"),                    *)
(* NameOp, NameSeg, StringPrefix, the characters and the NUL, next to the *)
(* RESS/RESL templates of MC_PossibleResource.                            *)
(***************************************************************************)
EXTENDS TcgAcpiDriver, MC_PossibleResource

AML_STRING_PREFIX == 13

MCString(name, chars) == <<AML_NAME_OP>> \o name \o <<AML_STRING_PREFIX>> \o chars \o <<0>>

MCHid == MCString(<<95, 72, 73, 68>>, TPM_HID_TAG)                     \* _HID
MCPpVer == MCString(<<80, 80, 73, 86>>, PHYSICAL_PRESENCE_VERSION_TAG)  \* PPIV

MCDriverTables ==
  { \* the shape of Tpm.asl
    MCTable(MCHid \o MCPpVer \o RESS(0, AML_BYTE_PREFIX, 10)
              \o RESL(1, AML_BYTE_PREFIX, 15) \o MCZeros(3)),
    \* small templates, tags in the other order
    MCTable(MCPpVer \o MCHid \o RESS(0, AML_BYTE_PREFIX, 2)
              \o RESL(1, AML_WORD_PREFIX, 11) \o MCZeros(4)),
    \* a one-IRQ RESS as the last object: the half-patched EFI_NOT_FOUND
    MCTable(MCHid \o MCPpVer \o RESL(1, AML_BYTE_PREFIX, 15)
              \o RESS(0, AML_BYTE_PREFIX, 1)),
    \* no string tags at all
    MCTable(RESS(0, AML_BYTE_PREFIX, 10) \o MCZeros(4)) }

(* "1.3" (the PCD's default), a shorter "2" and a longer "1.30". *)
MCPPVersions == { <<49, 46, 51>>, <<50>>, <<49, 46, 51, 48>> }
MCPPVersionDefault == { <<49, 46, 51>> }

(* "IFX\0" (PNP, tail 0x00), "STM " (PNP, tail 0x20), "MSFT" (ACPI). *)
MCManufacturerIds == { <<73, 70, 88, 0>>, <<83, 84, 77, 32>>, <<77, 83, 70, 84>> }

(* 7.85, and 117.3, whose "%02d%02d" is five digits and gets cut to four. *)
MCFirmwareVersions == { <<7, 85>>, <<117, 3>> }

MCCapabilityResults == { "SUCCESS", "DEVICE_ERROR" }

(* 0, 1, 10 and 15 interrupts; 16 (over 60 bytes) and 5 bytes are refused. *)
MCPcdIrqBuffers == { MCIrq(0), MCIrq(1), MCIrq(10), MCIrq(15), MCIrq(16), <<1, 0, 0, 0, 0>> }
MCDriverIrqBuffers == { MCIrq(0), MCIrq(1), MCIrq(10), MCIrq(15) }

MCTpm2Config(rev, laml, lasa, iface) ==
  [rev |-> rev, laml |-> laml, lasa |-> lasa, iface |-> iface, class |-> 1,
   base |-> 1073807360]

(* Revision 4 with a log area, revision 3, no Laml, no Lasa, a TIS     *)
(* interface.                                                         *)
MCTpm2Configs ==
  { MCTpm2Config(4, 65536, 1048576, "Crb"), MCTpm2Config(3, 65536, 1048576, "Crb"),
    MCTpm2Config(4, 0, 1048576, "Crb"), MCTpm2Config(4, 65536, 0, "Crb"),
    MCTpm2Config(4, 65536, 1048576, "Tis") }

(* A table whose last 8 bytes are "NNNN0000" with no NUL inside it. *)
MCHidAtEndTables ==
  { MCTable(MCPpVer \o RESS(0, AML_BYTE_PREFIX, 10) \o MCZeros(4) \o TPM_HID_TAG) }
=============================================================================
