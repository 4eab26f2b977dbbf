------------------------- MODULE MC_PossibleResource -------------------------
(***************************************************************************)
(* Model-checking instance of PossibleResource.  The SSDT images are built *)
(* the way the ASL compiler lays out                                       *)
(*   Name (RESx, ResourceTemplate () { Memory32Fixed (...)                 *)
(*                                     Interrupt (...) {i1, ..., ik} })    *)
(* NameOp, NameSeg, BufferOp, PkgLength, BufferSize, the 12-byte           *)
(* Memory32Fixed descriptor, the Interrupt descriptor and the End Tag,     *)
(* with the real 36-byte table header in front.                            *)
(***************************************************************************)
EXTENDS PossibleResourceRefinement

(* Little-endian bytes of v < 2^24, w of them. *)
MCLe(v, w) == [i \in 1..w |-> IF i <= 3 THEN (v \div (256 ^ (i - 1))) % 256 ELSE 0]

MCZeros(k) == [i \in 1..k |-> 0]

AML_NAME_OP == 8
AML_BUFFER_OP == 17
AML_QWORD_PREFIX == 14

MCWidth(pfx) ==
  CASE pfx = AML_BYTE_PREFIX -> 1 [] pfx = AML_WORD_PREFIX -> 2
    [] pfx = AML_DWORD_PREFIX -> 4 [] pfx = AML_QWORD_PREFIX -> 8

(* Memory32Fixed (ReadWrite, 0xFED40000, 0x5000) *)
MCMemory32Fixed == <<134, 9, 0, 1>> \o <<0, 0, 212, 254>> \o MCLe(20480, 4)

(* Interrupt (ResourceConsumer, Level, ActiveLow, Shared) {1, ..., k} *)
MCInterrupt(k) ==
  <<137, (2 + 4 * k) % 256, (2 + 4 * k) \div 256, 13, k>>
    \o [i \in 1..(4 * k) |-> IF (i - 1) % 4 = 0 THEN (i - 1) \div 4 + 1 ELSE 0]

MCBufferBody(pfx, k) ==
  LET size == 12 + 5 + 4 * k + 2 IN
  <<pfx>> \o MCLe(size, MCWidth(pfx)) \o MCMemory32Fixed \o MCInterrupt(k)
    \o <<ACPI_END_TAG_DESCRIPTOR, 0>>

(* PkgLength with cnt ByteData for a package of total bytes. *)
MCPkgLength(cnt, total) ==
  IF cnt = 0 THEN <<total>>
             ELSE <<cnt * 64 + (total % 16)>> \o MCLe(total \div 16, cnt)

(* Name (name, ResourceTemplate) with a cnt-ByteData PkgLength. *)
MCResource(name, cnt, pfx, k) ==
  LET body == MCBufferBody(pfx, k) IN
  <<AML_NAME_OP>> \o name \o <<AML_BUFFER_OP>>
    \o MCPkgLength(cnt, 1 + cnt + Len(body)) \o body

RESS(cnt, pfx, k) == MCResource(TPM_PRS_RESS, cnt, pfx, k)
RESL(cnt, pfx, k) == MCResource(TPM_PRS_RESL, cnt, pfx, k)

MCHeaderSize == 36

MCTable(objs) == MCZeros(MCHeaderSize) \o objs

MCTables ==
  { \* the shape of Tpm.asl: 10 possible IRQs short form, 15 long form
    MCTable(RESS(0, AML_BYTE_PREFIX, 10) \o RESL(1, AML_BYTE_PREFIX, 15) \o MCZeros(3)),
    \* Word BufferSize: RESS PkgLength exactly 63; two-ByteData RESL with a Dword
    MCTable(RESS(0, AML_WORD_PREFIX, 10) \o RESL(2, AML_DWORD_PREFIX, 15) \o MCZeros(2)),
    \* small templates: neither can take the longer lists
    MCTable(RESS(0, AML_BYTE_PREFIX, 2) \o RESL(1, AML_WORD_PREFIX, 11) \o MCZeros(4)),
    \* RESL first, a one-IRQ RESS as the last object of the table
    MCTable(RESL(1, AML_BYTE_PREFIX, 15) \o RESS(0, AML_BYTE_PREFIX, 1)),
    \* no RESL at all
    MCTable(RESS(0, AML_BYTE_PREFIX, 10) \o MCZeros(4)),
    \* RESS too large for short form; RESL is short form
    MCTable(RESS(1, AML_BYTE_PREFIX, 12) \o MCZeros(4)),
    MCTable(RESS(0, AML_BYTE_PREFIX, 10) \o RESL(0, AML_BYTE_PREFIX, 3) \o MCZeros(4)),
    \* Qword BufferSize prefixes
    MCTable(RESS(0, AML_QWORD_PREFIX, 1) \o MCZeros(4)),
    MCTable(RESS(0, AML_BYTE_PREFIX, 10) \o RESL(1, AML_QWORD_PREFIX, 15) \o MCZeros(4)),
    \* no template
    MCTable(MCZeros(40)) }

(* The one-IRQ RESS at the very end of the table, and one byte before it. *)
MCTailTables ==
  { MCTable(RESL(1, AML_BYTE_PREFIX, 15) \o RESS(0, AML_BYTE_PREFIX, 1)),
    MCTable(RESL(1, AML_BYTE_PREFIX, 15) \o RESS(0, AML_BYTE_PREFIX, 1) \o MCZeros(1)) }

(* IrqBuffer of k UINT32 interrupt numbers 1..k, little-endian. *)
MCIrq(k) == [i \in 1..(4 * k) |-> IF (i - 1) % 4 = 0 THEN 2 * ((i - 1) \div 4) + 5 ELSE 0]

MCIrqBuffers == { MCIrq(k) : k \in 0..15 }
=============================================================================
