------------------------------ MODULE MCClaims ------------------------------
(***************************************************************************)
(* What README.md and the comments of the sources promise of the bus, and  *)
(* the code does not do.  Each property is checked by a run of its own     *)
(* over the instructions of MCInstructions, and TLC finds it violated.     *)
(***************************************************************************)
EXTENDS MCInstructions

\* The micro-operations xxx_dummy_write_and_compute write the value they have
\* read back before they compute ("old value", micro_ops.c:865 and 953), as
\* the 6502 does in every read-modify-write.  Those of LSR and ROL do not.
DummyWritesOldValue ==
  [][ NextFunction = "dummy_write_and_compute" /\ op'.def = op.def =>
        bus' = <<Wr(op.addr, op.data)>> ]_vars

\* "Cycle-accurate ticking" (README.md:14): the 6502 takes an NMI in seven
\* cycles, like BRK.  nmi_sequence has six micro-operations and no fetch.
NmiTakesSevenCycles ==
  [][ op.def = nmi_sequence /\ op'.def = NULL => op.cycle + 1 = 7 ]_vars

\* "Cycle-accurate ticking" (README.md:14): the 6502 takes five cycles for
\* TAS abs,Y, as for every indexed store.  Without a carry
\* tas_indexed_read_maybe_finish makes the dummy read and the write in one
\* tick, and the instruction ends with its fourth.
TasTakesFiveCycles ==
  [][ Finishes /\ InstructionSet!Operation(op.def) = "tas" =>
        op.cycle + 2 = 5 ]_vars

\* "Original hardware behavior" (README.md:25): when an index carries, the
\* 6502 first reads in the page of the base, one page too low, because the
\* carry comes a cycle later.  read_pc_addr_high_add_y does so.
\* read_pc_addr_high_add_x and read_ptr_addr_high_add_y add the index to the
\* low byte of the sum, and read in the page of the sum.
FirstReadInBasePage ==
  [][ NextFunction = "indexed_read_maybe_finish" /\ op.page_crossed
      /\ op'.def = op.def =>
        bus'[1].addr = U16(op.addr - 256) ]_vars

=============================================================================
