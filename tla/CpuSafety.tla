----------------------------- MODULE CpuSafety -----------------------------
(***************************************************************************)
(* Safety properties of the CPU under any host: any data on the bus, and   *)
(* resets, NMIs and set_pc at any time.                                    *)
(***************************************************************************)
EXTENDS Cpu6502

\* The types of the fields of CPU6502 and OpState.
TypeOK ==
  /\ cpu \in RegisterFile
  /\ op \in OpState
  /\ jammed \in BOOLEAN
  /\ reset_requested \in BOOLEAN
  /\ nmi_requested \in BOOLEAN
  /\ mem \in [Ram -> Byte]
  /\ asked \in SUBSET Requests

\* cpu6502_tick never calls a NULL or out-of-range slot of micro_ops
\* (6502.c:76): every micro-program ends with a micro-operation that finishes
\* it or jams, however its conditional exits go and wherever a reset strikes.
NoNullDispatch ==
  ~jammed /\ op.def # NULL => op.cycle < Len(micro_ops(op.def))

\* The fetch in cpu6502_tick sets op.def only, and a micro-program relies on
\* zero in the rest of op (op.cycle and op.page_crossed above all).  At every
\* boundary nothing is left of the instruction, interrupt or reset before it;
\* but old_pc, which branch_op sets after finish_op.
CleanBoundary ==
  op.def = NULL => op = [ZeroOp EXCEPT !.old_pc = op.old_pc]

InProgress == op.def # NULL /\ op.cycle < Len(micro_ops(op.def))

NextOp       == micro_ops(op.def)[op.cycle + 1]
NextFunction == IF InProgress THEN NextOp.kind ELSE "none"

\* An address under construction is kept twice, as op.addr and as op.addr_lo
\* and op.addr_hi, and not every addressing step sets both.  A micro-operation
\* that uses op.addr finds in it the address that the others of its
\* instruction compute with full_addr.
AddressesAgree == InProgress /\ UsesAddr(NextOp) => op.addr = full_addr(op)

\* The status in the middle of an RTI is the byte from the stack as it is.
StatusInTransit == InProgress /\ micro_ops(op.def) = RTI /\ op.cycle >= 3

\* Bits 4 and 5 are not flags of the 6502 and cannot be set or cleared by a
\* program: cpu6502_get_state shows bit 5 as 1, as cpu6502_init made it
\* (6502.c:20), and bit 4 as 0, although pull_p puts an arbitrary byte into
\* the status, which pull_pc_high_finish puts right two ticks later.
PhantomFlagsFixed ==
  ~StatusInTransit => FLAG_UNUSED \in cpu.status /\ FLAG_BREAK \notin cpu.status

\* A request that reaches the library is latched, but for a reset that the
\* callback of the last read of a reset makes (micro_ops.c:1486-1492): that
\* one is taken for the reset that ends there.
RequestsAreLatched ==
  [][ /\ "nmi" \in asked' => nmi_requested'
      /\ "reset" \in asked' =>
           reset_requested' \/ (op.def = reset_sequence /\ op'.def = NULL) ]_vars

\* A latched NMI leaves the latch only for its own sequence, which starts
\* between two instructions and never instead of a reset.
NmiNotLost ==
  [][ nmi_requested /\ ~nmi_requested' =>
        op.def = NULL /\ ~reset_requested /\ op'.def = nmi_sequence ]_vars

=============================================================================
