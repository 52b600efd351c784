------------------------- MODULE CpuImplementation -------------------------
(***************************************************************************)
(* The cycle-by-cycle CPU implements the instruction set.                  *)
(*                                                                         *)
(* Between two instructions the registers and the memory of the two are    *)
(* the same.  During an instruction those of the instruction set are still *)
(* what they were when it began: the history variable boundary keeps them. *)
(***************************************************************************)
EXTENDS Cpu6502

CONSTANT Rom(_)    \* the byte at an address outside Ram

\* The host's memory is ordinary memory: a byte reads the same every time.
ASSUME RomAssumption ==
  \A a \in Word : Rom(a) \in Byte /\ ReadData(a) = {Rom(a)}

VARIABLE boundary

Boundary == [cpu |-> cpu, mem |-> mem]

BoundaryKept ==
  boundary' = IF op'.def = NULL THEN Boundary' ELSE boundary

Running == op.def # NULL

\* The instruction that began at the boundary has just ended in this step.
Finishes == op.def \in Opcode /\ op'.def = NULL

InstructionSet == INSTANCE InstructionSet
  WITH regs      <- boundary.cpu,
       memory    <- boundary.mem,
       stopped   <- jammed

-----------------------------------------------------------------------------

\* Any host that lets an instruction end before it moves PC: cpu6502_set_pc in
\* the middle of one leads it astray.
ImplementationNext ==
  /\ \/ cpu6502_tick \/ cpu6502_reset \/ cpu6502_nmi
     \/ ~Running /\ cpu6502_set_pc
  /\ BoundaryKept

ImplementationSpec ==
  /\ cpu6502_init /\ boundary = Boundary
  /\ [][ImplementationNext]_<<vars, boundary>>

-----------------------------------------------------------------------------

\* Whatever happens in the ticks of an instruction, of an NMI or of a reset,
\* it amounts to the one step of the instruction set, or to nothing yet: every
\* micro-program of micro_ops.c computes the address, the operand, the result,
\* the stack contents and the next PC of its opcode.
ImplementsInstructionSet == InstructionSet!Spec

\* The cycles of the 6502, but for one exception: TAS whose index does not
\* carry reads and writes in one tick (tas_indexed_read_maybe_finish) and takes
\* four, where the 6502 takes five.
CyclesOf(opcode) ==
  IF InstructionSet!Operation(opcode) = "tas" /\ ~InstructionSet!Crosses("absY")
  THEN 4 ELSE InstructionSet!Cycles(opcode)

\* Every opcode but TAS takes the number of cycles the 6502 takes for it: one
\* more for an indexed read that crosses a page, one or two more for a branch
\* that is taken.  TAS does too if its index carries, and takes one cycle less
\* than the 6502 if not: TasTakesFiveCycles, in MCClaims, is what it should
\* do.  op.cycle counts the ticks before this one but not the fetch.
CyclesButForTas ==
  [][Finishes => op.cycle + 2 = CyclesOf(op.def)]_<<vars, boundary>>

\* The address of the operand is kept twice, in op.addr and in op.addr_lo and
\* op.addr_hi, and some micro-operations use the one, some the other.
\* Whichever they use, no instruction writes anywhere but at the effective
\* address of its operand, the dummy write of a read-modify-write included,
\* and the access that ends it is there.
AccessesAtEffectiveAddress ==
  [][ LET mode == InstructionSet!Mode(op.def)
      IN  op.def \in Opcode /\ mode \in InstructionSet!MemoryModes =>
            \A i \in DOMAIN bus' :
              bus'[i].access = "write" \/ Finishes =>
                bus'[i].addr = InstructionSet!Effective(mode) ]_<<vars, boundary>>

=============================================================================
