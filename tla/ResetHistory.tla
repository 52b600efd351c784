---------------------------- MODULE ResetHistory ----------------------------
(***************************************************************************)
(* What a reset does from its first tick to its last, told by two history  *)
(* variables: a reset takes seven ticks, in any of which the host may      *)
(* request another one, or an NMI, or move PC.                             *)
(***************************************************************************)
EXTENDS CpuSequencing

VARIABLES
  reset_sp,     \* SP when the last reset sequence started
  reset_lo      \* the byte last read from the low half of the reset vector

resetvars == <<sequencedvars, reset_sp, reset_lo>>

\* A reset may also start over.
Resets == op'.def = reset_sequence /\ op'.cycle = 1

ReadsVectorLow == Len(bus') = 1 /\ bus'[1].addr = VECTOR_RESET

ResetTick ==
  /\ SequencedTick
  /\ reset_sp' = IF Resets THEN cpu.SP ELSE reset_sp
  /\ reset_lo' = IF ReadsVectorLow THEN bus'[1].value ELSE reset_lo

ResetCall == SequencedCall /\ UNCHANGED <<reset_sp, reset_lo>>

ResetInit == SequencedInit /\ reset_sp = 0 /\ reset_lo = 0

ResetSpec == ResetInit /\ [][ResetTick \/ ResetCall]_resetvars

-----------------------------------------------------------------------------

\* A reset sequence that gets to its end, whatever the CPU was doing when it
\* was requested and whatever else is requested meanwhile, has lowered SP by
\* three from where it found it (test-reset.c:34 has 0xFD after 0), taken PC
\* from the two bytes it read from the reset vector and disabled interrupts.
ResetCompletes ==
  [][ op.def = reset_sequence /\ op'.def = NULL =>
        /\ cpu'.SP = U8(reset_sp - 3)
        /\ bus'[1].addr = VECTOR_RESET + 1
        /\ cpu'.PC = Address(reset_lo, bus'[1].value)
        /\ FLAG_INTERRUPT_DISABLE \in cpu'.status ]_resetvars

=============================================================================
