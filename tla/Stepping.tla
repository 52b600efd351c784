------------------------------ MODULE Stepping ------------------------------
(***************************************************************************)
(* cpu6502_step: a call that ticks until the instruction, the NMI or the   *)
(* reset in progress has ended or the CPU has jammed, and returns how many *)
(* ticks that took.  The host may mix it with single ticks, so that a call *)
(* can find an instruction half done; the callbacks of its ticks may       *)
(* request an NMI, which waits for the next call, or a reset, which cuts   *)
(* the instruction short and is then the work of the same call.            *)
(*                                                                         *)
(* A step is one tick.  The call begins with its first tick and returns    *)
(* with its last; the other calls of the host come in between calls.       *)
(***************************************************************************)
EXTENDS CpuImplementation

VARIABLES
  stepping,     \* a call of cpu6502_step has ticked and has not returned
  cycles,       \* its local variable, and then what it has returned
  surplus       \* ticks of the call for something else than the work it ends,
                \* less the ticks of that work that were made before the call

stepvars == <<vars, boundary, stepping, cycles, surplus>>

-----------------------------------------------------------------------------

\* Mutant: the loop goes on although the CPU has jammed.
LoopsIgnoringJam == op'.def # NULL

\* Mutant: the condition is looked at before the tick.
LoopsAsBefore == op.def # NULL /\ ~jammed'

\* The condition of the do-while loop, after a tick.
Loops == op'.def # NULL /\ ~jammed'

\* The ticks made so far on the work in progress; op.cycle does not count the
\* fetch.
Elapsed ==
  IF op.def = NULL \/ jammed THEN 0
  ELSE op.cycle + (IF op.def \in Opcode THEN 1 ELSE 0)

\* The tick drops the work in progress for a reset.
CutShort == ~jammed /\ reset_requested

TicksSoFar == IF stepping THEN cycles ELSE 0

Surplus ==
  surplus' = IF CutShort THEN TicksSoFar
             ELSE IF stepping THEN surplus
             ELSE -Elapsed

cpu6502_step ==
  /\ cpu6502_tick
  /\ BoundaryKept
  /\ cycles' = TicksSoFar + 1
  /\ stepping' = Loops
  /\ Surplus

TickAlone ==
  /\ ~stepping
  /\ cpu6502_tick
  /\ BoundaryKept
  /\ UNCHANGED <<stepping, cycles, surplus>>

HostCall ==
  /\ ~stepping
  /\ cpu6502_reset \/ cpu6502_nmi \/ cpu6502_set_pc
  /\ BoundaryKept
  /\ UNCHANGED <<stepping, cycles, surplus>>

StepInit ==
  /\ cpu6502_init
  /\ boundary = Boundary
  /\ stepping = FALSE /\ cycles = 0 /\ surplus = 0

StepNext == cpu6502_step \/ TickAlone \/ HostCall

\* The loop runs on without the host's help.
StepSpec ==
  StepInit /\ [][StepNext]_stepvars /\ WF_stepvars(stepping /\ cpu6502_step)

-----------------------------------------------------------------------------

\* The ticks of the work that ends in this tick: for an instruction as many as
\* the 6502 takes, TAS without a carry excepted (CyclesOf), and whatever the
\* micro-program says; for an NMI six, one less than the 6502.  The call on a
\* jammed CPU has no work, and ticks once.
TicksOfWork ==
  IF jammed THEN 1
  ELSE CASE op.def = reset_sequence -> 7
         [] op.def = nmi_sequence   -> 6
         [] op.def \in Opcode       -> CyclesOf(op.def)

Returns == ~stepping' /\ (stepping \/ cycles' # cycles)

\* What cpu6502_step returns is the number of cycles of the instruction or
\* interrupt it has brought to its end, though it counts ticks and not cycles:
\* less those the host had ticked itself, plus those spent before a reset
\* struck.
StepReturnsItsCycles ==
  [][ Returns => /\ jammed \/ op.def # NULL
                 /\ cycles' = TicksOfWork + surplus' ]_stepvars

\* Every call returns, unless the callbacks request resets for ever.
StepReturns == []<>~stepping \/ []<>reset_requested

=============================================================================
