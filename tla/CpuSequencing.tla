--------------------------- MODULE CpuSequencing ---------------------------
(***************************************************************************)
(* The CPU implements the sequencer: the micro-programs, their conditional *)
(* ends and the order in which a tick looks at the latches amount to steps *)
(* of module Sequencer.                                                    *)
(*                                                                         *)
(* The history variable waited counts the ticks for which the latched NMI  *)
(* has waited; the rest of the mapping is the place in the micro-program.  *)
(***************************************************************************)
EXTENDS CpuSafety

VARIABLE waited

sequencedvars == <<vars, waited>>

Doing ==
  IF jammed THEN "jammed"
  ELSE IF op.def = NULL THEN "nothing"
  ELSE IF op.def = reset_sequence THEN "reset"
  ELSE IF op.def = nmi_sequence THEN "nmi"
  ELSE "instruction"

Left == IF jammed \/ op.def = NULL THEN 0 ELSE Len(micro_ops(op.def)) - op.cycle

Sequencer == INSTANCE Sequencer
  WITH MaxOps   <- 7,
       ResetOps <- Len(ResetSequence),
       NmiOps   <- Len(NmiSequence),
       doing    <- Doing,
       left     <- Left,
       reset    <- reset_requested,
       nmi      <- nmi_requested

-----------------------------------------------------------------------------

\* A jammed CPU keeps no time.
TickWaits ==
  waited' = IF jammed THEN waited
            ELSE IF reset_requested \/ NmiTaken \/ ~nmi_requested THEN 0
            ELSE waited + 1

SequencedTick == cpu6502_tick /\ TickWaits

SequencedCall ==
  (cpu6502_reset \/ cpu6502_nmi \/ cpu6502_set_pc) /\ UNCHANGED waited

SequencedInit == cpu6502_init /\ waited = 0

SequencedSpec ==
  SequencedInit /\ [][SequencedTick \/ SequencedCall]_sequencedvars

-----------------------------------------------------------------------------

\* Whatever the bytes on the bus and the requests, each tick is one step of
\* the sequencer and each call of the host at most one: work starts and goes
\* on as the latches say, an interrupt runs to its last micro-operation, an
\* instruction at most to it, and no request is lost or invented.
ImplementsSequencer == Sequencer!Spec

\* cpu6502_tick always gets the sequencer on: no tick leaves the work in
\* progress where it was, unless the CPU has jammed.
ImplementsFairSequencer == Sequencer!FairSpec

\* A latched NMI is taken within seven ticks, counted from the request or from
\* the start of the last reset: eight cycles is the longest instruction.
NmiWithinSevenTicks == waited <= 7

\* Once resets stop coming a latched NMI is taken, whatever NMIs come on top
\* of it, unless the CPU jams; a reset that keeps coming can hold it off for
\* ever, since cpu6502_tick looks at reset_requested first (6502.c:54).
NmiServedOnceResetsStop ==
  <>[]~reset_requested =>
    (nmi_requested ~> op.def = nmi_sequence \/ jammed)

=============================================================================
