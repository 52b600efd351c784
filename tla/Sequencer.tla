----------------------------- MODULE Sequencer -----------------------------
(***************************************************************************)
(* What cpu6502_tick promises about time, and nothing else: which piece of *)
(* work is in progress, how many of its micro-operations are still to      *)
(* come, and what becomes of the two request latches.  Registers, memory   *)
(* and the micro-operations themselves are left out.                       *)
(*                                                                         *)
(* A callback may set either latch in any tick of work in progress.        *)
(***************************************************************************)
EXTENDS Integers

CONSTANTS
  MaxOps,       \* micro-operations of the longest instruction
  ResetOps,     \* those of a reset
  NmiOps        \* those of an NMI

OpsAssumption ==
  MaxOps \in Nat /\ ResetOps \in 2 .. MaxOps /\ NmiOps \in 2 .. MaxOps

VARIABLES
  doing,        \* the work in progress
  left,         \* its micro-operations still to come
  reset, nmi,   \* the latches
  waited        \* ticks for which the latched NMI has waited, not counting
                \* those before the last reset began

seqvars == <<doing, left, reset, nmi, waited>>

Work == {"nothing", "instruction", "nmi", "reset", "jammed"}

TypeOK ==
  /\ doing \in Work
  /\ left \in 0 .. MaxOps
  /\ reset \in BOOLEAN
  /\ nmi \in BOOLEAN
  /\ waited \in Nat

Init ==
  doing = "nothing" /\ left = 0 /\ reset = FALSE /\ nmi = FALSE /\ waited = 0

-----------------------------------------------------------------------------

\* A callback sets latches; it does not clear them.
Callback == reset' \in BOOLEAN /\ nmi' \in BOOLEAN /\ (nmi => nmi')

Waits == waited' = IF nmi THEN waited + 1 ELSE 0

\* A reset strikes at once, in the middle of another reset too.
StartReset ==
  /\ reset /\ doing # "jammed"
  /\ doing' = "reset" /\ left' = ResetOps - 1
  /\ Callback /\ waited' = 0

\* An NMI requested while one is taken is another one.
StartNmi ==
  /\ ~reset /\ nmi /\ doing = "nothing"
  /\ doing' = "nmi" /\ left' = NmiOps - 1
  /\ reset' \in BOOLEAN /\ nmi' \in BOOLEAN /\ waited' = 0

Fetch ==
  /\ ~reset /\ ~nmi /\ doing = "nothing"
  /\ doing' = "instruction" /\ left' \in 1 .. MaxOps
  /\ Callback /\ Waits

Proceed ==
  /\ ~reset /\ left > 1
  /\ left' = left - 1 /\ UNCHANGED doing
  /\ Callback /\ Waits

\* An instruction may end before its last micro-operation.  What ends a reset
\* drops a reset requested meanwhile.
Complete ==
  /\ ~reset
  /\ left = 1 \/ (left > 1 /\ doing = "instruction")
  /\ doing' = "nothing" /\ left' = 0
  /\ Callback /\ Waits
  /\ doing = "reset" => ~reset'

Jam ==
  /\ ~reset /\ doing = "instruction" /\ left = 1
  /\ doing' = "jammed" /\ left' = 0
  /\ UNCHANGED <<reset, nmi>> /\ Waits

Tick == StartReset \/ StartNmi \/ Fetch \/ Proceed \/ Complete \/ Jam

-----------------------------------------------------------------------------
(* The host, between two ticks *)

RequestReset == reset' = TRUE /\ UNCHANGED <<doing, left, nmi, waited>>
RequestNmi   == nmi' = TRUE /\ UNCHANGED <<doing, left, reset, waited>>

Next == Tick \/ RequestReset \/ RequestNmi

Spec == Init /\ [][Next]_seqvars

\* A host that keeps calling cpu6502_tick.
FairSpec == Spec /\ WF_seqvars(Tick)

-----------------------------------------------------------------------------

\* A latched NMI is taken within MaxOps ticks: while the CPU runs it never
\* waits for longer than the longest instruction takes after its fetch,
\* counted from the request or from the beginning of the last reset.
NmiLatency == waited <= MaxOps

=============================================================================
