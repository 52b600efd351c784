-------------------------- MODULE SequencerProofs --------------------------
(***************************************************************************)
(* How long an NMI waits.  While one waits, the ticks it has waited and    *)
(* the micro-operations still to come never exceed the longest instruction *)
(* together: a tick moves one from the latter to the former, and new work  *)
(* begins only when no NMI waits, or is a reset.                           *)
(***************************************************************************)
EXTENDS Sequencer, TLAPS

\* Work in progress has micro-operations to come, and only that has.
WorkLeft == left = 0 <=> doing \in {"nothing", "jammed"}

\* Only a latched NMI waits.
OnlyNmiWaits == ~nmi => waited = 0

Budget == nmi /\ doing # "jammed" => waited + left <= MaxOps

SeqInv == TypeOK /\ WorkLeft /\ OnlyNmiWaits /\ Budget /\ NmiLatency

\* The sequencer starts with nothing to do.
LEMMA SequencerInit ==
  ASSUME OpsAssumption, Init
  PROVE  SeqInv
<1>1. TypeOK
  <2>1. doing \in Work /\ left \in 0 .. MaxOps /\ waited \in Nat
    BY DEF OpsAssumption, Init, Work
  <2>2. reset \in BOOLEAN /\ nmi \in BOOLEAN
    BY DEF Init
  <2> QED BY <2>1, <2>2 DEF TypeOK
<1>2. WorkLeft
  BY DEF Init, WorkLeft
<1>3. OnlyNmiWaits /\ Budget
  BY DEF Init, OnlyNmiWaits, Budget
<1>4. NmiLatency
  BY DEF OpsAssumption, Init, NmiLatency
<1> QED BY <1>1, <1>2, <1>3, <1>4 DEF SeqInv

\* Beginning something leaves room for it: no NMI waits, or waiting starts anew.
LEMMA BeginningsKeep ==
  ASSUME OpsAssumption, SeqInv, StartReset \/ StartNmi \/ Fetch
  PROVE  SeqInv'
<1>1. CASE StartReset
  BY <1>1
     DEF OpsAssumption, StartReset, Callback, SeqInv, TypeOK, Work, WorkLeft,
         OnlyNmiWaits, Budget, NmiLatency
<1>2. CASE StartNmi
  BY <1>2
     DEF OpsAssumption, StartNmi, SeqInv, TypeOK, Work, WorkLeft, OnlyNmiWaits,
         Budget, NmiLatency
<1>3. CASE Fetch
  <2>1. ~nmi /\ waited' = 0
    BY <1>3 DEF Fetch, Waits
  <2>2. /\ doing' = "instruction" /\ left' \in 1 .. MaxOps
        /\ reset' \in BOOLEAN /\ nmi' \in BOOLEAN
    BY <1>3 DEF Fetch, Callback
  <2>3. TypeOK'
    BY <2>1, <2>2 DEF OpsAssumption, TypeOK, Work
  <2>4. WorkLeft' /\ OnlyNmiWaits'
    BY <2>1, <2>2 DEF OpsAssumption, WorkLeft, OnlyNmiWaits
  <2>5. waited' + left' <= MaxOps /\ waited' <= MaxOps
    <3>1. PICK n \in 1 .. MaxOps : left' = n
      BY <2>2
    <3>2. n <= MaxOps /\ 0 <= MaxOps
      BY DEF OpsAssumption
    <3> QED BY <2>1, <3>1, <3>2 DEF OpsAssumption
  <2> QED BY <2>3, <2>4, <2>5 DEF SeqInv, Budget, NmiLatency
<1> QED BY <1>1, <1>2, <1>3

\* Going on moves one tick from what is left to what has been waited.
LEMMA GoingOnKeeps ==
  ASSUME OpsAssumption, SeqInv, Proceed \/ Complete \/ Jam
  PROVE  SeqInv'
<1> USE DEF SeqInv, TypeOK, Work, WorkLeft, OnlyNmiWaits, Budget, NmiLatency
<1>1. CASE Proceed
  BY <1>1 DEF OpsAssumption, Proceed, Callback, Waits
<1>2. CASE Complete
  BY <1>2 DEF OpsAssumption, Complete, Callback, Waits
<1>3. CASE Jam
  BY <1>3 DEF OpsAssumption, Jam, Waits
<1> QED BY <1>1, <1>2, <1>3

\* A request finds no NMI waiting, or another that waits already.
LEMMA RequestsKeep ==
  ASSUME OpsAssumption, SeqInv, RequestReset \/ RequestNmi \/ UNCHANGED seqvars
  PROVE  SeqInv'
<1>1. /\ UNCHANGED <<doing, left, waited>>
      /\ reset' \in BOOLEAN /\ nmi' \in BOOLEAN
      /\ nmi' = nmi \/ nmi' = TRUE
  BY DEF SeqInv, TypeOK, RequestReset, RequestNmi, seqvars
<1>2. TypeOK' /\ WorkLeft'
  BY <1>1 DEF SeqInv, TypeOK, WorkLeft
<1>3. OnlyNmiWaits' /\ NmiLatency'
  BY <1>1 DEF SeqInv, OnlyNmiWaits, NmiLatency
<1>4. Budget'
  <2>1. waited + left <= MaxOps \/ doing = "jammed"
    BY DEF OpsAssumption, SeqInv, TypeOK, OnlyNmiWaits, Budget
  <2> QED BY <1>1, <2>1 DEF Budget
<1> QED BY <1>2, <1>3, <1>4 DEF SeqInv

\* No NMI waits for longer than the longest instruction takes, whatever else
\* is requested: cpu6502_tick looks at the latch at every boundary.
THEOREM NmiWaitsBounded ==
  ASSUME OpsAssumption
  PROVE  Spec => []NmiLatency
<1>1. Init => SeqInv
  BY SequencerInit
<1>2. SeqInv /\ [Next]_seqvars => SeqInv'
  BY BeginningsKeep, GoingOnKeeps, RequestsKeep DEF Next, Tick
<1>3. SeqInv => NmiLatency
  BY DEF SeqInv
<1> QED BY <1>1, <1>2, <1>3, PTL DEF Spec

\* What is in progress has micro-operations to come, as many as an instruction
\* can have, or is nothing: the type invariant of the sequencer.
THEOREM SequencerTyped ==
  ASSUME OpsAssumption
  PROVE  Spec => []TypeOK
<1>1. Init => SeqInv
  BY SequencerInit
<1>2. SeqInv /\ [Next]_seqvars => SeqInv'
  BY BeginningsKeep, GoingOnKeeps, RequestsKeep DEF Next, Tick
<1>3. SeqInv => TypeOK
  BY DEF SeqInv
<1> QED BY <1>1, <1>2, <1>3, PTL DEF Spec

=============================================================================
