--------------------------- MODULE SteppingProofs ---------------------------
(***************************************************************************)
(* What cpu6502_step returns.  A tick after which its loop goes on is one  *)
(* more of the work in progress, or the first of a reset; the tick after   *)
(* which it does not is the last of that work, which has then taken its    *)
(* cycles (FinishesInTime, for an instruction).  So what the call has      *)
(* counted is what the work has taken, and the surplus.                    *)
(***************************************************************************)
EXTENDS Stepping, InstructionProofs

-----------------------------------------------------------------------------
(* The ticks of a call of cpu6502_step *)

\* A micro-operation of work in progress ends it or is counted.
LEMMA WorkGoesOn ==
  ASSUME IInv, MicroStep, ~reset_requested, ~NmiTaken
  PROVE  /\ ~jammed /\ op.def # NULL /\ Selected = op
         /\ \/ Ends
            \/ op'.def = op.def /\ op'.cycle = op.cycle + 1
<1>1. Selected = op
  BY DEF Selected
<1>2. \E kind : Executes(kind)
  BY StepKinds DEF MicroStep
<1>3. ~jammed /\ op.def # NULL
  BY <1>1, <1>2 DEF Executes
<1>4. op.cycle \in 0 .. 6
  BY <1>3, PlaceTyped
<1>5. Keeps(op') \/ Ends
  BY StepKeepsOrEnds DEF MicroStep, IInv
<1>6. Keeps(op') => op'.def = op.def /\ op'.cycle = U8(op.cycle + 1)
  BY <1>1, NowTyped DEF Keeps, IInv
<1>7. U8(op.cycle + 1) = op.cycle + 1
  BY <1>4 DEF U8
<1> QED BY <1>1, <1>3, <1>5, <1>6, <1>7

\* A tick that begins a reset or an NMI has counted one of its cycles.
LEMMA SequenceStarts ==
  ASSUME MicroStep, reset_requested \/ NmiTaken
  PROVE  /\ ~jammed /\ op'.cycle = 1
         /\ op'.def = IF reset_requested THEN reset_sequence ELSE nmi_sequence
<1>1. U8(1) = 1
  BY DEF U8
<1>2. CASE reset_requested
  BY <1>1, <1>2, ResetStarts
<1>3. CASE ~reset_requested
  <2>1. dummy_pc_read
    BY <1>3, OnlyPcReadTakesNmi DEF MicroStep
  <2>2. ~jammed /\ op' = Now
    BY <2>1 DEF dummy_pc_read, Executes, Continue
  <2>3. Selected = [ZeroOp EXCEPT !.def = nmi_sequence]
    BY <1>3 DEF Selected
  <2>4. Now.def = nmi_sequence /\ Now.cycle = U8(1)
    BY <2>3 DEF Now, ZeroOp
  <2> QED BY <1>1, <1>3, <2>2, <2>4
<1> QED BY <1>2, <1>3

\* The ticks made so far are a number.
LEMMA ElapsedTyped == ASSUME IInv PROVE Elapsed \in Int
BY PlaceTyped DEF Elapsed

\* A fetch leaves the first micro-operation to come.
LEMMA FetchCounts ==
  ASSUME IInv, IInv', Fetch
  PROVE  /\ ~jammed /\ ~reset_requested /\ op.def = NULL
         /\ op'.def \in Opcode /\ op'.def # NULL /\ op'.cycle = 0
<1>1. /\ ~jammed /\ ~reset_requested /\ op.def = NULL
  BY OpDefsDistinct DEF Fetch, Selected, NmiTaken, ZeroOp, IInv, TypeOK, OpState
<1>2. op.cycle = 0
  BY <1>1 DEF IInv, CleanBoundary, ZeroOp
<1>3. PICK opcode \in BusData(cpu.PC) :
        Reads(cpu.PC, opcode) /\ op' = [op EXCEPT !.def = opcode]
  BY <1>1 DEF Fetch
<1>4. opcode \in Opcode /\ opcode # NULL
  <2>1. opcode \in Byte
    BY <1>3, WordsTyped, BusDataTyped DEF IInv
  <2> QED BY <2>1, Bounds DEF Opcode, NULL
<1>5. op'.def = opcode /\ op'.cycle = op.cycle
  BY <1>3 DEF IInv, TypeOK, OpState
<1> QED BY <1>1, <1>2, <1>4, <1>5

\* A tick after which the loop goes on is counted, or is the first of a reset.
LEMMA TickCounts ==
  ASSUME IInv, IInv', cpu6502_tick, Loops
  PROVE  ~jammed /\ Elapsed' = IF reset_requested THEN 1 ELSE Elapsed + 1
<1>1. /\ ~jammed' /\ op'.def # NULL
      /\ Elapsed' = op'.cycle + (IF op'.def \in Opcode THEN 1 ELSE 0)
  BY DEF Loops, Elapsed
<1>2. ~TickJammed /\ ~kil_imp
  BY <1>1 DEF TickJammed, kil_imp
<1>3. CASE Fetch
  BY <1>1, <1>3, FetchCounts DEF Elapsed
<1>4. CASE MicroStep /\ (reset_requested \/ NmiTaken)
  <2>1. NmiTaken => ~reset_requested /\ Elapsed = 0
    BY DEF NmiTaken, Elapsed
  <2> QED BY <1>1, <1>4, <2>1, SequenceStarts, OpDefsDistinct
<1>5. CASE MicroStep /\ ~reset_requested /\ ~NmiTaken
  <2>1. ~jammed /\ op.def # NULL /\ op'.def = op.def
        /\ op'.cycle = op.cycle + 1
    BY <1>1, <1>5, WorkGoesOn DEF Ends
  <2>2. op.cycle \in Int
    BY <2>1, PlaceTyped
  <2> QED BY <1>1, <1>5, <2>1, <2>2 DEF Elapsed
<1> QED BY <1>2, <1>3, <1>4, <1>5 DEF cpu6502_tick, MicroStep

\* An instruction with an operand in memory does not jam.
LEMMA NoOperandJams ==
  ASSUME NEW mode \in InstructionSet!MemoryModes, NEW f, NEW program,
         Decoded(mode, f, program), NEW i \in 1 .. Len(program)
  PROVE  program[i].kind # "kil_imp"
<1>1. OnMemory(mode, f, program)
  BY MemoryProgram
<1>2. AddressTicks(mode) \in 1 .. 4
  BY DEF AddressTicks, InstructionSet!MemoryModes,
     InstructionSet!ZeroPageModes, InstructionSet!IndexedModes
<1>3. i \in 1 .. AddressTicks(mode) \/ i \in AddressTicks(mode) + 1 .. Len(program)
  BY <1>2
<1>4. \A k \in 1 .. AddressTicks(mode) : AddressProgram(mode)[k] # "kil_imp"
  BY DEF AddressTicks, AddressProgram, InstructionSet!MemoryModes,
     InstructionSet!ZeroPageModes, InstructionSet!IndexedModes
<1>5. "kil_imp" \notin OperandKinds
  BY DEF OperandKinds
<1> QED BY <1>1, <1>3, <1>4, <1>5 DEF OnMemory

\* Neither does a branch.
LEMMA NoBranchJams ==
  ASSUME NEW opcode \in Opcode, InstructionSet!Mode(opcode) = "rel",
         NEW i \in 1 .. Len(micro_ops(opcode))
  PROVE  micro_ops(opcode)[i].kind # "kil_imp"
BY BranchProgram DEF Branch, Do, Instruction

\* The jam ends an instruction of two cycles in the second.
LEMMA JamInTime ==
  ASSUME IInv, kil_imp
  PROVE  op.def \in Opcode /\ ~reset_requested /\ op.cycle + 2 = CyclesOf(op.def)
<1>1. Executes("kil_imp") /\ ~jammed /\ ~reset_requested
  BY ResetStarts DEF kil_imp, Executes
<1>2. ~NmiTaken
  BY <1>1, NmiStartsWithPcRead
<1>3. Selected = op /\ op.def # NULL
  BY <1>1, <1>2 DEF Selected, Executes
<1>4. /\ op.def \in OpDef /\ op.cycle + 1 \in 1 .. Len(micro_ops(op.def))
      /\ micro_ops(op.def)[op.cycle + 1].kind = "kil_imp"
      /\ op.cycle \in 0 .. 6
  BY <1>1, <1>3, ExecutedTyped, PlaceTyped
<1>5. op.def \in Opcode
  <2>1. op.def # reset_sequence /\ op.def # nmi_sequence
    BY <1>4, SequencesEndLast, OpDefsDistinct DEF EndingKinds, FinishingKinds
  <2> QED BY <1>4, <2>1 DEF OpDef
<1>6. op.cycle + 1 = Len(micro_ops(op.def))
  BY <1>4, <1>5, OpDefsDistinct, MicroProgramsWellFormed DEF Ordinary
<1> DEFINE mode == InstructionSet!Mode(op.def)
           f    == InstructionSet!Operation(op.def)
<1>7. Decoded(mode, f, micro_ops(op.def))
  BY <1>5, ProgramsDecoded DEF Programmed
<1>8. mode \notin InstructionSet!MemoryModes \cup {"rel"}
  BY <1>4, <1>5, <1>7, NoOperandJams, NoBranchJams
<1>9. CyclesOf(op.def) \in Int /\ Len(micro_ops(op.def)) = CyclesOf(op.def) - 1
  BY <1>7, <1>8, StraightCycles DEF Straight
<1> QED BY <1>1, <1>4, <1>5, <1>6, <1>9

\* A tick after which it does not is the last of the work in progress.
LEMMA TickReturns ==
  ASSUME IInv, IInv', AddressesAgree, Aligned,
         cpu6502_tick, BoundaryKept, ~Loops, ~jammed
  PROVE  op.def # NULL /\ ~reset_requested /\ TicksOfWork = Elapsed + 1
<1>1. op'.def = NULL \/ jammed'
  BY DEF Loops, IInv, TypeOK
<1>2. CASE kil_imp
  <2>1. /\ op.def \in Opcode /\ ~reset_requested
        /\ op.cycle + 2 = CyclesOf(op.def)
    BY <1>2, JamInTime
  <2>2. op.def # NULL /\ op.def # reset_sequence /\ op.def # nmi_sequence
    BY <2>1, OpDefsDistinct DEF Opcode, NULL
  <2>3. op.cycle \in Int
    BY <2>2, PlaceTyped
  <2> QED BY <2>1, <2>2, <2>3 DEF TicksOfWork, Elapsed
<1>3. CASE MicroStep /\ UNCHANGED jammed
  <2>1. ~reset_requested /\ ~NmiTaken
    BY <1>1, <1>3, SequenceStarts, OpDefsDistinct
  <2>2. op.def # NULL /\ Selected = op /\ Ends
    BY <1>1, <1>3, <2>1, WorkGoesOn
  <2>3. /\ Left = 1 \/ Doing = "instruction"
        /\ op.def \in OpDef /\ op.cycle \in 0 .. 6
        /\ Left = Len(micro_ops(op.def)) - op.cycle
    BY <1>3, <2>2, EndsLast, PlaceTyped
  <2>4. CASE op.def \in {reset_sequence, nmi_sequence}
    <3>1. Left = 1
      BY <2>3, <2>4, OpDefsDistinct DEF Doing
    <3>2. Len(ResetSequence) = 7 /\ Len(NmiSequence) = 6
      BY DEF ResetSequence, NmiSequence
    <3>3. Len(micro_ops(op.def)) = IF op.def = reset_sequence THEN 7 ELSE 6
      BY <2>4, <3>2, OpDefsDistinct
    <3>4. op.cycle = IF op.def = reset_sequence THEN 6 ELSE 5
      BY <2>3, <3>1, <3>3
    <3> QED BY <2>1, <2>2, <2>4, <3>4, OpDefsDistinct
            DEF TicksOfWork, Elapsed
  <2>5. CASE op.def \in Opcode
    <3>1. ImplementationNext /\ Finishes
      BY <1>1, <1>3, <2>5 DEF ImplementationNext, Finishes
    <3>2. op.cycle + 2 = CyclesOf(op.def)
      BY <3>1, FinishesInTime
    <3> QED BY <2>1, <2>2, <2>3, <2>5, <3>2, OpDefsDistinct
            DEF TicksOfWork, Elapsed
  <2> QED BY <2>2, <2>3, <2>4, <2>5 DEF OpDef
<1> QED BY <1>1, <1>2, <1>3, FetchCounts
        DEF cpu6502_tick, MicroStep, TickJammed

-----------------------------------------------------------------------------
(* What a call returns *)

\* The host moves PC between two instructions only.
PcMovesBetween == [][HostCall /\ Running /\ ~jammed => cpu' = cpu]_stepvars

\* The inductive invariant: what a call has counted is what the work in
\* progress has taken, and the surplus.
CountKept ==
  /\ stepping \in BOOLEAN /\ cycles \in Int /\ surplus \in Int
  /\ stepping => ~jammed /\ cycles = surplus + Elapsed

\* The tick of a call.
LEMMA CallCounts ==
  ASSUME IInv, IInv', CountKept, cpu6502_step
  PROVE  CountKept'
<1>1. TicksSoFar \in Int /\ Elapsed \in Int
  BY ElapsedTyped DEF TicksSoFar, CountKept
<1>2. cycles' \in Int /\ surplus' \in Int /\ stepping' \in BOOLEAN
  BY <1>1 DEF cpu6502_step, Surplus, CountKept, Loops
<1>3. CASE Loops
  <2>1. ~jammed /\ Elapsed' = IF reset_requested THEN 1 ELSE Elapsed + 1
    BY <1>3, TickCounts DEF cpu6502_step
  <2>2. cycles' = surplus' + Elapsed'
    BY <1>1, <2>1 DEF cpu6502_step, Surplus, CutShort, TicksSoFar, CountKept
  <2> QED BY <1>2, <1>3, <2>2 DEF CountKept, Loops
<1>4. CASE ~Loops
  BY <1>2, <1>4 DEF CountKept, cpu6502_step
<1> QED BY <1>3, <1>4

\* Ticks outside a call, and the host, leave its count alone.
LEMMA OthersCount ==
  ASSUME CountKept, TickAlone \/ HostCall \/ UNCHANGED stepvars
  PROVE  CountKept'
<1>1. UNCHANGED <<stepping, cycles, surplus>>
  BY DEF TickAlone, HostCall, stepvars
<1>2. CASE TickAlone \/ HostCall
  BY <1>1, <1>2 DEF TickAlone, HostCall, CountKept
<1>3. CASE UNCHANGED stepvars
  BY <1>1, <1>3 DEF CountKept, Elapsed, stepvars, vars
<1> QED BY <1>2, <1>3

\* The place in the instruction, whoever ticks.
LEMMA SteppingAligned ==
  ASSUME IInv, IInv', AddressesAgree, Aligned, [StepNext]_stepvars,
         HostCall /\ Running /\ ~jammed => cpu' = cpu
  PROVE  Aligned'
<1>1. CASE cpu6502_step \/ TickAlone \/ UNCHANGED stepvars
  <2>1. [ImplementationNext]_<<vars, boundary>>
    BY <1>1 DEF cpu6502_step, TickAlone, stepvars, ImplementationNext
  <2> QED BY <2>1, StepAligned
<1>2. CASE HostCall
  <2>1. BoundaryKept /\ (cpu6502_reset \/ cpu6502_nmi \/ cpu6502_set_pc)
    BY <1>2 DEF HostCall
  <2>2. CASE cpu6502_reset \/ cpu6502_nmi \/ ~Running
    BY <2>1, <2>2, HostAligned
  <2>3. CASE cpu6502_set_pc /\ Running
    <3>1. /\ op' = op /\ jammed' = jammed /\ mem' = mem
          /\ op.def # NULL
      BY <2>3 DEF cpu6502_set_pc, Running
    <3>2. BoundaryTyped' /\ boundary' = boundary
      BY <2>1, <3>1, BoundaryStays DEF Aligned
    <3>3. ~jammed => cpu' = cpu
      BY <1>2, <2>3
    <3> QED BY <3>1, <3>2, <3>3, NothingMoves DEF Aligned
  <2> QED BY <2>1, <2>2, <2>3
<1> QED BY <1>1, <1>2 DEF StepNext

\* A call that returns.
LEMMA CallReturns ==
  ASSUME IInv, IInv', AddressesAgree, Aligned, CountKept, StepNext, Returns
  PROVE  /\ jammed \/ op.def # NULL
         /\ cycles' = TicksOfWork + surplus'
<1>1. cpu6502_step /\ ~Loops
  BY DEF Returns, StepNext, TickAlone, HostCall, cpu6502_step
<1>2. Elapsed \in Int
  BY ElapsedTyped
<1>3. CASE jammed
  <2>1. ~stepping /\ Elapsed = 0
    BY <1>3 DEF CountKept, Elapsed
  <2> QED BY <1>1, <1>3, <2>1
          DEF cpu6502_step, Surplus, CutShort, TicksSoFar, TicksOfWork
<1>4. CASE ~jammed
  <2>1. op.def # NULL /\ ~reset_requested /\ TicksOfWork = Elapsed + 1
    BY <1>1, <1>4, TickReturns DEF cpu6502_step
  <2> QED BY <1>1, <1>2, <2>1
          DEF cpu6502_step, Surplus, CutShort, TicksSoFar, CountKept
<1> QED BY <1>3, <1>4

\* The invariants of the CPU hold while it is stepped.
LEMMA SteppingInvariant ==
  StepSpec /\ PcMovesBetween =>
    [](IInv /\ AddressesAgree /\ Aligned /\ CountKept)
<1>1. [StepNext]_stepvars => [Next]_vars
  BY DEF StepNext, cpu6502_step, TickAlone, HostCall, Next, stepvars
<1>2. StepInit => cpu6502_init /\ Aligned /\ CountKept
  <2> SUFFICES ASSUME StepInit PROVE cpu6502_init /\ Aligned /\ CountKept
    OBVIOUS
  <2>1. cpu6502_init /\ boundary = Boundary
    BY DEF StepInit
  <2>2. Aligned
    BY <2>1, InitAligned
  <2>3. CountKept
    <3>1. stepping \in BOOLEAN /\ ~stepping
      BY DEF StepInit
    <3>2. cycles \in Int /\ surplus \in Int
      BY DEF StepInit
    <3> QED BY <3>1, <3>2 DEF CountKept
  <2> QED BY <2>1, <2>2, <2>3
<1>3. StepSpec => Spec
  BY <1>1, <1>2, PTL DEF StepSpec, Spec
<1>4. /\ IInv /\ IInv' /\ AddressesAgree /\ Aligned /\ [StepNext]_stepvars
      /\ [HostCall /\ Running /\ ~jammed => cpu' = cpu]_stepvars
      => Aligned'
  <2> SUFFICES ASSUME IInv, IInv', AddressesAgree, Aligned, [StepNext]_stepvars,
                      [HostCall /\ Running /\ ~jammed => cpu' = cpu]_stepvars
               PROVE  Aligned'
    OBVIOUS
  <2>1. UNCHANGED stepvars => cpu' = cpu
    BY DEF stepvars, vars
  <2> QED BY <2>1, SteppingAligned
<1>5. IInv /\ IInv' /\ CountKept /\ [StepNext]_stepvars => CountKept'
  BY CallCounts, OthersCount DEF StepNext
<1> QED BY <1>2, <1>3, <1>4, <1>5, Invariant, AddressCopiesAgree, PTL
        DEF StepSpec, PcMovesBetween

\* What cpu6502_step returns, in every memory, whatever is requested and
\* whatever the host has ticked itself, is the cycles of the instruction, the
\* NMI or the reset that it has brought to its end, less those ticked before
\* the call, plus those spent before a reset struck.
THEOREM StepsCounted ==
  StepSpec /\ PcMovesBetween => StepReturnsItsCycles
<1>1. /\ IInv /\ IInv' /\ AddressesAgree /\ Aligned /\ CountKept
      /\ [StepNext]_stepvars
      => [Returns => /\ jammed \/ op.def # NULL
                     /\ cycles' = TicksOfWork + surplus']_stepvars
  BY CallReturns
<1> QED BY <1>1, SteppingInvariant, PTL DEF StepSpec, StepReturnsItsCycles

=============================================================================
