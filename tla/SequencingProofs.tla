-------------------------- MODULE SequencingProofs --------------------------
(***************************************************************************)
(* The CPU implements the sequencer, whatever the bytes on the bus, the    *)
(* requests and the calls of its host.                                     *)
(*                                                                         *)
(* A micro-operation either goes on, at the next cycle of its program, or  *)
(* ends it; those that may end one come last in the programs of a reset    *)
(* and of an NMI.  IInv says that there is a next cycle to go on at, and   *)
(* that a fetch starts from cycle 0.                                       *)
(***************************************************************************)
EXTENDS CpuSequencing, Cpu6502Proofs

-----------------------------------------------------------------------------
(* A micro-operation goes on or ends its program *)

\* The micro-operations that call finish_op, always or on a condition.
EndingKinds ==
  FinishingKinds \cup {"indexed_read_maybe_finish",
    "tas_indexed_read_maybe_finish", "fetch_offset", "branch_op"}

\* The next cycle of the same OpDef, whatever the rest of op.
Keeps(o) ==
  /\ {"def", "cycle"} \subseteq DOMAIN o
  /\ o.def = Now.def /\ o.cycle = Now.cycle

Ends == op'.def = NULL /\ \E kind \in EndingKinds : Executes(kind)

\* A micro-operation may set any other field.
LEMMA KeepsUpdated ==
  ASSUME NEW o, Keeps(o), NEW v
  PROVE  /\ Keeps([o EXCEPT !.addr_lo = v]) /\ Keeps([o EXCEPT !.addr_hi = v])
         /\ Keeps([o EXCEPT !.addr = v])    /\ Keeps([o EXCEPT !.temp_addr = v])
         /\ Keeps([o EXCEPT !.ptr = v])     /\ Keeps([o EXCEPT !.data = v])
         /\ Keeps([o EXCEPT !.offset = v])  /\ Keeps([o EXCEPT !.old_pc = v])
         /\ Keeps([o EXCEPT !.page_crossed = v])
BY DEF Keeps

\* The addresses it computes are in other fields.
LEMMA AddressKeeps ==
  ASSUME NEW o, Keeps(o), NEW v, NEW w
  PROVE  /\ Keeps(SetAddress(o, v)) /\ Keeps(Index(o, v, w))
         /\ Keeps(TempFromSum(o, w))
<1>1. \A a : Keeps(SetAddress(o, a))
  <2> TAKE a
  <2>1. Keeps([o EXCEPT !.addr = a])
    BY KeepsUpdated
  <2>2. Keeps([[o EXCEPT !.addr = a] EXCEPT !.addr_lo = LoByte(a)])
    BY <2>1, KeepsUpdated
  <2>3. Keeps([[[o EXCEPT !.addr = a] EXCEPT !.addr_lo = LoByte(a)]
                 EXCEPT !.addr_hi = HiByte(a)])
    BY <2>2, KeepsUpdated
  <2> QED BY <2>3 DEF SetAddress
<1>2. Keeps(Index(o, v, w))
  BY <1>1, KeepsUpdated DEF Index
<1>3. Keeps(TempFromSum(o, w))
  BY KeepsUpdated DEF TempFromSum
<1> QED BY <1>1, <1>2, <1>3

\* A micro-operation finds the next cycle already counted.
LEMMA NowKeeps == ASSUME TypeOK PROVE Keeps(Now)
BY NowTyped DEF Keeps, OpState

\* finish_op leaves no OpDef.
LEMMA FinishClears == ASSUME Finish PROVE op'.def = NULL
BY DEF Finish, ZeroOp

\* The micro-operations that prepare an address go on.
LEMMA AddressStepKeeps ==
  ASSUME TypeOK, AddressStep
  PROVE  Keeps(op')
<1>1. Keeps(Now)
  BY NowKeeps
<1>2. \A v : /\ Keeps([Now EXCEPT !.addr_lo = v]) /\ Keeps([Now EXCEPT !.ptr = v])
             /\ Keeps(AbsoluteAddress(v))
  BY <1>1, KeepsUpdated, AddressKeeps DEF AbsoluteAddress
<1>3. CASE \/ dummy \/ dummy_pc_read \/ dummy_pc_read_and_inc
           \/ dummy_stack_read \/ dummy_temp_addr_read
  BY <1>1, <1>3 DEF dummy, dummy_pc_read, dummy_pc_read_and_inc,
     dummy_stack_read, dummy_temp_addr_read, Continue
<1>4. CASE read_pc_addr_low
  <2>1. PICK v : op' = [Now EXCEPT !.addr_lo = v, !.addr = v]
    BY <1>4 DEF read_pc_addr_low
  <2>2. Keeps([[Now EXCEPT !.addr_lo = v] EXCEPT !.addr = v])
    BY <1>2, KeepsUpdated
  <2> QED BY <2>1, <2>2
<1>5. CASE read_pc_addr_low_add_x
  <2>1. PICK v : op' = [Now EXCEPT !.addr_lo = v, !.addr = v]
    BY <1>5 DEF read_pc_addr_low_add_x
  <2>2. Keeps([[Now EXCEPT !.addr_lo = v] EXCEPT !.addr = v])
    BY <1>2, KeepsUpdated
  <2> QED BY <2>1, <2>2
<1>6. CASE read_pc_addr_low_add_y \/ read_ptr_addr_low
  <2>1. PICK v : op' = [Now EXCEPT !.addr_lo = v]
    BY <1>6 DEF read_pc_addr_low_add_y, read_ptr_addr_low
  <2> QED BY <1>2, <2>1
<1>7. CASE read_pc_addr_high \/ read_ptr_addr_high
  BY <1>2, <1>7 DEF read_pc_addr_high, read_ptr_addr_high
<1>8. CASE read_pc_addr_high_add_x
  <2>1. PICK high, base, x :
          op' = TempFromSum(Index(AbsoluteAddress(high), base, x), x)
    BY <1>8 DEF read_pc_addr_high_add_x
  <2> QED BY <1>2, <2>1, AddressKeeps
<1>9. CASE read_pc_addr_high_add_y
  <2>1. PICK high :
          op' = [Index(AbsoluteAddress(high), Address(op.addr_lo, high), cpu.Y)
                   EXCEPT !.temp_addr = Address(U8(op.addr_lo + cpu.Y), high)]
    BY <1>9 DEF read_pc_addr_high_add_y
  <2>2. Keeps(Index(AbsoluteAddress(high), Address(op.addr_lo, high), cpu.Y))
    BY <1>2, AddressKeeps
  <2> QED BY <2>1, <2>2, KeepsUpdated
<1>10. CASE fetch_ptr \/ read_ptr_add_x
  <2>1. PICK v : op' = [Now EXCEPT !.ptr = v]
    BY <1>10 DEF fetch_ptr, read_ptr_add_x
  <2> QED BY <1>2, <2>1
<1>11. CASE read_ptr_addr_high_add_y
  <2>1. PICK base, y : op' = TempFromSum(Index(Now, base, y), y)
    BY <1>11 DEF read_ptr_addr_high_add_y
  <2> QED BY <1>1, <2>1, AddressKeeps
<1>12. CASE fetch_pointer_addr_low
  <2>1. PICK v, w : op' = [Now EXCEPT !.ptr = v, !.addr_lo = w]
    BY <1>12 DEF fetch_pointer_addr_low
  <2>2. Keeps([[Now EXCEPT !.ptr = v] EXCEPT !.addr_lo = w])
    BY <1>2, KeepsUpdated
  <2> QED BY <2>1, <2>2
<1> QED BY <1>3, <1>4, <1>5, <1>6, <1>7, <1>8, <1>9, <1>10, <1>11, <1>12
        DEF AddressStep

\* Those of the stack and of interrupts go on or end in finish_op.
LEMMA StackStepKeepsOrEnds ==
  ASSUME TypeOK, StackStep
  PROVE  Keeps(op') \/ Ends
<1>1. Keeps(Now)
  BY NowKeeps
<1>2. \A v : Keeps([Now EXCEPT !.addr_lo = v]) /\ Keeps([Now EXCEPT !.addr_hi = v])
  BY <1>1, KeepsUpdated
<1>3. CASE \/ inc_sp \/ dec_sp \/ push_pc_high \/ push_pc_low
           \/ push_p_with_break \/ push_p_without_break \/ pull_p
  BY <1>1, <1>3 DEF inc_sp, dec_sp, push_pc_high, push_pc_low,
     push_p_with_break, push_p_without_break, pull_p, Continue
<1>4. CASE \/ pull_pc_low \/ pull_pc_high_no_inc
           \/ read_irq_low \/ read_nmi_low \/ read_reset_low
  BY <1>2, <1>4 DEF pull_pc_low, pull_pc_high_no_inc, read_irq_low,
     read_nmi_low, read_reset_low, VectorLow
<1>5. CASE \/ pull_pc_high_finish \/ php_imp \/ pha_imp \/ plp_imp \/ pla_imp
           \/ read_irq_high_finish \/ read_nmi_high_finish
           \/ read_reset_high_finish
  BY <1>5, FinishClears DEF pull_pc_high_finish, php_imp, pha_imp, plp_imp,
     pla_imp, read_irq_high_finish, read_nmi_high_finish, VectorHighFinish,
     read_reset_high_finish, Ends, EndingKinds, FinishingKinds
<1> QED BY <1>3, <1>4, <1>5 DEF StackStep

\* So do those of instructions.
LEMMA InstructionStepKeepsOrEnds ==
  ASSUME TypeOK, InstructionStep
  PROVE  Keeps(op') \/ Ends
<1>1. Keeps(Now)
  BY NowKeeps
<1>2. \A v : Keeps([Now EXCEPT !.data = v]) /\ Keeps([Now EXCEPT !.offset = v])
             /\ Keeps([Now EXCEPT !.old_pc = v])
  BY <1>1, KeepsUpdated
<1>3. CASE \/ f_imm \/ f_addr \/ f_indexed_reread_fixed \/ write_data_and_finish
           \/ f_store \/ tas_indexed_rewrite_fixed \/ f_acc \/ f_imp
           \/ jmp_abs_finish \/ jsr_abs \/ jmp_ind \/ rts_finish
           \/ branch_page_fix
  BY <1>3, FinishClears DEF f_imm, f_addr, f_indexed_reread_fixed,
     write_data_and_finish, f_store, tas_indexed_rewrite_fixed, f_acc, f_imp,
     jmp_abs_finish, jsr_abs, JumpAbsolute, jmp_ind, rts_finish,
     branch_page_fix, Ends, EndingKinds, FinishingKinds
<1>4. CASE f_indexed_read_maybe_finish \/ tas_indexed_read_maybe_finish
  BY <1>1, <1>4, FinishClears DEF f_indexed_read_maybe_finish,
     tas_indexed_read_maybe_finish, Continue, Ends, EndingKinds
<1>5. CASE read_addr_data \/ f_dummy_write_and_compute
  BY <1>2, <1>5 DEF read_addr_data, f_dummy_write_and_compute
<1>6. CASE f_fetch_offset
  <2>1. op' = ZeroOp \/ \E v : op' = [Now EXCEPT !.offset = v]
    BY <1>6 DEF f_fetch_offset
  <2>2. ZeroOp.def = NULL
    BY DEF ZeroOp
  <2> QED BY <1>2, <1>6, <2>1, <2>2 DEF f_fetch_offset, Ends, EndingKinds
<1>7. CASE branch_op
  <2>1. [ZeroOp EXCEPT !.old_pc = cpu.PC].def = NULL
    BY DEF ZeroOp
  <2>2. \/ op' = [ZeroOp EXCEPT !.old_pc = cpu.PC]
        \/ op' = [Now EXCEPT !.old_pc = cpu.PC]
    BY <1>7 DEF branch_op
  <2> QED BY <1>2, <1>7, <2>1, <2>2 DEF branch_op, Ends, EndingKinds
<1> QED BY <1>3, <1>4, <1>5, <1>6, <1>7 DEF InstructionStep

\* Every micro-operation but the jam.
LEMMA StepKeepsOrEnds ==
  ASSUME TypeOK, AddressStep \/ StackStep \/ InstructionStep
  PROVE  Keeps(op') \/ Ends
BY AddressStepKeeps, StackStepKeepsOrEnds, InstructionStepKeepsOrEnds

-----------------------------------------------------------------------------
(* The place in the micro-program *)

\* In the programs of a reset and of an NMI only the last micro-operation
\* ends: the read of the high byte of the vector.
LEMMA SequencesEndLast ==
  /\ \A i \in 1 .. Len(ResetSequence) :
       ResetSequence[i].kind \in EndingKinds =>
         i = Len(ResetSequence) /\ ResetSequence[i].kind = "read_reset_high_finish"
  /\ \A i \in 1 .. Len(NmiSequence) :
       NmiSequence[i].kind \in EndingKinds =>
         i = Len(NmiSequence) /\ NmiSequence[i].kind = "read_nmi_high_finish"
BY DEF ResetSequence, NmiSequence, Do, EndingKinds, FinishingKinds

\* The OpDefs are distinct.
LEMMA OpDefsDistinct ==
  /\ reset_sequence # NULL /\ nmi_sequence # NULL
  /\ reset_sequence # nmi_sequence
  /\ reset_sequence \notin Opcode /\ nmi_sequence \notin Opcode
  /\ micro_ops(reset_sequence) = ResetSequence
  /\ micro_ops(nmi_sequence) = NmiSequence
BY DEF reset_sequence, nmi_sequence, NULL, Opcode, micro_ops

\* A running CPU is at one of the micro-operations of its program.
LEMMA PlaceTyped ==
  ASSUME IInv, ~jammed, op.def # NULL
  PROVE  /\ op.def \in OpDef /\ Len(micro_ops(op.def)) \in 1 .. 7
         /\ op.cycle \in 0 .. 6 /\ op.cycle < Len(micro_ops(op.def))
         /\ Left = Len(micro_ops(op.def)) - op.cycle /\ Left \in 1 .. 7
<1>1. op.def \in OpDef /\ op.cycle \in Byte
  BY DEF IInv, TypeOK, OpState
<1>2. Len(micro_ops(op.def)) \in 1 .. 7
  BY <1>1, MicroProgramsWellFormed DEF WellFormed
<1>3. op.cycle < Len(micro_ops(op.def))
  BY DEF IInv, NoNullDispatch
<1>4. Left = Len(micro_ops(op.def)) - op.cycle
  BY DEF Left
<1>5. op.cycle \in Int /\ op.cycle >= 0
  BY <1>1, Bounds
<1>6. op.cycle \in 0 .. 6 /\ Len(micro_ops(op.def)) - op.cycle \in 1 .. 7
  <2> DEFINE length == Len(micro_ops(op.def))
             cycle  == op.cycle
  <2> HIDE DEF length, cycle
  <2>1. length \in 1 .. 7 /\ cycle \in Int /\ cycle >= 0 /\ cycle < length
    BY <1>2, <1>3, <1>5 DEF length, cycle
  <2>2. cycle \in 0 .. 6 /\ length - cycle \in 1 .. 7
    BY <2>1
  <2> QED BY <2>2 DEF length, cycle
<1> QED BY <1>1, <1>2, <1>3, <1>4, <1>6

\* A program that goes on has one micro-operation less to come.
LEMMA KeepsMoves ==
  ASSUME IInv, IInv', ~jammed, ~jammed', op.def # NULL, Selected = op, Keeps(op')
  PROVE  Left > 1 /\ Left' = Left - 1 /\ Doing' = Doing
<1>1. op'.def = op.def /\ op'.cycle = U8(op.cycle + 1)
  BY NowTyped DEF Keeps, IInv
<1>2. /\ Len(micro_ops(op.def)) \in 1 .. 7 /\ op.cycle \in 0 .. 6
      /\ Left = Len(micro_ops(op.def)) - op.cycle
  BY PlaceTyped
<1>3. op'.cycle = op.cycle + 1
  BY <1>1, <1>2, Bounds DEF U8
<1>4. Left' = Len(micro_ops(op'.def)) - op'.cycle
  BY <1>1 DEF Left
<1>5. op'.cycle < Len(micro_ops(op'.def))
  BY <1>1 DEF IInv, NoNullDispatch
<1>6. Left > 1 /\ Left' = Left - 1
  BY <1>1, <1>2, <1>3, <1>4, <1>5
<1>7. Doing' = Doing
  BY <1>1 DEF Doing
<1> QED BY <1>6, <1>7

\* One that ends has no more, and was not in the middle of an interrupt.
LEMMA EndsLast ==
  ASSUME IInv, ~jammed, ~jammed', op.def # NULL, Selected = op, Ends
  PROVE  /\ Doing' = "nothing" /\ Left' = 0
         /\ Left = 1 \/ (Left > 1 /\ Doing = "instruction")
         /\ Doing = "reset" => Executes("read_reset_high_finish")
<1>1. Doing' = "nothing" /\ Left' = 0
  BY DEF Ends, Doing, Left
<1>2. PICK kind \in EndingKinds : Executes(kind)
  BY DEF Ends
<1>3. /\ op.cycle + 1 \in 1 .. Len(micro_ops(op.def))
      /\ micro_ops(op.def)[op.cycle + 1].kind = kind
  BY <1>2, ExecutedTyped
<1>4. /\ Left = Len(micro_ops(op.def)) - op.cycle /\ Left \in 1 .. 7
      /\ op.cycle \in 0 .. 6 /\ Len(micro_ops(op.def)) \in 1 .. 7
  BY PlaceTyped
<1>5. CASE op.def = reset_sequence
  <2>1. op.cycle + 1 = Len(micro_ops(op.def)) /\ kind = "read_reset_high_finish"
    BY <1>2, <1>3, <1>5, SequencesEndLast, OpDefsDistinct
  <2>2. Left = 1
    BY <1>4, <2>1
  <2> QED BY <1>1, <1>2, <2>1, <2>2
<1>6. CASE op.def = nmi_sequence
  <2>1. op.cycle + 1 = Len(micro_ops(op.def))
    BY <1>2, <1>3, <1>6, SequencesEndLast, OpDefsDistinct
  <2>2. Left = 1
    BY <1>4, <2>1
  <2>3. Doing = "nmi"
    BY <1>6, OpDefsDistinct DEF Doing
  <2> QED BY <1>1, <2>2, <2>3
<1>7. CASE op.def # reset_sequence /\ op.def # nmi_sequence
  <2>1. Doing = "instruction"
    BY <1>7 DEF Doing
  <2>2. Left = 1 \/ Left > 1
    BY <1>4
  <2> QED BY <1>1, <2>1, <2>2
<1> QED BY <1>5, <1>6, <1>7

-----------------------------------------------------------------------------
(* The steps of the sequencer *)

\* Only the jam sets jammed.
MicroStep == AddressStep \/ StackStep \/ InstructionStep

\* The tick in which a reset strikes executes the dummy at its start.
LEMMA ResetStarts ==
  ASSUME reset_requested, MicroStep \/ kil_imp
  PROVE  ~jammed /\ op' = Now /\ Now.def = reset_sequence /\ Now.cycle = U8(1)
         /\ NoAccess /\ UNCHANGED cpu /\ ~kil_imp
<1>1. Selected = [ZeroOp EXCEPT !.def = reset_sequence]
  BY DEF Selected
<1>2. Selected.def = reset_sequence /\ Selected.cycle = 0
  BY <1>1 DEF ZeroOp
<1>3. Now.def = reset_sequence /\ Now.cycle = U8(1)
  BY <1>1 DEF Now, ZeroOp
<1>4. ASSUME NEW kind, Executes(kind)
      PROVE  kind = "dummy"
  <2>1. micro_ops(reset_sequence)[1].kind = "dummy"
    BY DEF micro_ops, ResetSequence, Do
  <2> QED BY <1>2, <1>4, <2>1 DEF Executes
<1>5. ~kil_imp
  BY <1>4 DEF kil_imp
<1>6. ~StackStep
  BY <1>4 DEF StackStep, inc_sp, dec_sp, push_pc_high, push_pc_low,
     push_p_with_break, push_p_without_break, pull_p, pull_pc_low,
     pull_pc_high_no_inc, pull_pc_high_finish, php_imp, pha_imp, plp_imp,
     pla_imp, read_irq_low, read_irq_high_finish, read_nmi_low,
     read_nmi_high_finish, read_reset_low, read_reset_high_finish,
     VectorLow, VectorHighFinish
<1>7. ~InstructionStep
  BY <1>4 DEF InstructionStep, f_imm, f_addr, f_indexed_read_maybe_finish,
     f_indexed_reread_fixed, read_addr_data, f_dummy_write_and_compute,
     write_data_and_finish, f_store, tas_indexed_read_maybe_finish,
     tas_indexed_rewrite_fixed, f_acc, f_imp, jmp_abs_finish, jsr_abs,
     JumpAbsolute, jmp_ind, rts_finish, f_fetch_offset, branch_op,
     branch_page_fix
<1>8. AddressStep => dummy
  BY <1>4 DEF AddressStep, dummy_pc_read, dummy_pc_read_and_inc,
     dummy_stack_read, dummy_temp_addr_read, read_pc_addr_low,
     read_pc_addr_low_add_x, read_pc_addr_low_add_y, read_pc_addr_high,
     read_pc_addr_high_add_x, read_pc_addr_high_add_y, fetch_ptr,
     read_ptr_add_x, read_ptr_addr_low, read_ptr_addr_high,
     read_ptr_addr_high_add_y, fetch_pointer_addr_low
<1>9. dummy
  BY <1>5, <1>6, <1>7, <1>8 DEF MicroStep
<1> QED BY <1>3, <1>5, <1>9 DEF dummy, Continue, Executes

\* The place after the first tick of a reset or an NMI.
LEMMA SequenceBegun ==
  ASSUME ~jammed', op' = Now, Now.cycle = U8(1), NEW sequence,
         Now.def = sequence, sequence \in {reset_sequence, nmi_sequence}
  PROVE  /\ sequence = reset_sequence =>
              Doing' = "reset" /\ Left' = Len(ResetSequence) - 1
         /\ sequence = nmi_sequence =>
              Doing' = "nmi" /\ Left' = Len(NmiSequence) - 1
<1>1. U8(1) = 1
  BY Bounds DEF U8
<1>2. op'.def = sequence /\ op'.cycle = 1
  BY <1>1
<1> QED BY <1>2, OpDefsDistinct DEF Doing, Left

\* The latches after a micro-operation.
LEMMA MicroStepCallsBack ==
  ASSUME IInv', ~NmiTaken, MicroStep \/ Fetch
  PROVE  Sequencer!Callback
<1>1. nmi_requested => nmi_requested'
  BY TickKeepsNmi DEF MicroStep
<1> QED BY <1>1 DEF IInv, TypeOK, Sequencer!Callback

\* How long the NMI has waited.
LEMMA TickWaitsOn ==
  ASSUME TickWaits, ~jammed, ~reset_requested, ~NmiTaken
  PROVE  Sequencer!Waits
BY DEF TickWaits, Sequencer!Waits

\* A reset strikes.
LEMMA TickStartsReset ==
  ASSUME IInv, IInv', TickWaits, reset_requested, MicroStep, UNCHANGED jammed
  PROVE  Sequencer!StartReset
<1>1. /\ ~jammed /\ op' = Now /\ Now.def = reset_sequence /\ Now.cycle = U8(1)
      /\ NoAccess
  BY ResetStarts
<1>2. Doing' = "reset" /\ Left' = Len(ResetSequence) - 1
  BY <1>1, SequenceBegun
<1>3. Sequencer!Callback
  BY MicroStepCallsBack DEF NmiTaken
<1>4. waited' = 0 /\ Doing # "jammed"
  <2>1. waited' = 0
    BY <1>1 DEF TickWaits
  <2>2. Doing # "jammed"
    BY <1>1 DEF Doing
  <2> QED BY <2>1, <2>2
<1> QED BY <1>2, <1>3, <1>4 DEF Sequencer!StartReset

\* An NMI is taken.
LEMMA TickStartsNmi ==
  ASSUME IInv, IInv', TickWaits, NmiTaken, MicroStep, UNCHANGED jammed
  PROVE  Sequencer!StartNmi
<1>1. dummy_pc_read
  BY OnlyPcReadTakesNmi DEF MicroStep
<1>2. ~jammed /\ op' = Now
  BY <1>1 DEF dummy_pc_read, Executes, Continue
<1>3. Now.def = nmi_sequence /\ Now.cycle = U8(1)
  <2>1. Selected = [ZeroOp EXCEPT !.def = nmi_sequence]
    BY DEF NmiTaken, Selected
  <2> QED BY <2>1 DEF Now, ZeroOp
<1>4. Doing' = "nmi" /\ Left' = Len(NmiSequence) - 1
  BY <1>2, <1>3, SequenceBegun
<1>5. waited' = 0 /\ Doing = "nothing"
  <2>1. waited' = 0
    BY <1>2 DEF TickWaits
  <2>2. Doing = "nothing"
    BY <1>2 DEF Doing, NmiTaken
  <2> QED BY <2>1, <2>2
<1>6. reset_requested' \in BOOLEAN /\ nmi_requested' \in BOOLEAN
  BY DEF IInv, TypeOK
<1> QED BY <1>4, <1>5, <1>6 DEF Sequencer!StartNmi, NmiTaken

\* An opcode is fetched.
LEMMA TickFetches ==
  ASSUME IInv, IInv', TickWaits, Fetch, UNCHANGED jammed
  PROVE  Sequencer!Fetch
<1>1. /\ ~jammed /\ ~reset_requested /\ ~NmiTaken /\ ~nmi_requested
      /\ op.def = NULL /\ Selected = op
  BY OpDefsDistinct DEF Fetch, Selected, NmiTaken, ZeroOp, IInv, TypeOK, OpState
<1>2. PICK opcode \in BusData(cpu.PC) :
        Reads(cpu.PC, opcode) /\ op' = [op EXCEPT !.def = opcode]
  BY DEF Fetch
<1>3. opcode \in Opcode
  BY <1>2, WordsTyped, ReadPreserves, Bounds DEF Opcode, IInv
<1>4. op'.def = opcode /\ op'.cycle = 0
  <2>1. op = [ZeroOp EXCEPT !.old_pc = op.old_pc]
    BY <1>1 DEF IInv, CleanBoundary
  <2>2. op.cycle = 0
    BY <2>1 DEF ZeroOp
  <2> QED BY <1>2, <2>2 DEF IInv, TypeOK, OpState
<1>5. opcode # NULL /\ opcode # reset_sequence /\ opcode # nmi_sequence
  BY <1>3, OpDefsDistinct DEF Opcode, NULL
<1>6. Doing = "nothing" /\ Doing' = "instruction"
  BY <1>1, <1>4, <1>5 DEF Doing
<1>7. Left' \in 1 .. 7
  <2> DEFINE length == Len(micro_ops(opcode))
  <2>1. length \in 1 .. 7
    BY <1>3, MicroProgramsWellFormed DEF OpDef, WellFormed
  <2>2. Left' = length - 0
    BY <1>1, <1>4, <1>5 DEF Left
  <2> HIDE DEF length
  <2> QED BY <2>1, <2>2
<1>8. Sequencer!Callback
  BY <1>1, MicroStepCallsBack
<1>9. Sequencer!Waits
  BY <1>1, TickWaitsOn
<1> QED BY <1>1, <1>6, <1>7, <1>8, <1>9 DEF Sequencer!Fetch

\* The read that ends a reset also drops a reset requested in it.
LEMMA ResetEndDropsReset ==
  ASSUME MicroStep, Executes("read_reset_high_finish")
  PROVE  ~reset_requested'
<1>1. ASSUME NEW kind, Executes(kind)
      PROVE  kind = "read_reset_high_finish"
  BY <1>1 DEF Executes
<1>2. ~AddressStep
  BY <1>1 DEF AddressStep, dummy, dummy_pc_read, dummy_pc_read_and_inc,
     dummy_stack_read, dummy_temp_addr_read, read_pc_addr_low,
     read_pc_addr_low_add_x, read_pc_addr_low_add_y, read_pc_addr_high,
     read_pc_addr_high_add_x, read_pc_addr_high_add_y, fetch_ptr,
     read_ptr_add_x, read_ptr_addr_low, read_ptr_addr_high,
     read_ptr_addr_high_add_y, fetch_pointer_addr_low
<1>3. ~InstructionStep
  BY <1>1 DEF InstructionStep, f_imm, f_addr, f_indexed_read_maybe_finish,
     f_indexed_reread_fixed, read_addr_data, f_dummy_write_and_compute,
     write_data_and_finish, f_store, tas_indexed_read_maybe_finish,
     tas_indexed_rewrite_fixed, f_acc, f_imp, jmp_abs_finish, jsr_abs,
     JumpAbsolute, jmp_ind, rts_finish, f_fetch_offset, branch_op,
     branch_page_fix
<1>4. StackStep => read_reset_high_finish
  BY <1>1 DEF StackStep, inc_sp, dec_sp, push_pc_high, push_pc_low,
     push_p_with_break, push_p_without_break, pull_p, pull_pc_low,
     pull_pc_high_no_inc, pull_pc_high_finish, php_imp, pha_imp, plp_imp,
     pla_imp, read_irq_low, read_irq_high_finish, read_nmi_low,
     read_nmi_high_finish, read_reset_low, VectorLow, VectorHighFinish
<1>5. read_reset_high_finish
  BY <1>2, <1>3, <1>4 DEF MicroStep
<1> QED BY <1>5 DEF read_reset_high_finish

\* A micro-operation of a program in progress.
LEMMA TickGoesOn ==
  ASSUME IInv, IInv', TickWaits, MicroStep, UNCHANGED jammed,
         ~reset_requested, ~NmiTaken
  PROVE  Sequencer!Proceed \/ Sequencer!Complete
<1>1. ~jammed /\ Selected = op /\ op.def # NULL
  <2>1. Selected = op
    BY DEF Selected
  <2>2. \E kind : Executes(kind)
    BY DEF MicroStep, AddressStep, StackStep, InstructionStep, dummy,
     dummy_pc_read, dummy_pc_read_and_inc, dummy_stack_read,
     dummy_temp_addr_read, read_pc_addr_low, read_pc_addr_low_add_x,
     read_pc_addr_low_add_y, read_pc_addr_high, read_pc_addr_high_add_x,
     read_pc_addr_high_add_y, fetch_ptr, read_ptr_add_x, read_ptr_addr_low,
     read_ptr_addr_high, read_ptr_addr_high_add_y, fetch_pointer_addr_low,
     inc_sp, dec_sp, push_pc_high, push_pc_low,
     push_p_with_break, push_p_without_break, pull_p, pull_pc_low,
     pull_pc_high_no_inc, pull_pc_high_finish, php_imp, pha_imp, plp_imp,
     pla_imp, read_irq_low, read_irq_high_finish, read_nmi_low,
     read_nmi_high_finish, read_reset_low, read_reset_high_finish,
     VectorLow, VectorHighFinish, f_imm, f_addr, f_indexed_read_maybe_finish,
     f_indexed_reread_fixed, read_addr_data, f_dummy_write_and_compute,
     write_data_and_finish, f_store, tas_indexed_read_maybe_finish,
     tas_indexed_rewrite_fixed, f_acc, f_imp, jmp_abs_finish, jsr_abs,
     JumpAbsolute, jmp_ind, rts_finish, f_fetch_offset, branch_op,
     branch_page_fix
  <2> QED BY <2>1, <2>2 DEF Executes
<1>2. Sequencer!Callback /\ Sequencer!Waits
  BY <1>1, MicroStepCallsBack, TickWaitsOn
<1>3. Keeps(op') \/ Ends
  BY StepKeepsOrEnds DEF MicroStep, IInv
<1>4. CASE Keeps(op')
  <2>1. Left > 1 /\ Left' = Left - 1 /\ Doing' = Doing
    BY <1>1, <1>4, KeepsMoves
  <2> QED BY <1>2, <2>1 DEF Sequencer!Proceed
<1>5. CASE Ends
  <2>1. /\ Doing' = "nothing" /\ Left' = 0
        /\ Left = 1 \/ (Left > 1 /\ Doing = "instruction")
        /\ Doing = "reset" => Executes("read_reset_high_finish")
    BY <1>1, <1>5, EndsLast
  <2>2. Executes("read_reset_high_finish") => ~reset_requested'
    BY ResetEndDropsReset DEF MicroStep
  <2> QED BY <1>2, <2>1, <2>2 DEF Sequencer!Complete
<1> QED BY <1>3, <1>4, <1>5

\* The CPU jams.
LEMMA TickJams ==
  ASSUME IInv, TickWaits, kil_imp
  PROVE  Sequencer!Jam
<1>1. /\ Executes("kil_imp") /\ ~jammed /\ jammed' = TRUE /\ ~reset_requested
      /\ NoAccess
  BY ResetStarts DEF kil_imp, Executes
<1>2. ~NmiTaken
  BY <1>1, NmiStartsWithPcRead
<1>3. Selected = op /\ op.def # NULL
  BY <1>1, <1>2 DEF Selected, Executes
<1>4. /\ op.cycle + 1 \in 1 .. Len(micro_ops(op.def))
      /\ micro_ops(op.def)[op.cycle + 1].kind = "kil_imp"
  BY <1>1, <1>3, ExecutedTyped
<1>5. op.def # reset_sequence /\ op.def # nmi_sequence
  BY <1>4, SequencesEndLast, OpDefsDistinct DEF EndingKinds, FinishingKinds
<1>6. Left = 1
  <2>1. op.def \in OpDef /\ op.cycle \in 0 .. 6
        /\ Len(micro_ops(op.def)) \in 1 .. 7
        /\ Left = Len(micro_ops(op.def)) - op.cycle
    BY <1>1, <1>3, PlaceTyped
  <2>2. op.cycle + 1 = Len(micro_ops(op.def))
    BY <1>4, <1>5, <2>1, MicroProgramsWellFormed DEF Ordinary
  <2> QED BY <2>1, <2>2
<1>7. Doing = "instruction" /\ Doing' = "jammed" /\ Left' = 0
  BY <1>1, <1>3, <1>5 DEF Doing, Left
<1>8. UNCHANGED <<reset_requested, nmi_requested>>
  BY <1>1, <1>2 DEF NoAccess, Latched, IInv, TypeOK
<1>9. Sequencer!Waits
  BY <1>1, <1>2, TickWaitsOn
<1> QED BY <1>1, <1>6, <1>7, <1>8, <1>9 DEF Sequencer!Jam

\* What the host does between two ticks, and the ticks of a jammed CPU.
LEMMA HostSequenced ==
  ASSUME \/ SequencedCall
         \/ TickJammed /\ TickWaits
         \/ UNCHANGED sequencedvars
  PROVE  [Sequencer!RequestReset \/ Sequencer!RequestNmi]_(Sequencer!seqvars)
<1>1. UNCHANGED <<op, jammed, waited>>
  BY DEF SequencedCall, cpu6502_reset, cpu6502_nmi, cpu6502_set_pc, TickJammed,
     TickWaits, sequencedvars, vars
<1>2. Doing' = Doing /\ Left' = Left
  BY <1>1 DEF Doing, Left
<1>3. CASE cpu6502_reset
  BY <1>1, <1>2, <1>3 DEF cpu6502_reset, Sequencer!RequestReset
<1>4. CASE cpu6502_nmi
  BY <1>1, <1>2, <1>4 DEF cpu6502_nmi, Sequencer!RequestNmi
<1>5. CASE cpu6502_set_pc \/ TickJammed \/ UNCHANGED sequencedvars
  BY <1>1, <1>2, <1>5 DEF cpu6502_set_pc, TickJammed, sequencedvars, vars,
     Sequencer!seqvars
<1> QED BY <1>3, <1>4, <1>5 DEF SequencedCall

\* Every step is a step of the sequencer or changes nothing of it.
LEMMA StepSequenced ==
  ASSUME IInv, IInv', [SequencedTick \/ SequencedCall]_sequencedvars
  PROVE  [Sequencer!Next]_(Sequencer!seqvars)
<1>1. CASE SequencedTick
  <2>1. CASE TickJammed
    BY <1>1, <2>1, HostSequenced DEF SequencedTick, Sequencer!Next
  <2>2. CASE kil_imp
    BY <1>1, <2>2, TickJams DEF SequencedTick, Sequencer!Next, Sequencer!Tick
  <2>3. CASE Fetch /\ UNCHANGED jammed
    BY <1>1, <2>3, TickFetches DEF SequencedTick, Sequencer!Next, Sequencer!Tick
  <2>4. CASE MicroStep /\ UNCHANGED jammed
    <3>1. CASE reset_requested
      BY <1>1, <2>4, <3>1, TickStartsReset
         DEF SequencedTick, Sequencer!Next, Sequencer!Tick
    <3>2. CASE NmiTaken
      BY <1>1, <2>4, <3>2, TickStartsNmi
         DEF SequencedTick, Sequencer!Next, Sequencer!Tick
    <3>3. CASE ~reset_requested /\ ~NmiTaken
      BY <1>1, <2>4, <3>3, TickGoesOn
         DEF SequencedTick, Sequencer!Next, Sequencer!Tick
    <3> QED BY <3>1, <3>2, <3>3
  <2> QED BY <1>1, <2>1, <2>2, <2>3, <2>4
          DEF SequencedTick, cpu6502_tick, MicroStep
<1>2. CASE SequencedCall \/ UNCHANGED sequencedvars
  BY <1>2, HostSequenced DEF Sequencer!Next
<1> QED BY <1>1, <1>2

\* It starts with nothing to do.
LEMMA InitSequenced ==
  ASSUME SequencedInit
  PROVE  Sequencer!Init
<1>1. op.def = NULL /\ ~jammed
  BY DEF SequencedInit, cpu6502_init, ZeroOp
<1> QED BY <1>1 DEF SequencedInit, cpu6502_init, Doing, Left, Sequencer!Init

\* The invariant of the CPU, with the history variable.
LEMMA SequencedInvariant == SequencedSpec => []IInv
<1>1. SequencedInit => IInv
  BY InitTyped DEF SequencedInit
<1>2. IInv /\ [SequencedTick \/ SequencedCall]_sequencedvars => IInv'
  BY NextPreserves DEF SequencedTick, SequencedCall, Next, sequencedvars, vars
<1> QED BY <1>1, <1>2, PTL DEF SequencedSpec

\* cpu6502_tick and the calls of the host implement the sequencer: an
\* interrupt runs to its last micro-operation, an instruction at most to it, a
\* reset strikes at once and an NMI at the next boundary, and no request is
\* lost or invented, for any memory, any data and any host.
THEOREM CpuImplementsSequencer == SequencedSpec => ImplementsSequencer
<1>1. SequencedInit => Sequencer!Init
  BY InitSequenced
<1>2. IInv /\ IInv' /\ [SequencedTick \/ SequencedCall]_sequencedvars =>
        [Sequencer!Next]_(Sequencer!seqvars)
  BY StepSequenced
<1> QED BY <1>1, <1>2, SequencedInvariant, PTL
        DEF SequencedSpec, ImplementsSequencer, Sequencer!Spec

-----------------------------------------------------------------------------
(* What is proved of the sequencer holds of the CPU *)

Proved == INSTANCE SequencerProofs
  WITH MaxOps   <- 7,
       ResetOps <- Len(ResetSequence),
       NmiOps   <- Len(NmiSequence),
       doing    <- Doing,
       left     <- Left,
       reset    <- reset_requested,
       nmi      <- nmi_requested

\* The lengths that the sequencer is given.
LEMMA SequenceLengths == Proved!OpsAssumption
BY DEF Proved!OpsAssumption, ResetSequence, NmiSequence

\* An NMI latched in a CPU that runs is taken within seven ticks, counted from
\* its request or from the start of the last reset, whatever the program, the
\* data on the bus and the requests that come after it.
THEOREM NmiTakenInTime == SequencedSpec => []NmiWithinSevenTicks
<1>1. Sequencer!Spec => Proved!Spec
  <2>1. Sequencer!Init => Proved!Init
    BY DEF Sequencer!Init, Proved!Init
  <2>2. [Sequencer!Next]_(Sequencer!seqvars) => [Proved!Next]_(Proved!seqvars)
    <3>1. Sequencer!Tick => Proved!Tick
      BY DEF Sequencer!Tick, Proved!Tick, Sequencer!StartReset,
         Proved!StartReset, Sequencer!StartNmi, Proved!StartNmi,
         Sequencer!Fetch, Proved!Fetch, Sequencer!Proceed, Proved!Proceed,
         Sequencer!Complete, Proved!Complete, Sequencer!Jam, Proved!Jam,
         Sequencer!Callback, Proved!Callback, Sequencer!Waits, Proved!Waits
    <3>2. /\ Sequencer!RequestReset => Proved!RequestReset
          /\ Sequencer!RequestNmi => Proved!RequestNmi
      BY DEF Sequencer!RequestReset, Proved!RequestReset,
         Sequencer!RequestNmi, Proved!RequestNmi
    <3>3. Sequencer!seqvars = Proved!seqvars /\ Sequencer!seqvars' = Proved!seqvars'
      BY DEF Sequencer!seqvars, Proved!seqvars
    <3> QED BY <3>1, <3>2, <3>3 DEF Sequencer!Next, Proved!Next
  <2> QED BY <2>1, <2>2, PTL DEF Sequencer!Spec, Proved!Spec
<1>2. Proved!Spec => []Proved!NmiLatency
  BY Proved!NmiWaitsBounded, SequenceLengths
<1>3. Proved!NmiLatency => NmiWithinSevenTicks
  BY DEF Proved!NmiLatency, NmiWithinSevenTicks
<1> QED BY <1>1, <1>2, <1>3, CpuImplementsSequencer, PTL DEF ImplementsSequencer

=============================================================================
