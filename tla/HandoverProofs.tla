--------------------------- MODULE HandoverProofs ---------------------------
(***************************************************************************)
(* What one micro-operation leaves for a later one, in op, in the status   *)
(* and in SP, is what the later one relies on: the address of an operand,  *)
(* the raw status of an RTI, the start of a reset.                         *)
(***************************************************************************)
EXTENDS ResetHistory, SequencingProofs

-----------------------------------------------------------------------------
(* The micro-operation of a tick *)

\* A tick executes one micro-operation.
LEMMA OneKind ==
  ASSUME NEW k1, NEW k2, Executes(k1), Executes(k2)
  PROVE  k1 = k2
BY DEF Executes

AddressKinds ==
  {"dummy", "dummy_pc_read", "dummy_pc_read_and_inc", "dummy_stack_read",
   "dummy_temp_addr_read", "read_pc_addr_low", "read_pc_addr_low_add_x",
   "read_pc_addr_low_add_y", "read_pc_addr_high", "read_pc_addr_high_add_x",
   "read_pc_addr_high_add_y", "fetch_ptr", "read_ptr_add_x",
   "read_ptr_addr_low", "read_ptr_addr_high", "read_ptr_addr_high_add_y",
   "fetch_pointer_addr_low"}

StackKinds ==
  {"inc_sp", "dec_sp", "push_pc_high", "push_pc_low", "push_p_with_break",
   "push_p_without_break", "pull_p", "pull_pc_low", "pull_pc_high_no_inc",
   "pull_pc_high_finish", "php_imp", "pha_imp", "plp_imp", "pla_imp",
   "read_irq_low", "read_irq_high_finish", "read_nmi_low",
   "read_nmi_high_finish", "read_reset_low", "read_reset_high_finish"}

InstructionKinds ==
  {"imm", "addr", "indexed_read_maybe_finish", "indexed_reread_fixed",
   "read_addr_data", "dummy_write_and_compute", "write_data_and_finish",
   "store", "tas_indexed_read_maybe_finish", "tas_indexed_rewrite_fixed",
   "acc", "imp", "jmp_abs_finish", "jsr_abs", "jmp_ind", "rts_finish",
   "fetch_offset", "branch_op", "branch_page_fix"}

\* Every action is the one of its function.
LEMMA StepKinds ==
  /\ AddressStep => \E kind \in AddressKinds : Executes(kind)
  /\ StackStep => \E kind \in StackKinds : Executes(kind)
  /\ InstructionStep => \E kind \in InstructionKinds : Executes(kind)
<1>1. AddressStep => \E kind \in AddressKinds : Executes(kind)
  BY DEF AddressKinds, AddressStep, dummy, dummy_pc_read,
     dummy_pc_read_and_inc, dummy_stack_read, dummy_temp_addr_read,
     read_pc_addr_low, read_pc_addr_low_add_x, read_pc_addr_low_add_y,
     read_pc_addr_high, read_pc_addr_high_add_x, read_pc_addr_high_add_y,
     fetch_ptr, read_ptr_add_x, read_ptr_addr_low, read_ptr_addr_high,
     read_ptr_addr_high_add_y, fetch_pointer_addr_low
<1>2. StackStep => \E kind \in StackKinds : Executes(kind)
  BY DEF StackKinds, StackStep, inc_sp, dec_sp, push_pc_high, push_pc_low,
     push_p_with_break, push_p_without_break, pull_p, pull_pc_low,
     pull_pc_high_no_inc, pull_pc_high_finish, php_imp, pha_imp, plp_imp,
     pla_imp, read_irq_low, read_irq_high_finish, read_nmi_low,
     read_nmi_high_finish, read_reset_low, read_reset_high_finish,
     VectorLow, VectorHighFinish
<1>3. InstructionStep => \E kind \in InstructionKinds : Executes(kind)
  BY DEF InstructionKinds, InstructionStep, f_imm, f_addr,
     f_indexed_read_maybe_finish, f_indexed_reread_fixed, read_addr_data,
     f_dummy_write_and_compute, write_data_and_finish, f_store,
     tas_indexed_read_maybe_finish, tas_indexed_rewrite_fixed, f_acc, f_imp,
     jmp_abs_finish, jsr_abs, JumpAbsolute, jmp_ind, rts_finish,
     f_fetch_offset, branch_op, branch_page_fix
<1> QED BY <1>1, <1>2, <1>3

\* The actions that the micro-programs of a reset and of an RTI use.
LEMMA ActionOfKind ==
  ASSUME MicroStep, NEW kind, Executes(kind)
  PROVE  /\ kind = "dummy" => dummy
         /\ kind = "dec_sp" => dec_sp
         /\ kind = "read_reset_low" => read_reset_low
         /\ kind = "read_reset_high_finish" => read_reset_high_finish
         /\ kind = "pull_pc_low" => pull_pc_low
         /\ kind = "pull_pc_high_finish" => pull_pc_high_finish
<1>1. ASSUME NEW k, Executes(k)
      PROVE  k = kind
  BY <1>1, OneKind
<1>2. CASE AddressStep
  <2>1. kind \in AddressKinds
    BY <1>1, <1>2, StepKinds
  <2>2. kind = "dummy" => dummy
    BY <1>1, <1>2 DEF AddressStep, dummy_pc_read, dummy_pc_read_and_inc,
       dummy_stack_read, dummy_temp_addr_read, read_pc_addr_low,
       read_pc_addr_low_add_x, read_pc_addr_low_add_y, read_pc_addr_high,
       read_pc_addr_high_add_x, read_pc_addr_high_add_y, fetch_ptr,
       read_ptr_add_x, read_ptr_addr_low, read_ptr_addr_high,
       read_ptr_addr_high_add_y, fetch_pointer_addr_low
  <2> QED BY <2>1, <2>2 DEF AddressKinds
<1>3. CASE StackStep
  <2>1. kind \in StackKinds
    BY <1>1, <1>3, StepKinds
  <2>2. /\ kind = "dec_sp" => dec_sp
        /\ kind = "read_reset_low" => read_reset_low
        /\ kind = "read_reset_high_finish" => read_reset_high_finish
        /\ kind = "pull_pc_low" => pull_pc_low
        /\ kind = "pull_pc_high_finish" => pull_pc_high_finish
    <3>1. /\ dec_sp => kind = "dec_sp"
          /\ read_reset_low => kind = "read_reset_low"
          /\ read_reset_high_finish => kind = "read_reset_high_finish"
          /\ pull_pc_low => kind = "pull_pc_low"
          /\ pull_pc_high_finish => kind = "pull_pc_high_finish"
      BY <1>1 DEF dec_sp, read_reset_low, VectorLow, read_reset_high_finish,
         pull_pc_low, pull_pc_high_finish
    <3>2. ASSUME \/ inc_sp \/ push_pc_high \/ push_pc_low
                 \/ push_p_with_break \/ push_p_without_break \/ pull_p
                 \/ pull_pc_high_no_inc \/ php_imp \/ pha_imp \/ plp_imp
                 \/ pla_imp \/ read_irq_low \/ read_irq_high_finish
                 \/ read_nmi_low \/ read_nmi_high_finish
          PROVE  kind \notin {"dec_sp", "read_reset_low", "pull_pc_low",
                              "read_reset_high_finish", "pull_pc_high_finish"}
      BY <1>1, <3>2 DEF inc_sp, push_pc_high, push_pc_low, push_p_with_break,
         push_p_without_break, pull_p, pull_pc_high_no_inc, php_imp, pha_imp,
         plp_imp, pla_imp, read_irq_low, read_irq_high_finish, read_nmi_low,
         read_nmi_high_finish, VectorLow, VectorHighFinish
    <3> QED BY <1>3, <3>1, <3>2 DEF StackStep
  <2> QED BY <2>1, <2>2 DEF StackKinds
<1>4. CASE InstructionStep
  <2>1. kind \in InstructionKinds
    BY <1>1, <1>4, StepKinds
  <2> QED BY <2>1 DEF InstructionKinds
<1> QED BY <1>2, <1>3, <1>4 DEF MicroStep

-----------------------------------------------------------------------------
(* The two copies of an address *)

AddrFields == {"addr", "addr_lo", "addr_hi"}

\* Both copies are the same.
Whole(o) == AddrFields \subseteq DOMAIN o /\ o.addr = full_addr(o)

SameAddress(o) ==
  o.addr = Selected.addr /\ o.addr_lo = Selected.addr_lo /\ o.addr_hi = Selected.addr_hi

\* An address is the one of its two bytes.
LEMMA HalvesAddUp == \A w \in Int : Address(LoByte(w), HiByte(w)) = w
BY DEF Address, LoByte, HiByte

\* An address that is set as a whole, with an index or without.
LEMMA WholeAddress ==
  ASSUME NEW o, AddrFields \subseteq DOMAIN o, NEW w \in Int, NEW index \in Int
  PROVE  Whole(SetAddress(o, w)) /\ Whole(Index(o, w, index))
<1>1. ASSUME NEW a \in Int PROVE Whole(SetAddress(o, a))
  <2>1. Address(LoByte(a), HiByte(a)) = a
    BY HalvesAddUp
  <2>2. /\ SetAddress(o, a).addr = a /\ SetAddress(o, a).addr_lo = LoByte(a)
        /\ SetAddress(o, a).addr_hi = HiByte(a)
        /\ AddrFields \subseteq DOMAIN SetAddress(o, a)
    BY DEF SetAddress, AddrFields
  <2> QED BY <2>1, <2>2 DEF Whole, full_addr
<1>2. Whole(Index(o, w, index))
  <2> DEFINE a == U16(w + index)
  <2>1. a \in Int
    BY DEF U16
  <2>2. Index(o, w, index) =
          [SetAddress(o, a) EXCEPT !.page_crossed = ~SamePage(w, a)]
    BY DEF Index
  <2> HIDE DEF a
  <2>3. Whole(SetAddress(o, a))
    BY <1>1, <2>1
  <2> QED BY <2>2, <2>3 DEF Whole, full_addr, AddrFields
<1> QED BY <1>1, <1>2

\* The address of the first read is in a field of its own.
LEMMA WholeWithTemp ==
  ASSUME NEW o, Whole(o), NEW w
  PROVE  Whole([o EXCEPT !.temp_addr = w]) /\ Whole(TempFromSum(o, w))
BY DEF Whole, full_addr, AddrFields, TempFromSum

\* The kinds of the micro-operations that ExpectsAddr holds of.
ExpectsKinds ==
  {"dummy_write_and_compute", "indexed_read_maybe_finish",
   "indexed_reread_fixed", "tas_indexed_read_maybe_finish",
   "tas_indexed_rewrite_fixed", "store", "read_addr_data",
   "dummy_temp_addr_read"}

\* What a micro-operation does with the address.
HandsOver(kind) ==
  /\ Executes(kind)
  /\ kind \in SetsAddrKinds => op'.addr = full_addr(op')
  /\ kind \in SetsZeroPageKinds =>
       op'.addr = op'.addr_lo /\ op'.addr_hi = Selected.addr_hi
  /\ kind \in ExpectsKinds => SameAddress(op') \/ op'.def = NULL

\* The two copies are set together.
LEMMA AddressStepHandsOver ==
  ASSUME IInv, AddressStep
  PROVE  \E kind : HandsOver(kind)
<1>1. Now \in OpState /\ AddrFields \subseteq DOMAIN Now /\ SameAddress(Now)
  <2>1. Now \in OpState /\ Selected \in OpState
    BY NowTyped DEF IInv
  <2>2. Now = [Selected EXCEPT !.cycle = U8(Selected.cycle + 1)]
    BY DEF Now
  <2> HIDE DEF Now, Selected
  <2>3. SameAddress(Now)
    BY <2>1, <2>2 DEF SameAddress, OpState
  <2> QED BY <2>1, <2>3 DEF OpState, AddrFields
<1> HIDE DEF Now
<1>2. /\ cpu.PC \in Word /\ U8(op.ptr + 1) \in Word
      /\ cpu.X \in Int /\ cpu.Y \in Int
  BY WordsTyped, WordsAreInt
<1>3. ASSUME NEW addr \in Word, NEW high \in BusData(addr)
      PROVE  Address(op.addr_lo, high) \in Int
  <2>1. high \in Byte
    BY <1>3, BusDataTyped DEF IInv
  <2> QED BY <2>1, OpTyped, AddressTyped, WordsAreInt DEF IInv
<1>4. ASSUME NEW high, Address(op.addr_lo, high) \in Int
      PROVE  Whole(AbsoluteAddress(high))
  BY <1>1, <1>4, WholeAddress DEF AbsoluteAddress
<1>5. ASSUME NEW kind \in SetsAddrKinds, Executes(kind), Whole(op')
      PROVE  HandsOver(kind)
  BY <1>5 DEF HandsOver, Whole, SetsAddrKinds, SetsZeroPageKinds, ExpectsKinds
<1>6. ASSUME NEW kind, Executes(kind),
             kind \notin SetsAddrKinds \cup SetsZeroPageKinds \cup ExpectsKinds
      PROVE  HandsOver(kind)
  BY <1>6 DEF HandsOver
<1>7. CASE dummy_temp_addr_read
  BY <1>1, <1>7 DEF dummy_temp_addr_read, Continue, HandsOver, SetsAddrKinds,
     SetsZeroPageKinds
<1>8. CASE read_pc_addr_low
  <2>1. PICK v : op' = [Now EXCEPT !.addr_lo = v, !.addr = v]
    BY <1>8 DEF read_pc_addr_low
  <2>2. op'.addr = v /\ op'.addr_lo = v /\ op'.addr_hi = Selected.addr_hi
    BY <1>1, <2>1 DEF SameAddress, AddrFields
  <2> QED BY <1>8, <2>2 DEF read_pc_addr_low, HandsOver, SetsAddrKinds, ExpectsKinds
<1>9. CASE read_pc_addr_low_add_x
  <2>1. PICK v : op' = [Now EXCEPT !.addr_lo = v, !.addr = v]
    BY <1>9 DEF read_pc_addr_low_add_x
  <2>2. op'.addr = v /\ op'.addr_lo = v /\ op'.addr_hi = Selected.addr_hi
    BY <1>1, <2>1 DEF SameAddress, AddrFields
  <2> QED BY <1>9, <2>2 DEF read_pc_addr_low_add_x, HandsOver, SetsAddrKinds,
          ExpectsKinds
<1>10. CASE read_pc_addr_high
  <2>1. PICK high \in BusData(cpu.PC) : op' = AbsoluteAddress(high)
    BY <1>10 DEF read_pc_addr_high
  <2> QED BY <1>2, <1>3, <1>4, <1>5, <1>10, <2>1 DEF read_pc_addr_high, SetsAddrKinds
<1>11. CASE read_ptr_addr_high
  <2>1. PICK high \in BusData(U8(op.ptr + 1)) : op' = AbsoluteAddress(high)
    BY <1>11 DEF read_ptr_addr_high
  <2> QED BY <1>2, <1>3, <1>4, <1>5, <1>11, <2>1 DEF read_ptr_addr_high, SetsAddrKinds
<1>12. CASE read_pc_addr_high_add_x
  <2>1. PICK high \in BusData(cpu.PC) :
          op' = TempFromSum(Index(AbsoluteAddress(high),
                                  Address(op.addr_lo, high), cpu.X), cpu.X)
    BY <1>12 DEF read_pc_addr_high_add_x
  <2>2. Address(op.addr_lo, high) \in Int /\ Whole(AbsoluteAddress(high))
    BY <1>2, <1>3, <1>4
  <2>3. Whole(Index(AbsoluteAddress(high), Address(op.addr_lo, high), cpu.X))
    BY <1>2, <2>2, WholeAddress DEF Whole
  <2>4. Whole(op')
    BY <2>1, <2>3, WholeWithTemp
  <2> QED BY <1>5, <1>12, <2>4 DEF read_pc_addr_high_add_x, SetsAddrKinds
<1>13. CASE read_pc_addr_high_add_y
  <2>1. PICK high \in BusData(cpu.PC) :
          op' = [Index(AbsoluteAddress(high), Address(op.addr_lo, high), cpu.Y)
                   EXCEPT !.temp_addr = Address(U8(op.addr_lo + cpu.Y), high)]
    BY <1>13 DEF read_pc_addr_high_add_y
  <2>2. Address(op.addr_lo, high) \in Int /\ Whole(AbsoluteAddress(high))
    BY <1>2, <1>3, <1>4
  <2>3. Whole(Index(AbsoluteAddress(high), Address(op.addr_lo, high), cpu.Y))
    BY <1>2, <2>2, WholeAddress DEF Whole
  <2>4. Whole(op')
    BY <2>1, <2>3, WholeWithTemp
  <2> QED BY <1>5, <1>13, <2>4 DEF read_pc_addr_high_add_y, SetsAddrKinds
<1>14. CASE read_ptr_addr_high_add_y
  <2>1. PICK high \in BusData(U8(op.ptr + 1)) :
          op' = TempFromSum(Index(Now, Address(op.addr_lo, high), cpu.Y), cpu.Y)
    BY <1>14 DEF read_ptr_addr_high_add_y
  <2>2. Address(op.addr_lo, high) \in Int
    BY <1>2, <1>3
  <2>3. Whole(Index(Now, Address(op.addr_lo, high), cpu.Y))
    BY <1>1, <1>2, <2>2, WholeAddress
  <2>4. Whole(op')
    BY <2>1, <2>3, WholeWithTemp
  <2> QED BY <1>5, <1>14, <2>4 DEF read_ptr_addr_high_add_y, SetsAddrKinds
<1>15. CASE \/ dummy \/ dummy_pc_read \/ dummy_pc_read_and_inc
            \/ dummy_stack_read \/ read_pc_addr_low_add_y \/ fetch_ptr
            \/ read_ptr_add_x \/ read_ptr_addr_low \/ fetch_pointer_addr_low
  BY <1>6, <1>15 DEF dummy, dummy_pc_read, dummy_pc_read_and_inc,
     dummy_stack_read, read_pc_addr_low_add_y, fetch_ptr, read_ptr_add_x,
     read_ptr_addr_low, fetch_pointer_addr_low, SetsAddrKinds,
     SetsZeroPageKinds, ExpectsKinds
<1> QED BY <1>7, <1>8, <1>9, <1>10, <1>11, <1>12, <1>13, <1>14, <1>15
        DEF AddressStep

\* The other micro-operations that expect an address leave it alone.
LEMMA StepHandsOver ==
  ASSUME IInv, MicroStep
  PROVE  \E kind : HandsOver(kind)
<1>1. CASE AddressStep
  BY <1>1, AddressStepHandsOver
<1>2. CASE StackStep
  <2>1. PICK kind \in StackKinds : Executes(kind)
    BY <1>2, StepKinds
  <2> QED BY <2>1 DEF StackKinds, HandsOver, SetsAddrKinds, SetsZeroPageKinds,
          ExpectsKinds
<1>3. CASE InstructionStep
  <2>1. PICK kind \in InstructionKinds : Executes(kind)
    BY <1>3, StepKinds
  <2>2. kind \notin SetsAddrKinds \cup SetsZeroPageKinds
    BY <2>1 DEF InstructionKinds, SetsAddrKinds, SetsZeroPageKinds
  <2>3. ASSUME kind \in ExpectsKinds
        PROVE  SameAddress(op') \/ op'.def = NULL
    <3>1. Now = [Selected EXCEPT !.cycle = U8(Selected.cycle + 1)]
      BY DEF Now
    <3>2. Now \in OpState /\ Selected \in OpState
      BY NowTyped DEF IInv
    <3> HIDE DEF Now, Selected
    <3>3. SameAddress(Now) /\ \A v : SameAddress([Now EXCEPT !.data = v])
      BY <3>1, <3>2 DEF SameAddress, OpState
    <3>4. CASE f_indexed_read_maybe_finish \/ tas_indexed_read_maybe_finish
      BY <3>3, <3>4, FinishClears DEF f_indexed_read_maybe_finish,
         tas_indexed_read_maybe_finish, Continue
    <3>5. CASE read_addr_data \/ f_dummy_write_and_compute
      BY <3>3, <3>5 DEF read_addr_data, f_dummy_write_and_compute
    <3>6. CASE f_indexed_reread_fixed \/ f_store \/ tas_indexed_rewrite_fixed
      BY <3>6, FinishClears DEF f_indexed_reread_fixed, f_store,
         tas_indexed_rewrite_fixed
    <3>7. CASE \/ f_imm \/ f_addr \/ write_data_and_finish \/ f_acc \/ f_imp
               \/ jmp_abs_finish \/ jsr_abs \/ jmp_ind \/ rts_finish
               \/ f_fetch_offset \/ branch_op \/ branch_page_fix
      <4>1. PICK other : other \notin ExpectsKinds /\ Executes(other)
        BY <3>7 DEF f_imm, f_addr, write_data_and_finish, f_acc, f_imp,
           jmp_abs_finish, jsr_abs, JumpAbsolute, jmp_ind, rts_finish,
           f_fetch_offset, branch_op, branch_page_fix, ExpectsKinds
      <4> QED BY <2>1, <2>3, <4>1, OneKind
    <3> QED BY <1>3, <3>4, <3>5, <3>6, <3>7 DEF InstructionStep
  <2> QED BY <2>1, <2>2, <2>3 DEF HandsOver
<1> QED BY <1>1, <1>2, <1>3 DEF MicroStep

\* In a program in progress the micro-operation that comes next finds the
\* address it expects, and one in the zero page a high byte of zero.
Kept(o) ==
  o.def # NULL /\ o.cycle < Len(micro_ops(o.def)) =>
    LET next == micro_ops(o.def)[o.cycle + 1]
    IN  /\ ExpectsAddr(next) => o.addr = full_addr(o)
        /\ next.kind \in SetsZeroPageKinds => o.addr_hi = 0

\* Only the micro-operations of those kinds expect an address.
LEMMA ExpectsKind == \A m : ExpectsAddr(m) => m.kind \in ExpectsKinds
BY DEF ExpectsAddr, UsesAddr, ExpectsKinds

\* What a reset or an NMI starts with has an address too, zero.
LEMMA SelectedKept ==
  ASSUME Kept(op)
  PROVE  Kept(Selected)
<1>1. \A def : LET o == [ZeroOp EXCEPT !.def = def]
               IN  o.addr = full_addr(o) /\ o.addr_hi = 0
  BY DEF ZeroOp, full_addr, Address
<1>2. \A def : Kept([ZeroOp EXCEPT !.def = def])
  BY <1>1 DEF Kept
<1> QED BY <1>2 DEF Selected

\* A micro-operation that goes on hands the address over to the next one.
LEMMA GoingOnKeepsAddress ==
  ASSUME IInv, IInv', Kept(Selected), NEW kind, HandsOver(kind), Keeps(op')
  PROVE  Kept(op')
<1> DEFINE program == micro_ops(Selected.def)
           i       == Selected.cycle + 1
<1>1. /\ Selected.def \in OpDef /\ i \in 1 .. Len(program)
      /\ program[i].kind = kind
  BY ExecutedTyped DEF HandsOver
<1>2. Addressed(program) /\ Len(program) \in 1 .. 7
  BY <1>1, MicroProgramsWellFormed DEF WellFormed
<1>3. Selected.cycle \in Int
  BY NowTyped, WordsAreInt DEF IInv, OpState
<1>4. op'.def = Selected.def /\ op'.cycle = i
  <2>1. op'.def = Selected.def /\ op'.cycle = U8(i)
    BY NowTyped DEF Keeps, IInv
  <2>2. i \in 1 .. 7
    BY <1>1, <1>2, <1>3
  <2> HIDE DEF i
  <2> QED BY <2>1, <2>2 DEF U8
<1>5. /\ ExpectsAddr(program[i]) => Selected.addr = full_addr(Selected)
      /\ program[i].kind \in SetsZeroPageKinds => Selected.addr_hi = 0
  <2>1. Selected.def # NULL /\ Selected.cycle < Len(program)
    BY DEF HandsOver, Executes
  <2> QED BY <2>1 DEF Kept
<1>6. ASSUME op'.cycle < Len(micro_ops(op'.def))
      PROVE  /\ ExpectsAddr(program[i + 1]) => op'.addr = full_addr(op')
             /\ program[i + 1].kind \in SetsZeroPageKinds => op'.addr_hi = 0
  <2>0. i \in Int /\ i + 1 \in 1 .. Len(program) /\ i + 1 - 1 = i /\ i + 1 # 1
    BY <1>1, <1>2, <1>4, <1>6
  <2> DEFINE j == i + 1
  <2>1. j \in 1 .. Len(program) /\ j - 1 = i /\ j # 1
    BY <2>0
  <2> HIDE DEF program, i, j
  <2>2. ASSUME ExpectsAddr(program[j])
        PROVE  op'.addr = full_addr(op')
    <3>1. \/ program[i].kind \in SetsAddrKinds \cup SetsZeroPageKinds
          \/ ExpectsAddr(program[i])
      BY <1>2, <2>1, <2>2 DEF Addressed
    <3>2. CASE program[i].kind \in SetsAddrKinds
      BY <1>1, <3>2 DEF HandsOver
    <3>3. CASE program[i].kind \in SetsZeroPageKinds
      <4>1. op'.addr = op'.addr_lo /\ op'.addr_hi = 0
        BY <1>1, <1>5, <3>3 DEF HandsOver
      <4>2. op'.addr_lo \in Int
        BY WordsAreInt DEF IInv, TypeOK, OpState
      <4> QED BY <4>1, <4>2 DEF full_addr, Address
    <3>4. CASE ExpectsAddr(program[i])
      <4>1. op'.def # NULL
        BY <1>4 DEF HandsOver, Executes
      <4>2. SameAddress(op')
        BY <1>1, <3>4, <4>1, ExpectsKind DEF HandsOver
      <4> QED BY <1>5, <3>4, <4>2 DEF SameAddress, full_addr
    <3> QED BY <3>1, <3>2, <3>3, <3>4
  <2>3. ASSUME program[j].kind \in SetsZeroPageKinds
        PROVE  op'.addr_hi = 0
    <3>1. j = 2 /\ program[1].kind = "read_pc_addr_low"
      BY <1>2, <2>1, <2>3 DEF Addressed, SetsZeroPageKinds
    <3>2. i = 1
      BY <2>0, <3>1 DEF j
    <3> QED BY <1>1, <1>5, <3>1, <3>2 DEF HandsOver, SetsZeroPageKinds
  <2> QED BY <2>2, <2>3 DEF j
<1> HIDE DEF program, i
<1> QED BY <1>4, <1>6 DEF Kept, program

\* So does every step.
LEMMA StepKeepsAddress ==
  ASSUME IInv, IInv', Kept(op), [Next]_vars
  PROVE  Kept(op')
<1>1. CASE Fetch
  <2>1. op' = [op EXCEPT !.def = op'.def] /\ op.def = NULL
    <3>1. Selected = op /\ op.def = NULL
      BY <1>1 DEF Fetch, Selected, NmiTaken, ZeroOp, NULL, reset_sequence,
         nmi_sequence, IInv, TypeOK, OpState
    <3>2. PICK opcode : op' = [op EXCEPT !.def = opcode]
      BY <1>1 DEF Fetch
    <3>3. op'.def = opcode
      BY <3>2 DEF IInv, TypeOK, OpState
    <3> QED BY <3>1, <3>2, <3>3
  <2>2. op'.cycle = 0 /\ op'.addr_hi = 0
    BY <2>1 DEF IInv, CleanBoundary, ZeroOp, TypeOK, OpState
  <2>3. ASSUME op'.def # NULL, op'.cycle < Len(micro_ops(op'.def))
        PROVE  ~ExpectsAddr(micro_ops(op'.def)[1])
    <3> DEFINE program == micro_ops(op'.def)
               length  == Len(program)
    <3>1. Addressed(program) /\ length \in 1 .. 7
      BY <2>3, MicroProgramsWellFormed DEF WellFormed, IInv, TypeOK, OpState
    <3> HIDE DEF length
    <3>2. 1 \in 1 .. length /\ ~(1 > 1)
      BY <3>1
    <3> QED BY <3>1, <3>2 DEF Addressed, length
  <2>4. op'.cycle + 1 = 1
    BY <2>2
  <2> QED BY <2>2, <2>3, <2>4 DEF Kept
<1>2. CASE MicroStep
  <2>1. PICK kind : HandsOver(kind)
    BY <1>2, StepHandsOver
  <2>2. CASE Keeps(op')
    BY <2>1, <2>2, SelectedKept, GoingOnKeepsAddress
  <2>3. CASE op'.def = NULL
    BY <2>3 DEF Kept
  <2> QED BY <1>2, <2>2, <2>3, StepKeepsOrEnds DEF MicroStep, IInv, Ends
<1>3. CASE kil_imp
  <2>1. HandsOver("kil_imp")
    BY <1>3 DEF kil_imp, HandsOver, SetsAddrKinds, SetsZeroPageKinds, ExpectsKinds
  <2>2. Keeps(op')
    BY <1>3, NowKeeps DEF kil_imp, Continue, IInv
  <2> QED BY <2>1, <2>2, SelectedKept, GoingOnKeepsAddress
<1>4. CASE \/ TickJammed \/ cpu6502_reset \/ cpu6502_nmi \/ cpu6502_set_pc
           \/ UNCHANGED vars
  BY <1>4 DEF TickJammed, cpu6502_reset, cpu6502_nmi, cpu6502_set_pc, vars
<1> QED BY <1>1, <1>2, <1>3, <1>4 DEF Next, cpu6502_tick, MicroStep

\* SHX, SHY, TAS, the indexed reads and the read-modify-write instructions use
\* op.addr where the other functions of the same instruction use full_addr:
\* the two are always the same address, for any memory, data and requests.
THEOREM AddressCopiesAgree == Spec => []AddressesAgree
<1>1. cpu6502_init => Kept(op)
  BY DEF cpu6502_init, Kept, ZeroOp
<1>2. IInv /\ IInv' /\ Kept(op) /\ [Next]_vars => Kept(op)'
  BY StepKeepsAddress
<1>3. Kept(op) => AddressesAgree
  BY DEF Kept, AddressesAgree, InProgress, NextOp, ExpectsAddr
<1> QED BY <1>1, <1>2, <1>3, Invariant, PTL DEF Spec

-----------------------------------------------------------------------------
(* A reset from its first tick to its last *)

\* How far the micro-operations before this cycle of reset_sequence have
\* lowered SP.
Lowered(cycle) == IF cycle <= 2 THEN 0 ELSE IF cycle <= 5 THEN cycle - 2 ELSE 3

\* A reset in progress has lowered SP that far and, before its last
\* micro-operation, holds the low byte of the vector.
ResetUnderWay ==
  /\ reset_sp \in Byte
  /\ op.def = reset_sequence =>
       /\ op.cycle \in 1 .. 6
       /\ cpu.SP = U8(reset_sp - Lowered(op.cycle))
       /\ op.cycle = 6 => op.addr_lo = reset_lo

\* SP wraps at each step as it does in one.
LEMMA LoweredOnce == \A a \in Int : U8(U8(a) - 1) = U8(a - 1)
BY DEF U8

\* A byte is its own conversion.
LEMMA ByteKept == \A b \in Byte : U8(b - 0) = b
BY Bounds DEF U8

\* A micro-operation of a reset in progress is the one at op.cycle.
LEMMA ResetStep ==
  ASSUME IInv, MicroStep, ~reset_requested, op.def = reset_sequence
  PROVE  /\ Selected = op
         /\ op.cycle \in 0 .. 6 /\ Executes(ResetSequence[op.cycle + 1].kind)
         /\ \/ Keeps(op') /\ op'.def = reset_sequence /\ op'.cycle = op.cycle + 1
            \/ op'.def = NULL /\ op.cycle = 6
<1>1. Selected = op /\ ~jammed
  <2>1. Selected = op
    BY OpDefsDistinct DEF Selected, NmiTaken
  <2>2. PICK kind : Executes(kind)
    BY StepKinds DEF MicroStep
  <2> QED BY <2>1, <2>2 DEF Executes
<1>2. PICK kind : Executes(kind)
  BY StepKinds DEF MicroStep
<1>3. micro_ops(op.def) = ResetSequence /\ Len(ResetSequence) = 7
  BY OpDefsDistinct DEF ResetSequence
<1>4. op.cycle \in 0 .. 6 /\ ResetSequence[op.cycle + 1].kind = kind
  BY <1>1, <1>2, <1>3, PlaceTyped, ExecutedTyped, OpDefsDistinct
<1>5. CASE Keeps(op')
  <2>1. op'.def = op.def /\ op'.cycle = U8(op.cycle + 1)
    BY <1>1, <1>5, NowTyped DEF Keeps, IInv
  <2>2. op'.cycle = op.cycle + 1
    BY <1>4, <2>1 DEF U8
  <2> QED BY <1>1, <1>2, <1>4, <1>5, <2>1, <2>2
<1>6. CASE Ends
  <2>1. PICK ending \in EndingKinds : Executes(ending)
    BY <1>6 DEF Ends
  <2>2. kind \in EndingKinds
    BY <1>2, <2>1, OneKind
  <2>3. op.cycle + 1 \in 1 .. Len(ResetSequence)
    BY <1>3, <1>4
  <2>4. op.cycle + 1 = 7
    BY <1>3, <1>4, <2>2, <2>3, SequencesEndLast
  <2> QED BY <1>1, <1>2, <1>4, <1>6, <2>4 DEF Ends
<1> QED BY <1>5, <1>6, StepKeepsOrEnds DEF MicroStep, IInv

\* The micro-operations of a reset that go on.
LEMMA ResetGoesOn ==
  ASSUME IInv, IInv', ResetUnderWay, MicroStep, ~reset_requested,
         op.def = reset_sequence, op'.def = reset_sequence, ResetTick
  PROVE  ResetUnderWay'
<1>1. /\ op.cycle \in 1 .. 6 /\ Executes(ResetSequence[op.cycle + 1].kind)
      /\ op'.cycle = op.cycle + 1 /\ op.cycle # 6
  <2>1. op.cycle # 6
    <3>1. ASSUME op.cycle = 6
          PROVE  FALSE
      <4>1. ResetSequence[op.cycle + 1].kind = "read_reset_high_finish"
        BY <3>1 DEF ResetSequence, Do
      <4>2. read_reset_high_finish
        BY <4>1, ResetStep, ActionOfKind
      <4> QED BY <4>2, FinishClears, OpDefsDistinct DEF read_reset_high_finish
    <3> QED BY <3>1
  <2> QED BY <2>1, ResetStep, OpDefsDistinct DEF ResetUnderWay
<1>2. reset_sp' = reset_sp /\ reset_sp \in Int
  BY <1>1, WordsAreInt DEF ResetTick, Resets, ResetUnderWay
<1>3. cpu.SP = U8(reset_sp - Lowered(op.cycle)) /\ cpu \in RegisterFile
  BY DEF ResetUnderWay, IInv, TypeOK
<1>4. CASE op.cycle = 1
  <2>1. ResetSequence[2].kind = "dummy"
    BY DEF ResetSequence, Do
  <2>2. cpu' = cpu
    BY <1>1, <1>4, <2>1, ActionOfKind DEF dummy
  <2> QED BY <1>1, <1>2, <1>3, <1>4, <2>2 DEF ResetUnderWay, Lowered
<1>5. CASE op.cycle \in 2 .. 4
  <2>1. ResetSequence[op.cycle + 1].kind = "dec_sp"
    BY <1>5 DEF ResetSequence, Do
  <2>2. cpu'.SP = U8(cpu.SP - 1)
    BY <1>1, <1>3, <2>1, ActionOfKind DEF dec_sp, RegisterFile
  <2>3. Lowered(op.cycle + 1) = Lowered(op.cycle) + 1
        /\ Lowered(op.cycle) \in Int
    BY <1>5 DEF Lowered
  <2>4. cpu'.SP = U8(reset_sp - Lowered(op.cycle) - 1)
    BY <1>2, <1>3, <2>2, <2>3, LoweredOnce
  <2>5. reset_sp - Lowered(op.cycle) - 1 = reset_sp - Lowered(op.cycle + 1)
    BY <1>2, <2>3
  <2>6. op'.cycle \in 1 .. 6 /\ op'.cycle # 6
    BY <1>1, <1>5
  <2> QED BY <1>1, <1>2, <2>4, <2>5, <2>6 DEF ResetUnderWay
<1>6. CASE op.cycle = 5
  <2>1. ResetSequence[6].kind = "read_reset_low"
    BY DEF ResetSequence, Do
  <2>2. read_reset_low
    BY <1>1, <1>6, <2>1, ActionOfKind
  <2>3. PICK value : /\ bus' = <<Rd(VECTOR_RESET, value)>>
                     /\ op' = [Now EXCEPT !.addr_lo = value]
                     /\ cpu' = cpu
    BY <2>2 DEF read_reset_low, VectorLow, Reads, CallsBack
  <2>4. op'.addr_lo = value
    <3>1. Now \in OpState
      BY NowTyped DEF IInv
    <3> HIDE DEF Now
    <3> QED BY <2>3, <3>1 DEF OpState
  <2>5. reset_lo' = value
    BY <2>3 DEF ResetTick, ReadsVectorLow, Rd
  <2>6. Lowered(6) = Lowered(5)
    BY DEF Lowered
  <2> QED BY <1>1, <1>2, <1>3, <1>6, <2>3, <2>4, <2>5, <2>6 DEF ResetUnderWay
<1> QED BY <1>1, <1>4, <1>5, <1>6

\* Every other step keeps the history of a reset, starts one or leaves it.
LEMMA StepKeepsReset ==
  ASSUME IInv, IInv', ResetUnderWay, [ResetTick \/ ResetCall]_resetvars
  PROVE  ResetUnderWay'
<1>1. cpu.SP \in Byte /\ cpu'.SP \in Byte
  BY RegistersTyped DEF IInv, TypeOK
<1>2. reset_sp' \in Byte
  BY <1>1 DEF ResetUnderWay, ResetTick, ResetCall, resetvars
<1>3. SUFFICES ASSUME op'.def = reset_sequence
               PROVE  ResetUnderWay'
  BY <1>2 DEF ResetUnderWay
<1>4. CASE /\ op' = op /\ cpu'.SP = cpu.SP /\ reset_lo' = reset_lo
           /\ reset_sp' = reset_sp \/ (Resets /\ reset_sp' = cpu.SP)
  <2>1. ASSUME Resets, reset_sp' = cpu.SP
        PROVE  reset_sp' = reset_sp
    <3>1. cpu.SP = U8(reset_sp - 0)
      BY <1>3, <1>4, <2>1 DEF ResetUnderWay, Resets, Lowered
    <3> QED BY <2>1, <3>1, ByteKept DEF ResetUnderWay
  <2> QED BY <1>4, <2>1 DEF ResetUnderWay
<1>5. CASE ResetCall \/ UNCHANGED resetvars
  <2>1. ASSUME cpu6502_set_pc
        PROVE  cpu'.SP = cpu.SP
    BY <2>1 DEF cpu6502_set_pc, IInv, TypeOK, RegisterFile
  <2> QED BY <1>4, <1>5, <2>1 DEF ResetCall, SequencedCall, cpu6502_reset,
          cpu6502_nmi, cpu6502_set_pc, resetvars, sequencedvars, vars
<1>6. CASE ResetTick /\ TickJammed
  <2>1. Len(bus') = 0
    BY <1>6 DEF TickJammed
  <2> QED BY <1>4, <1>6, <2>1 DEF TickJammed, ResetTick, ReadsVectorLow
<1>7. CASE ResetTick /\ Fetch
  <2>1. PICK opcode \in BusData(cpu.PC) : op' = [op EXCEPT !.def = opcode]
    BY <1>7 DEF Fetch
  <2>2. op'.def = opcode
    BY <2>1 DEF IInv, TypeOK, OpState
  <2>3. opcode \in Opcode
    BY <2>1, WordsTyped, BusDataTyped, Bounds DEF Opcode, IInv
  <2> QED BY <1>3, <2>2, <2>3, OpDefsDistinct
<1>8. CASE ResetTick /\ kil_imp
  <2>1. Selected.def = reset_sequence
    BY <1>3, <1>8, NowTyped DEF kil_imp, Continue, IInv
  <2>2. /\ Selected.cycle + 1 \in 1 .. Len(ResetSequence)
        /\ ResetSequence[Selected.cycle + 1].kind = "kil_imp"
    BY <1>8, <2>1, ExecutedTyped, OpDefsDistinct DEF kil_imp
  <2> QED BY <2>2, SequencesEndLast DEF EndingKinds, FinishingKinds
<1>9. CASE ResetTick /\ MicroStep
  <2>1. CASE reset_requested
    <3>1. op'.def = reset_sequence /\ op'.cycle = 1 /\ cpu' = cpu
      BY <1>9, <2>1, ResetStarts, Bounds DEF U8
    <3>2. reset_sp' = cpu.SP
      BY <1>9, <3>1 DEF ResetTick, Resets
    <3>3. cpu'.SP = U8(reset_sp' - 0)
      BY <1>1, <3>1, <3>2, ByteKept
    <3> QED BY <1>2, <3>1, <3>3 DEF ResetUnderWay, Lowered
  <2>2. CASE ~reset_requested /\ op.def = reset_sequence
    BY <1>3, <1>9, <2>2, ResetGoesOn
  <2>3. CASE ~reset_requested /\ op.def # reset_sequence
    <3>1. Keeps(op')
      BY <1>3, <1>9, OpDefsDistinct, StepKeepsOrEnds DEF MicroStep, IInv, Ends
    <3>2. Selected.def = reset_sequence
      BY <1>3, <3>1, NowTyped DEF Keeps, IInv
    <3> QED BY <2>3, <3>2, NmiStartsWithPcRead, OpDefsDistinct DEF Selected
  <2> QED BY <2>1, <2>2, <2>3
<1> QED BY <1>5, <1>6, <1>7, <1>8, <1>9
        DEF ResetTick, SequencedTick, cpu6502_tick, MicroStep

\* The tick that ends a reset.
LEMMA ResetEnds ==
  ASSUME IInv, IInv', ResetUnderWay, [ResetTick \/ ResetCall]_resetvars,
         op.def = reset_sequence, op'.def = NULL
  PROVE  /\ cpu'.SP = U8(reset_sp - 3)
         /\ bus'[1].addr = VECTOR_RESET + 1
         /\ cpu'.PC = Address(reset_lo, bus'[1].value)
         /\ FLAG_INTERRUPT_DISABLE \in cpu'.status
<1>1. MicroStep
  <2>1. ~Fetch
    <3>1. CASE reset_requested
      BY <3>1, OpDefsDistinct DEF Fetch, Selected, ZeroOp
    <3>2. CASE ~reset_requested
      BY <3>2, OpDefsDistinct DEF Fetch, Selected, NmiTaken
    <3> QED BY <3>1, <3>2
  <2>2. ~kil_imp
    BY OpDefsDistinct, NowTyped DEF kil_imp, Continue, Executes, IInv
  <2>3. op' # op
    BY OpDefsDistinct
  <2> QED BY <2>1, <2>2, <2>3 DEF ResetTick, ResetCall, SequencedTick,
          SequencedCall, cpu6502_tick, TickJammed, cpu6502_reset, cpu6502_nmi,
          cpu6502_set_pc, resetvars, sequencedvars, vars, MicroStep
<1>2. ~reset_requested
  BY <1>1, ResetStarts, OpDefsDistinct
<1>3. op.cycle = 6 /\ Executes(ResetSequence[7].kind)
  BY <1>1, <1>2, ResetStep, OpDefsDistinct
<1>4. ResetSequence[7].kind = "read_reset_high_finish"
  BY DEF ResetSequence, Do
<1>5. read_reset_high_finish
  BY <1>1, <1>3, <1>4, ActionOfKind
<1>6. PICK high : bus' = <<Rd(VECTOR_RESET + 1, high)>> /\ Arrive(high)
  BY <1>5 DEF read_reset_high_finish
<1>7. /\ cpu'.SP = cpu.SP /\ cpu'.PC = Address(op.addr_lo, high)
      /\ FLAG_INTERRUPT_DISABLE \in cpu'.status
  BY <1>6 DEF Arrive, set_flag, IInv, TypeOK, RegisterFile
<1>8. cpu.SP = U8(reset_sp - 3) /\ op.addr_lo = reset_lo
  BY <1>3 DEF ResetUnderWay, Lowered
<1> QED BY <1>6, <1>7, <1>8 DEF Rd

\* A reset that gets to its end has lowered SP by three from where it found it,
\* taken PC from the two bytes of the reset vector and disabled interrupts,
\* whatever it interrupted and whatever the host does meanwhile.
THEOREM ResetsComplete == ResetSpec => ResetCompletes
<1> DEFINE Completed ==
      op.def = reset_sequence /\ op'.def = NULL =>
        /\ cpu'.SP = U8(reset_sp - 3)
        /\ bus'[1].addr = VECTOR_RESET + 1
        /\ cpu'.PC = Address(reset_lo, bus'[1].value)
        /\ FLAG_INTERRUPT_DISABLE \in cpu'.status
<1>1. ResetSpec => []IInv
  <2>1. ResetInit => SequencedInit
    BY DEF ResetInit
  <2>2. [ResetTick \/ ResetCall]_resetvars =>
          [SequencedTick \/ SequencedCall]_sequencedvars
    BY DEF ResetTick, ResetCall, resetvars
  <2> QED BY <2>1, <2>2, SequencedInvariant, PTL DEF ResetSpec, SequencedSpec
<1>2. ResetInit => ResetUnderWay
  BY OpDefsDistinct, Bounds DEF ResetInit, SequencedInit, cpu6502_init, ZeroOp,
     ResetUnderWay
<1>3. IInv /\ IInv' /\ ResetUnderWay /\ [ResetTick \/ ResetCall]_resetvars =>
        ResetUnderWay'
  BY StepKeepsReset
<1>4. IInv /\ IInv' /\ ResetUnderWay /\ [ResetTick \/ ResetCall]_resetvars =>
        [Completed]_resetvars
  BY ResetEnds
<1> QED BY <1>1, <1>2, <1>3, <1>4, PTL DEF ResetSpec, ResetCompletes

-----------------------------------------------------------------------------
(* The bits of the status that are not flags *)

Phantom == {FLAG_BREAK, FLAG_UNUSED}

\* A register file that shows them so.
Shows(c, bits) == "status" \in DOMAIN c /\ c.status \cap Phantom = bits

\* No flag of the 6502 is one of them.
LEMMA FlagsAreReal ==
  {FLAG_CARRY, FLAG_ZERO, FLAG_INTERRUPT_DISABLE, FLAG_DECIMAL_MODE,
   FLAG_OVERFLOW, FLAG_NEGATIVE} \cap Phantom = {}
BY DEF Phantom, FLAG_CARRY, FLAG_ZERO, FLAG_INTERRUPT_DISABLE,
   FLAG_DECIMAL_MODE, FLAG_BREAK, FLAG_UNUSED, FLAG_OVERFLOW, FLAG_NEGATIVE

\* A flag is set beside them.
LEMMA SetFlagShows ==
  ASSUME NEW c, NEW bits, Shows(c, bits), NEW flag, flag \notin Phantom, NEW value
  PROVE  Shows(set_flag(c, flag, value), bits)
BY DEF Shows, set_flag

\* Any other register is set beside them.
LEMMA AssignShows ==
  ASSUME NEW c, NEW bits, Shows(c, bits), NEW v
  PROVE  /\ Shows([c EXCEPT !.A = v], bits)  /\ Shows([c EXCEPT !.X = v], bits)
         /\ Shows([c EXCEPT !.Y = v], bits)  /\ Shows([c EXCEPT !.SP = v], bits)
         /\ Shows([c EXCEPT !.PC = v], bits)
BY DEF Shows

\* The flags, by name.
LEMMA SetFlagsShow ==
  ASSUME NEW c, NEW bits, Shows(c, bits), NEW v
  PROVE  /\ Shows(set_flag(c, FLAG_CARRY, v), bits)
         /\ Shows(set_flag(c, FLAG_ZERO, v), bits)
         /\ Shows(set_flag(c, FLAG_INTERRUPT_DISABLE, v), bits)
         /\ Shows(set_flag(c, FLAG_DECIMAL_MODE, v), bits)
         /\ Shows(set_flag(c, FLAG_OVERFLOW, v), bits)
         /\ Shows(set_flag(c, FLAG_NEGATIVE, v), bits)
         /\ Shows(set_nz(c, v), bits)
<1>1. \A d, w : Shows(d, bits) =>
        /\ Shows(set_flag(d, FLAG_CARRY, w), bits)
        /\ Shows(set_flag(d, FLAG_ZERO, w), bits)
        /\ Shows(set_flag(d, FLAG_INTERRUPT_DISABLE, w), bits)
        /\ Shows(set_flag(d, FLAG_DECIMAL_MODE, w), bits)
        /\ Shows(set_flag(d, FLAG_OVERFLOW, w), bits)
        /\ Shows(set_flag(d, FLAG_NEGATIVE, w), bits)
  BY FlagsAreReal, SetFlagShows
<1> QED BY <1>1 DEF set_nz

\* Loads, logic and comparisons.
LEMMA LoadShows ==
  ASSUME NEW c, NEW bits, Shows(c, bits), NEW v, NEW w
  PROVE  /\ Shows(LoadA(c, v), bits)   /\ Shows(LoadX(c, v), bits)
         /\ Shows(LoadY(c, v), bits)   /\ Shows(LoadAX(c, v), bits)
         /\ Shows(alu_and(c, v), bits) /\ Shows(alu_eor(c, v), bits)
         /\ Shows(alu_ora(c, v), bits) /\ Shows(Compare(c, w, v), bits)
<1>1. \A u : Shows(LoadA(c, u), bits)
  BY AssignShows, SetFlagsShow DEF LoadA
<1>2. Shows(LoadX(c, v), bits) /\ Shows(LoadY(c, v), bits)
  BY AssignShows, SetFlagsShow DEF LoadX, LoadY
<1>3. Shows(LoadAX(c, v), bits)
  <2>1. Shows([[c EXCEPT !.A = v] EXCEPT !.X = v], bits)
    BY AssignShows
  <2> QED BY <2>1, SetFlagsShow DEF LoadAX
<1>4. Shows(Compare(c, w, v), bits)
  BY SetFlagsShow DEF Compare
<1> QED BY <1>1, <1>2, <1>3, <1>4 DEF alu_and, alu_eor, alu_ora

\* Addition and subtraction.
LEMMA ArithmeticShows ==
  ASSUME NEW c, NEW bits, Shows(c, bits), NEW v
  PROVE  Shows(alu_adc(c, v), bits) /\ Shows(alu_sbc(c, v), bits)
<1>1. ASSUME NEW carry, NEW overflow, NEW u
      PROVE  /\ Shows(LoadA(set_flag(set_flag(c, FLAG_CARRY, carry),
                                     FLAG_OVERFLOW, overflow), u), bits)
             /\ Shows([set_flag(c, FLAG_CARRY, carry) EXCEPT !.A = u], bits)
  <2>1. Shows(set_flag(c, FLAG_CARRY, carry), bits)
    BY SetFlagsShow
  <2>2. Shows(set_flag(set_flag(c, FLAG_CARRY, carry), FLAG_OVERFLOW, overflow),
              bits)
    BY <2>1, SetFlagsShow
  <2> QED BY <2>1, <2>2, LoadShows, AssignShows
<1>2. Shows(adc_binary(c, v), bits)
  <2> DEFINE sum      == c.A + v + get_flag(c, FLAG_CARRY)
             overflow == /\ Negative(c.A) = Negative(v)
                         /\ Negative(c.A) # Negative(U8(sum))
             flagged  == set_flag(set_flag(c, FLAG_CARRY, sum > 255),
                                  FLAG_OVERFLOW, overflow)
  <2>1. adc_binary(c, v) = LoadA(flagged, U8(sum))
    BY Zenon DEF adc_binary
  <2> HIDE DEF sum, overflow
  <2>2. Shows(LoadA(flagged, U8(sum)), bits)
    BY <1>1, Zenon
  <2> QED BY <2>1, <2>2, Zenon
<1>3. Shows(sbc_binary(c, v), bits)
  <2> DEFINE diff     == c.A + (255 - v) + get_flag(c, FLAG_CARRY)
             overflow == /\ Negative(c.A) # Negative(v)
                         /\ Negative(c.A) # Negative(U8(diff))
             flagged  == set_flag(set_flag(c, FLAG_CARRY, diff > 255),
                                  FLAG_OVERFLOW, overflow)
  <2>1. sbc_binary(c, v) = LoadA(flagged, U8(diff))
    BY Zenon DEF sbc_binary
  <2> HIDE DEF diff, overflow
  <2>2. Shows(LoadA(flagged, U8(diff)), bits)
    BY <1>1, Zenon
  <2> QED BY <2>1, <2>2, Zenon
<1>4. Shows(adc_decimal(c, v), bits)
  BY <1>1 DEF adc_decimal
<1>5. Shows(sbc_decimal(c, v), bits)
  BY <1>3, AssignShows DEF sbc_decimal
<1> QED BY <1>2, <1>3, <1>4, <1>5 DEF alu_adc, alu_sbc

\* Undocumented instructions, and BIT.
LEMMA UndocumentedShows ==
  ASSUME NEW c, NEW bits, Shows(c, bits), NEW v
  PROVE  /\ Shows(bit(c, v), bits) /\ Shows(anc(c, v), bits)
         /\ Shows(alr(c, v), bits) /\ Shows(arr(c, v), bits)
         /\ Shows(xaa(c, v), bits) /\ Shows(axs(c, v), bits)
         /\ Shows(las(c, v), bits)
<1>1. \A a, b, d : Shows(set_flag(set_flag(set_flag(c, FLAG_ZERO, a),
                           FLAG_NEGATIVE, b), FLAG_OVERFLOW, d), bits)
  <2> TAKE a, b, d
  <2>1. Shows(set_flag(set_flag(c, FLAG_ZERO, a), FLAG_NEGATIVE, b), bits)
    <3>1. Shows(set_flag(c, FLAG_ZERO, a), bits)
      BY SetFlagsShow
    <3> QED BY <3>1, SetFlagsShow
  <2> QED BY <2>1, SetFlagsShow
<1>2. Shows(bit(c, v), bits)
  BY <1>1 DEF bit
<1>3. Shows(alu_and(c, v), bits)
  BY LoadShows
<1>4. \A a : Shows(set_flag(alu_and(c, v), FLAG_CARRY, a), bits)
  BY <1>3, SetFlagsShow
<1>5. \A a, b : Shows(LoadA(set_flag(alu_and(c, v), FLAG_CARRY, a), b), bits)
  BY <1>4, LoadShows
<1>6. \A a, b, d : Shows(LoadA(set_flag(set_flag(alu_and(c, v), FLAG_CARRY, a),
                                        FLAG_OVERFLOW, b), d), bits)
  <2> TAKE a, b, d
  <2>1. Shows(set_flag(set_flag(alu_and(c, v), FLAG_CARRY, a),
                       FLAG_OVERFLOW, b), bits)
    BY <1>4, SetFlagsShow
  <2> QED BY <2>1, LoadShows
<1>7. Shows(anc(c, v), bits) /\ Shows(alr(c, v), bits) /\ Shows(arr(c, v), bits)
  BY <1>4, <1>5, <1>6 DEF anc, alr, arr
<1>8. Shows(xaa(c, v), bits) /\ Shows(axs(c, v), bits) /\ Shows(las(c, v), bits)
  BY LoadShows, AssignShows DEF xaa, axs, las
<1> QED BY <1>2, <1>7, <1>8

\* Every instruction that reads its operand.
LEMMA ExecuteShows ==
  ASSUME NEW c, NEW bits, Shows(c, bits), NEW v, NEW fn \in ReadFns
  PROVE  Shows(Execute(fn, c, v), bits)
<1>1. CASE fn \in {"lda", "ldx", "ldy", "and", "eor", "ora", "cmp", "cpx", "cpy",
                   "lax", "nop"}
  BY <1>1, LoadShows DEF Execute
<1>2. CASE fn \in {"adc", "sbc"}
  BY <1>2, ArithmeticShows DEF Execute
<1>3. CASE fn \in {"bit", "anc", "alr", "arr", "xaa", "las", "axs"}
  BY <1>3, UndocumentedShows DEF Execute
<1>4. CASE fn = "lax_imm"
  <2>1. Shows([[c EXCEPT !.A = v] EXCEPT !.X = v], bits)
    BY AssignShows
  <2> QED BY <1>4, <2>1 DEF Execute
<1> QED BY <1>1, <1>2, <1>3, <1>4 DEF ReadFns

\* Every read-modify-write instruction, in memory and in A.
LEMMA ModifyShows ==
  ASSUME NEW c, NEW bits, Shows(c, bits), NEW v, NEW fn \in ModifyFns
  PROVE  Shows(Modify(fn, c, v), bits)
<1> DEFINE result  == Modified(fn, get_flag(c, FLAG_CARRY), v)
           carried == set_flag(c, FLAG_CARRY, ShiftedOut(fn, v))
<1> HIDE DEF result, carried
<1>1. Shows(carried, bits)
  BY SetFlagsShow DEF carried
<1>2. Shows(set_nz(c, result), bits) /\ Shows(set_nz(carried, result), bits)
  BY <1>1, SetFlagsShow
<1>3. /\ Shows(alu_ora(carried, result), bits)
      /\ Shows(alu_eor(carried, result), bits)
      /\ Shows(alu_and(carried, result), bits)
      /\ Shows(Compare(c, c.A, result), bits)
  BY <1>1, LoadShows
<1>4. /\ Shows(alu_adc(set_nz(carried, result), result), bits)
      /\ Shows(alu_sbc(c, result), bits)
  BY <1>2, ArithmeticShows
<1> QED BY <1>2, <1>3, <1>4 DEF Modify, ModifyFns, result, carried

LEMMA AccumulatorShows ==
  ASSUME NEW c, NEW bits, Shows(c, bits), NEW fn \in AccumulatorFns
  PROVE  Shows(ExecuteAccumulator(fn, c), bits)
<1>1. fn \in ModifyFns
  BY DEF AccumulatorFns, ModifyFns
<1> QED BY <1>1, ModifyShows, AssignShows DEF ExecuteAccumulator

\* Every instruction without an operand.
LEMMA ImpliedShows ==
  ASSUME NEW c, NEW bits, Shows(c, bits), NEW fn \in ImpliedFns
  PROVE  Shows(ExecuteImplied(fn, c), bits)
BY LoadShows, SetFlagsShow, AssignShows DEF ExecuteImplied, ImpliedFns

\* PULL_P, PLP and the end of RTI are the steps that set them.
LEMMA PulledShows ==
  ASSUME NEW c, "status" \in DOMAIN c
  PROVE  Shows(set_flag(set_flag(c, FLAG_BREAK, FALSE), FLAG_UNUSED, TRUE),
               {FLAG_UNUSED})
BY DEF Shows, set_flag, Phantom, FLAG_BREAK, FLAG_UNUSED

\* What the micro-operations that address memory do to the registers.
LEMMA AddressStepShows ==
  ASSUME AddressStep, NEW bits, Shows(cpu, bits)
  PROVE  Shows(cpu', bits)
<1>1. Shows(Advance(cpu), bits)
  BY AssignShows DEF Advance
<1>2. cpu' = cpu \/ cpu' = Advance(cpu)
  BY DEF AddressStep, dummy, dummy_pc_read, dummy_pc_read_and_inc,
     dummy_stack_read, dummy_temp_addr_read, read_pc_addr_low,
     read_pc_addr_low_add_x, read_pc_addr_low_add_y, read_pc_addr_high,
     read_pc_addr_high_add_x, read_pc_addr_high_add_y, fetch_ptr,
     read_ptr_add_x, read_ptr_addr_low, read_ptr_addr_high,
     read_ptr_addr_high_add_y, fetch_pointer_addr_low
<1> QED BY <1>1, <1>2

\* The last micro-operation of RTI puts them right.
LEMMA RtiShows ==
  ASSUME IInv, pull_pc_high_finish
  PROVE  Shows(cpu', {FLAG_UNUSED})
<1> DEFINE flagged == set_flag(set_flag(cpu, FLAG_BREAK, FALSE), FLAG_UNUSED, TRUE)
<1>1. PICK pc : cpu' = [flagged EXCEPT !.PC = pc]
  BY DEF pull_pc_high_finish
<1>2. Shows(flagged, {FLAG_UNUSED})
  BY PulledShows DEF IInv, TypeOK, RegisterFile
<1> HIDE DEF flagged
<1> QED BY <1>1, <1>2, AssignShows

\* PLP and RTI put them right, after pull_p has taken them from the stack.
LEMMA StackStepShows ==
  ASSUME IInv, StackStep, ~pull_p, NEW bits, Shows(cpu, bits)
  PROVE  Shows(cpu', bits) \/ Shows(cpu', {FLAG_UNUSED})
<1>1. \A v : Shows([cpu EXCEPT !.SP = v], bits) /\ Shows(LoadA(cpu, v), bits)
  BY AssignShows, LoadShows
<1>2. CASE inc_sp \/ dec_sp \/ pull_pc_low
  BY <1>1, <1>2 DEF inc_sp, dec_sp, pull_pc_low
<1>3. CASE \/ push_pc_high \/ push_pc_low \/ push_p_with_break
           \/ push_p_without_break \/ php_imp \/ pha_imp
  BY <1>1, <1>3 DEF push_pc_high, push_pc_low, push_p_with_break,
     push_p_without_break, php_imp, pha_imp, Pushes
<1>4. CASE pla_imp
  BY <1>1, <1>4 DEF pla_imp
<1>5. CASE plp_imp
  <2>1. PICK value : cpu' = StatusPulled(cpu, value)
    BY <1>5 DEF plp_imp
  <2>2. "status" \in DOMAIN [cpu EXCEPT !.status = BitsOf(value)]
    BY DEF Shows
  <2> QED BY <2>1, <2>2, PulledShows DEF StatusPulled
<1>6. CASE pull_pc_high_finish
  BY <1>6, RtiShows
<1>7. CASE \/ pull_pc_high_no_inc \/ read_irq_low \/ read_nmi_low
           \/ read_reset_low
  BY <1>7 DEF pull_pc_high_no_inc, read_irq_low, read_nmi_low,
     read_reset_low, VectorLow
<1>8. CASE \/ read_irq_high_finish \/ read_nmi_high_finish
           \/ read_reset_high_finish
  <2>1. PICK high : Arrive(high)
    BY <1>8 DEF read_irq_high_finish, read_nmi_high_finish, VectorHighFinish,
       read_reset_high_finish
  <2>2. Shows([cpu EXCEPT !.PC = Address(op.addr_lo, high)], bits)
    BY AssignShows
  <2> QED BY <2>1, <2>2, SetFlagsShow DEF Arrive
<1> QED BY <1>2, <1>3, <1>4, <1>5, <1>6, <1>7, <1>8 DEF StackStep

\* Instructions do not reach them.
LEMMA InstructionStepShows ==
  ASSUME IInv, InstructionStep, NEW bits, Shows(cpu, bits)
  PROVE  Shows(cpu', bits)
<1>1. Shows(Advance(cpu), bits)
  BY AssignShows DEF Advance
<1>2. /\ \A v : Shows([cpu EXCEPT !.PC = v], bits)
      /\ Shows(TasSP, bits)
  BY AssignShows DEF TasSP
<1>3. CASE f_imm
  <2>1. PICK value : cpu' = Execute(Mnemonic, Advance(cpu), value)
    BY <1>3 DEF f_imm
  <2>2. Mnemonic \in ReadFns
    BY <1>3, MnemonicTyped DEF f_imm
  <2> QED BY <1>1, <2>1, <2>2, ExecuteShows
<1>4. CASE f_addr \/ f_indexed_read_maybe_finish \/ f_indexed_reread_fixed
  <2>1. cpu' = cpu \/ \E value : cpu' = Execute(Mnemonic, cpu, value)
    BY <1>4 DEF f_addr, f_indexed_read_maybe_finish, f_indexed_reread_fixed
  <2>2. Mnemonic \in ReadFns
    BY <1>4, MnemonicTyped DEF f_addr, f_indexed_read_maybe_finish,
       f_indexed_reread_fixed
  <2> QED BY <2>1, <2>2, ExecuteShows
<1>5. CASE f_dummy_write_and_compute
  BY <1>5, MnemonicTyped, ModifyShows DEF f_dummy_write_and_compute
<1>6. CASE f_acc
  BY <1>6, MnemonicTyped, AccumulatorShows DEF f_acc
<1>7. CASE f_imp
  BY <1>7, MnemonicTyped, ImpliedShows DEF f_imp
<1>8. CASE \/ read_addr_data \/ write_data_and_finish \/ f_store
           \/ branch_page_fix
  BY <1>8 DEF read_addr_data, write_data_and_finish, f_store, branch_page_fix
<1>9. CASE tas_indexed_read_maybe_finish \/ tas_indexed_rewrite_fixed
  BY <1>2, <1>9 DEF tas_indexed_read_maybe_finish, tas_indexed_rewrite_fixed
<1>10. CASE \/ jmp_abs_finish \/ jsr_abs \/ jmp_ind \/ rts_finish \/ branch_op
  BY <1>2, <1>10 DEF jmp_abs_finish, jsr_abs, JumpAbsolute, jmp_ind,
     rts_finish, branch_op
<1>11. CASE f_fetch_offset
  BY <1>1, <1>11 DEF f_fetch_offset
<1> QED BY <1>3, <1>4, <1>5, <1>6, <1>7, <1>8, <1>9, <1>10, <1>11
        DEF InstructionStep

\* Only pull_p makes them anything else.
LEMMA StepShows ==
  ASSUME IInv, [Next]_vars, ~pull_p, NEW bits, Shows(cpu, bits)
  PROVE  Shows(cpu', bits) \/ Shows(cpu', {FLAG_UNUSED})
<1>1. CASE Fetch
  BY <1>1, AssignShows DEF Fetch, Advance
<1>2. CASE kil_imp \/ TickJammed \/ cpu6502_reset \/ cpu6502_nmi \/ UNCHANGED vars
  BY <1>2 DEF kil_imp, TickJammed, cpu6502_reset, cpu6502_nmi, vars
<1>3. CASE cpu6502_set_pc
  <2>1. PICK pc : cpu' = [cpu EXCEPT !.PC = pc]
    BY <1>3 DEF cpu6502_set_pc
  <2> QED BY <2>1, AssignShows
<1> QED BY <1>1, <1>2, <1>3, AddressStepShows, StackStepShows,
           InstructionStepShows DEF Next, cpu6502_tick

\* The raw status of an RTI is put right before the next boundary.
PhantomsKept == StatusInTransit \/ Shows(cpu, {FLAG_UNUSED})

\* A reset strikes between pull_p and pull_pc_high_finish.
ResetCutsRti == StatusInTransit /\ op'.def = reset_sequence

\* pull_p is the third micro-operation of RTI, and of nothing else.
LEMMA PullPStartsTransit ==
  ASSUME IInv, pull_p
  PROVE  StatusInTransit'
<1> DEFINE program == micro_ops(Selected.def)
           i       == Selected.cycle + 1
<1>1. /\ Executes("pull_p") /\ op' = Now /\ Selected.def # NULL
      /\ Now.def = Selected.def /\ Now.cycle = U8(i)
  BY NowTyped DEF pull_p, Continue, Executes, IInv
<1>2. Selected.def \in OpDef /\ i \in 1 .. Len(program)
      /\ program[i].kind = "pull_p"
  BY <1>1, ExecutedTyped
<1>3. WellFormed(program)
  BY <1>2, MicroProgramsWellFormed
<1> HIDE DEF program, i
<1>4. program = RTI
  BY <1>2, <1>3 DEF WellFormed
<1>5. i = 3
  BY <1>2, <1>4 DEF RTI, Do
<1>6. op'.def = Selected.def /\ op'.cycle = 3 /\ Len(RTI) = 5
  BY <1>1, <1>5 DEF U8, RTI
<1> QED BY <1>1, <1>4, <1>6 DEF StatusInTransit, InProgress, program

\* The rest of RTI, when no reset cuts it.
LEMMA TransitEnds ==
  ASSUME IInv, IInv', [Next]_vars, StatusInTransit, op'.def # reset_sequence
  PROVE  PhantomsKept'
<1>1. /\ op.def # NULL /\ micro_ops(op.def) = RTI /\ op.cycle \in {3, 4}
      /\ Len(RTI) = 5
  <2>1. Len(RTI) = 5
    BY DEF RTI
  <2>2. op.cycle \in Int
    BY WordsAreInt DEF IInv, TypeOK, OpState
  <2> QED BY <2>1, <2>2 DEF StatusInTransit, InProgress
<1>2. CASE op' = op
  BY <1>2 DEF StatusInTransit, InProgress, PhantomsKept
<1>3. CASE MicroStep
  <2>1. ~reset_requested
    BY <1>3, ResetStarts
  <2>2. Selected = op
    BY <1>1, <2>1 DEF Selected, NmiTaken
  <2>3. PICK kind : Executes(kind)
    BY <1>3, StepKinds DEF MicroStep
  <2>4. RTI[op.cycle + 1].kind = kind
    BY <1>1, <2>2, <2>3 DEF Executes
  <2>5. CASE op.cycle = 3
    <3>1. pull_pc_low
      BY <1>3, <2>3, <2>4, <2>5, ActionOfKind DEF RTI, Do
    <3>2. Keeps(op')
      <4>1. PICK value : op' = [Now EXCEPT !.addr_lo = value]
        BY <3>1 DEF pull_pc_low
      <4> QED BY <4>1, NowKeeps, KeepsUpdated DEF IInv
    <3>3. op'.def = op.def /\ op'.cycle = 4
      BY <2>2, <2>5, <3>2, NowTyped DEF Keeps, IInv, U8
    <3>4. op'.def # NULL /\ micro_ops(op'.def) = RTI
      BY <1>1, <3>3
    <3>5. op'.cycle >= 3 /\ op'.cycle < Len(RTI)
      BY <1>1, <3>3
    <3> QED BY <3>4, <3>5 DEF StatusInTransit, InProgress, PhantomsKept
  <2>6. CASE op.cycle = 4
    <3>1. pull_pc_high_finish
      BY <1>3, <2>3, <2>4, <2>6, ActionOfKind DEF RTI, Do
    <3> QED BY <3>1, RtiShows DEF PhantomsKept
  <2> QED BY <1>1, <2>5, <2>6
<1>4. ~Fetch
  BY <1>1, OpDefsDistinct DEF Fetch, Selected, NmiTaken, ZeroOp
<1>5. ~kil_imp
  <2>1. SUFFICES ASSUME kil_imp PROVE FALSE
    OBVIOUS
  <2>2. Selected = op
    BY <1>1, <2>1, ResetStarts DEF Selected, NmiTaken
  <2>3. RTI[op.cycle + 1].kind = "kil_imp"
    BY <1>1, <2>1, <2>2 DEF kil_imp, Executes
  <2> QED BY <1>1, <2>3 DEF RTI, Do
<1> QED BY <1>2, <1>3, <1>4, <1>5 DEF Next, cpu6502_tick, TickJammed,
        cpu6502_reset, cpu6502_nmi, cpu6502_set_pc, MicroStep, vars

\* Bits 4 and 5 of the status are 0 and 1 but in the middle of an RTI: no
\* program can change them, whatever it pulls, as long as no reset strikes
\* between pull_p and pull_pc_high_finish, which would leave the raw byte.
THEOREM PhantomsFixed == Spec /\ [][~ResetCutsRti]_vars => []PhantomFlagsFixed
<1>1. cpu6502_init => PhantomsKept
  BY DEF cpu6502_init, PoweredUp, PhantomsKept, Shows, Phantom
<1>2. IInv /\ IInv' /\ PhantomsKept /\ [Next]_vars /\ [~ResetCutsRti]_vars =>
        PhantomsKept'
  <2> SUFFICES ASSUME IInv, IInv', PhantomsKept, [Next]_vars, [~ResetCutsRti]_vars
               PROVE  PhantomsKept'
    OBVIOUS
  <2>1. CASE StatusInTransit
    <3>1. op'.def # reset_sequence
      <4>1. CASE ~ResetCutsRti
        BY <2>1, <4>1 DEF ResetCutsRti
      <4>2. CASE UNCHANGED vars
        <5>1. micro_ops(op.def) = RTI /\ op' = op
          BY <2>1, <4>2 DEF StatusInTransit, vars
        <5>2. Len(ResetSequence) = 7 /\ Len(RTI) = 5
          BY DEF ResetSequence, RTI
        <5> QED BY <5>1, <5>2, OpDefsDistinct
      <4> QED BY <4>1, <4>2
    <3> QED BY <2>1, <3>1, TransitEnds
  <2>2. CASE pull_p
    BY <2>2, PullPStartsTransit DEF PhantomsKept
  <2>3. CASE ~StatusInTransit /\ ~pull_p
    BY <2>3, StepShows DEF PhantomsKept
  <2> QED BY <2>1, <2>2, <2>3
<1>3. PhantomsKept => PhantomFlagsFixed
  BY DEF PhantomsKept, Shows, Phantom, PhantomFlagsFixed, FLAG_BREAK, FLAG_UNUSED
<1> QED BY <1>1, <1>2, <1>3, Invariant, PTL DEF Spec

=============================================================================
