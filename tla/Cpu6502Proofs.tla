---------------------------- MODULE Cpu6502Proofs ----------------------------
(***************************************************************************)
(* Invariants of the CPU for any host memory, any data on the bus and any  *)
(* requests at any time.                                                   *)
(*                                                                         *)
(* The inductive invariant is the conjunction of TypeOK, NoNullDispatch    *)
(* and CleanBoundary.  A fetch sets op.def only; that op.cycle then counts *)
(* from zero is CleanBoundary.  That it stays inside the micro-program is  *)
(* NoNullDispatch: a micro-operation that lets the program go on is not a  *)
(* finishing one, and so not the last one (MicroProgramsWellFormed).       *)
(***************************************************************************)
EXTENDS CpuSafety, AluProofs

-----------------------------------------------------------------------------
(* The table of micro-programs is well formed: every entry has one to seven  *)
(* micro-operations, the last of which ends the instruction whatever the     *)
(* state, and an instruction is given only to functions that exist for it.   *)
(* The lemmas go from the addressing modes to the rows of the table to       *)
(* micro_ops(def) for every def.                                             *)

BranchFns == {"bpl", "bmi", "bvc", "bvs", "bcc", "bcs", "bne", "beq"}

\* The functions that always call finish_op, or jam the CPU.
FinishingKinds ==
  {"imm", "addr", "indexed_reread_fixed", "store", "acc", "imp", "kil_imp",
   "write_data_and_finish", "tas_indexed_rewrite_fixed", "jmp_abs_finish",
   "jsr_abs", "jmp_ind", "rts_finish", "branch_page_fix", "php_imp", "pha_imp",
   "plp_imp", "pla_imp", "pull_pc_high_finish", "read_irq_high_finish",
   "read_nmi_high_finish", "read_reset_high_finish"}

\* The instruction a function is written for is one that has that function.
FnTyped(m) ==
  /\ m.kind \in {"imm", "addr", "indexed_read_maybe_finish",
                 "indexed_reread_fixed"} => m.fn \in ReadFns
  /\ m.kind = "dummy_write_and_compute" => m.fn \in ModifyFns
  /\ m.kind = "store" => m.fn \in StoreFns
  /\ m.kind = "acc" => m.fn \in AccumulatorFns
  /\ m.kind = "imp" => m.fn \in ImpliedFns
  /\ m.kind = "fetch_offset" => m.fn \in BranchFns

\* A micro-operation that finds in op.addr the address that full_addr gives, or
\* comes between the one that sets op.addr and such a one.
ExpectsAddr(m) == UsesAddr(m) \/ m.kind \in {"read_addr_data", "dummy_temp_addr_read"}

\* Those that set op.addr and both its bytes, and those that leave the high
\* byte at zero.
SetsAddrKinds ==
  {"read_pc_addr_high", "read_pc_addr_high_add_x", "read_pc_addr_high_add_y",
   "read_ptr_addr_high", "read_ptr_addr_high_add_y"}
SetsZeroPageKinds == {"read_pc_addr_low", "read_pc_addr_low_add_x"}

\* The address that a micro-operation expects is set right before it, or
\* already expected there, and one in the zero page is set from the start.
Addressed(program) ==
  \A i \in 1 .. Len(program) :
    /\ ExpectsAddr(program[i]) =>
         /\ i > 1
         /\ \/ program[i - 1].kind \in SetsAddrKinds \cup SetsZeroPageKinds
            \/ ExpectsAddr(program[i - 1])
    /\ program[i].kind = "read_pc_addr_low" => i = 1
    /\ program[i].kind = "read_pc_addr_low_add_x" =>
         i = 2 /\ program[1].kind = "read_pc_addr_low"

WellFormed(program) ==
  /\ Len(program) \in 1 .. 7
  /\ \A i \in 1 .. Len(program) : FnTyped(program[i])
  /\ program[Len(program)].kind \in FinishingKinds
  /\ Addressed(program)
  /\ \A i \in 1 .. Len(program) : program[i].kind = "pull_p" => program = RTI

\* A program that is not the one of a reset; if it jams it does nothing after.
Ordinary(program) ==
  /\ WellFormed(program)
  /\ \A i \in 1 .. Len(program) :
       program[i].kind = "kil_imp" => i = Len(program)
  /\ \A i \in 1 .. Len(program) : program[i].kind # "read_reset_high_finish"

-----------------------------------------------------------------------------
(* The addressing modes *)

\* Instructions without a memory address, and branches.
LEMMA NoAddressOrdinary ==
  /\ \A f \in ReadFns : Ordinary(Immediate(f))
  /\ \A f \in ImpliedFns : Ordinary(Implied(f))
  /\ \A f \in AccumulatorFns : Ordinary(Accumulator(f))
  /\ \A f \in BranchFns : Ordinary(Branch(f))
BY DEF Ordinary, WellFormed, Addressed, ExpectsAddr, UsesAddr, SetsAddrKinds,
       SetsZeroPageKinds, FnTyped, FinishingKinds, Instruction, Do,
       Immediate, Implied, Accumulator, Branch

\* Instructions that read their operand from memory: with a conditional end
\* there is always an unconditional one after it.
LEMMA ReadOrdinary ==
  ASSUME NEW f \in ReadFns
  PROVE  /\ Ordinary(ReadZp(f))   /\ Ordinary(ReadZpX(f))
         /\ Ordinary(ReadZpY(f))  /\ Ordinary(ReadAbs(f))
         /\ Ordinary(ReadAbsX(f)) /\ Ordinary(ReadAbsY(f))
         /\ Ordinary(ReadIndX(f)) /\ Ordinary(ReadIndY(f))
<1> USE DEF Ordinary, WellFormed, Addressed, ExpectsAddr, UsesAddr, SetsAddrKinds,
            SetsZeroPageKinds, FnTyped, FinishingKinds, Instruction, Do, Operand,
            OperandOrRetry, OperandRetried
<1>1. Ordinary(ReadZp(f)) /\ Ordinary(ReadZpX(f)) /\ Ordinary(ReadZpY(f))
  BY DEF ReadZp, ReadZpX, ReadZpY
<1>2. Ordinary(ReadAbs(f)) /\ Ordinary(ReadAbsX(f)) /\ Ordinary(ReadAbsY(f))
  BY DEF ReadAbs, ReadAbsX, ReadAbsY
<1>3. Ordinary(ReadIndX(f)) /\ Ordinary(ReadIndY(f))
  BY DEF ReadIndX, ReadIndY
<1> QED BY <1>1, <1>2, <1>3

\* Instructions that store a register.  SHX and SHY do not use the mode that
\* leaves op.addr without the index.
LEMMA StoreOrdinary ==
  ASSUME NEW f \in StoreFns
  PROVE  /\ Ordinary(StoreZp(f))   /\ Ordinary(StoreZpX(f))
         /\ f \notin {"shx", "shy"} => Ordinary(StoreZpY(f))
         /\ Ordinary(StoreAbs(f))
         /\ Ordinary(StoreAbsX(f)) /\ Ordinary(StoreAbsY(f))
         /\ Ordinary(StoreIndX(f)) /\ Ordinary(StoreIndY(f))
<1> USE DEF Ordinary, WellFormed, Addressed, ExpectsAddr, UsesAddr, SetsAddrKinds,
            SetsZeroPageKinds, FnTyped, FinishingKinds, Instruction, Do, Store
<1>1. /\ Ordinary(StoreZp(f)) /\ Ordinary(StoreZpX(f))
      /\ f \notin {"shx", "shy"} => Ordinary(StoreZpY(f))
  BY DEF StoreZp, StoreZpX, StoreZpY
<1>2. Ordinary(StoreAbs(f)) /\ Ordinary(StoreAbsX(f)) /\ Ordinary(StoreAbsY(f))
  BY DEF StoreAbs, StoreAbsX, StoreAbsY
<1>3. Ordinary(StoreIndX(f)) /\ Ordinary(StoreIndY(f))
  BY DEF StoreIndX, StoreIndY
<1> QED BY <1>1, <1>2, <1>3

\* Read-modify-write instructions.
LEMMA ModifyOrdinary ==
  ASSUME NEW f \in ModifyFns
  PROVE  /\ Ordinary(ModifyZp(f))   /\ Ordinary(ModifyZpX(f))
         /\ Ordinary(ModifyAbs(f))
         /\ Ordinary(ModifyAbsX(f)) /\ Ordinary(ModifyAbsY(f))
         /\ Ordinary(ModifyIndX(f)) /\ Ordinary(ModifyIndY(f))
<1> USE DEF Ordinary, WellFormed, Addressed, ExpectsAddr, UsesAddr, SetsAddrKinds,
            SetsZeroPageKinds, FnTyped, FinishingKinds, Instruction, Do, Compute
<1>1. Ordinary(ModifyZp(f)) /\ Ordinary(ModifyZpX(f)) /\ Ordinary(ModifyAbs(f))
  BY DEF ModifyZp, ModifyZpX, ModifyAbs
<1>2. Ordinary(ModifyAbsX(f)) /\ Ordinary(ModifyAbsY(f))
  BY DEF ModifyAbsX, ModifyAbsY
<1>3. Ordinary(ModifyIndX(f)) /\ Ordinary(ModifyIndY(f))
  BY DEF ModifyIndX, ModifyIndY
<1> QED BY <1>1, <1>2, <1>3

\* The programs that serve one opcode each or no opcode.
LEMMA OthersOrdinary ==
  /\ Ordinary(NopAbsX) /\ Ordinary(TAS) /\ Ordinary(KIL)
  /\ Ordinary(BRK) /\ Ordinary(RTI) /\ Ordinary(JSR) /\ Ordinary(RTS)
  /\ Ordinary(PHP) /\ Ordinary(PHA) /\ Ordinary(PLP) /\ Ordinary(PLA)
  /\ Ordinary(JMP_abs) /\ Ordinary(JMP_ind)
  /\ WellFormed(ResetSequence) /\ Ordinary(NmiSequence)
<1> USE DEF Ordinary, WellFormed, Addressed, ExpectsAddr, UsesAddr, SetsAddrKinds,
            SetsZeroPageKinds, FnTyped, FinishingKinds, Instruction, Do
<1>1. Ordinary(NopAbsX) /\ Ordinary(TAS) /\ Ordinary(KIL)
  BY DEF NopAbsX, TAS, KIL, OperandOrRetry, Operand, ReadFns
<1>2. Ordinary(BRK) /\ Ordinary(RTI) /\ Ordinary(JSR) /\ Ordinary(RTS)
  BY DEF BRK, RTI, JSR, RTS
<1>3. Ordinary(PHP) /\ Ordinary(PHA) /\ Ordinary(PLP) /\ Ordinary(PLA)
  BY DEF PHP, PHA, PLP, PLA
<1>4. Ordinary(JMP_abs) /\ Ordinary(JMP_ind)
  BY DEF JMP_abs, JMP_ind
<1>5. WellFormed(ResetSequence) /\ Ordinary(NmiSequence)
  BY DEF ResetSequence, NmiSequence
<1> QED BY <1>1, <1>2, <1>3, <1>4, <1>5

-----------------------------------------------------------------------------
(* The table *)

RowOrdinary(row) == \A i \in 1 .. 16 : Ordinary(row[i])

\* Every row applies the modes to instructions that have them.
LEMMA RowsOrdinary ==
  /\ RowOrdinary(Row_0) /\ RowOrdinary(Row_1)
  /\ RowOrdinary(Row_2) /\ RowOrdinary(Row_3)
  /\ RowOrdinary(Row_4) /\ RowOrdinary(Row_5)
  /\ RowOrdinary(Row_6) /\ RowOrdinary(Row_7)
  /\ RowOrdinary(Row_8) /\ RowOrdinary(Row_9)
  /\ RowOrdinary(Row_A) /\ RowOrdinary(Row_B)
  /\ RowOrdinary(Row_C) /\ RowOrdinary(Row_D)
  /\ RowOrdinary(Row_E) /\ RowOrdinary(Row_F)
<1> USE NoAddressOrdinary, ReadOrdinary, StoreOrdinary, ModifyOrdinary,
        OthersOrdinary
    DEF RowOrdinary, ReadFns, ImpliedFns, AccumulatorFns, BranchFns, StoreFns,
        ModifyFns
<1>0. RowOrdinary(Row_0)
  BY DEF Row_0
<1>1. RowOrdinary(Row_1)
  BY DEF Row_1
<1>2. RowOrdinary(Row_2)
  BY DEF Row_2
<1>3. RowOrdinary(Row_3)
  BY DEF Row_3
<1>4. RowOrdinary(Row_4)
  BY DEF Row_4
<1>5. RowOrdinary(Row_5)
  BY DEF Row_5
<1>6. RowOrdinary(Row_6)
  BY DEF Row_6
<1>7. RowOrdinary(Row_7)
  BY DEF Row_7
<1>8. RowOrdinary(Row_8)
  BY DEF Row_8
<1>9. RowOrdinary(Row_9)
  BY DEF Row_9
<1>10. RowOrdinary(Row_A)
  BY DEF Row_A
<1>11. RowOrdinary(Row_B)
  BY DEF Row_B
<1>12. RowOrdinary(Row_C)
  BY DEF Row_C
<1>13. RowOrdinary(Row_D)
  BY DEF Row_D
<1>14. RowOrdinary(Row_E)
  BY DEF Row_E
<1>15. RowOrdinary(Row_F)
  BY DEF Row_F
<1> QED BY ONLY <1>0, <1>1, <1>2, <1>3, <1>4, <1>5, <1>6, <1>7, <1>8, <1>9, <1>10, <1>11,
           <1>12, <1>13, <1>14, <1>15

\* Every OpDef that cpu6502_tick can follow is well formed: it ends, its
\* functions exist, an address is set before it is used, and a raw status is
\* pulled in RTI only.  The reset_sequence is the only one with the function
\* that ends it.
THEOREM MicroProgramsWellFormed ==
  ASSUME NEW def \in OpDef
  PROVE  /\ WellFormed(micro_ops(def))
         /\ def # reset_sequence => Ordinary(micro_ops(def))
<1>1. CASE def \in Opcode
  <2> DEFINE i == 1 + def \div 16
             j == 1 + (def % 16)
  <2>1. i \in 1 .. 16
    <3>1. def \div 16 \in Int /\ def \div 16 >= 0
      BY <1>1 DEF Opcode
    <3>2. def \div 16 <= 15
      BY <1>1 DEF Opcode
    <3> DEFINE q == def \div 16
    <3> HIDE DEF q
    <3>3. 1 + q \in 1 .. 16
      BY <3>1, <3>2 DEF q
    <3> QED BY <3>3 DEF q
  <2>2. j \in 1 .. 16
    BY <1>1 DEF Opcode
  <2>3. micro_ops(def) = instruction_defs[i][j]
    BY <1>1 DEF micro_ops, Opcode, reset_sequence, nmi_sequence
  <2> HIDE DEF i, j
  <2>4. RowOrdinary(instruction_defs[i])
    BY <2>1, RowsOrdinary DEF instruction_defs
  <2> QED BY <2>2, <2>3, <2>4 DEF RowOrdinary, Ordinary
<1>2. CASE def = reset_sequence
  BY <1>2, OthersOrdinary DEF micro_ops
<1>3. CASE def = nmi_sequence
  BY <1>3, OthersOrdinary DEF micro_ops, reset_sequence, nmi_sequence, Ordinary
<1> QED BY <1>1, <1>2, <1>3 DEF OpDef

-----------------------------------------------------------------------------
(* The invariant *)

IInv == TypeOK /\ NoNullDispatch /\ CleanBoundary

\* The conjuncts of TypeOK that the host's callbacks can disturb.
HostOK ==
  /\ mem \in [Ram -> Byte]
  /\ reset_requested \in BOOLEAN
  /\ nmi_requested \in BOOLEAN
  /\ asked \in SUBSET Requests

\* A micro-program that goes on: at the next cycle of the same OpDef.
GoesOn(o) == o \in OpState /\ o.def = Now.def /\ o.cycle = Now.cycle

\* A micro-program that has ended.
Cleared(o) == \E w \in Word : o = [ZeroOp EXCEPT !.old_pc = w]

-----------------------------------------------------------------------------
(* The host *)

\* The data on the bus are bytes.
LEMMA BusDataTyped ==
  ASSUME TypeOK, NEW addr \in Word, NEW value \in BusData(addr)
  PROVE  value \in Byte
<1>1. CASE addr \in Ram
  BY <1>1 DEF TypeOK, BusData
<1>2. CASE addr \notin Ram
  BY <1>2, ReadDataAssumption DEF BusData
<1> QED BY <1>1, <1>2

\* The latches after a tick.
LEMMA LatchedTyped ==
  ASSUME NEW requests \in SUBSET Requests, Latched(requests)
  PROVE  /\ reset_requested' \in BOOLEAN
         /\ nmi_requested' \in BOOLEAN
         /\ asked' \in SUBSET Requests
BY DEF Latched

\* Whatever the callback requests, the latches keep their types.
LEMMA CallsBackTyped ==
  ASSUME NEW accesses, CallsBack(accesses)
  PROVE  /\ reset_requested' \in BOOLEAN
         /\ nmi_requested' \in BOOLEAN
         /\ asked' \in SUBSET Requests
<1>1. PICK requests \in CallbackRequests : Latched(requests)
  BY DEF CallsBack
<1>2. requests \in SUBSET Requests
  BY CallbackAssumption
<1> QED BY <1>1, <1>2, LatchedTyped

\* A read leaves the memory alone.
LEMMA ReadsTyped ==
  ASSUME TypeOK, NEW addr, NEW value, Reads(addr, value)
  PROVE  HostOK'
BY CallsBackTyped DEF Reads, HostOK, TypeOK

\* A write puts a byte into it.
LEMMA SetMemTyped ==
  ASSUME TypeOK, NEW addr, NEW value \in Byte, SetMem(addr, value)
  PROVE  mem' \in [Ram -> Byte]
BY DEF SetMem, TypeOK

\* A write disturbs none of what the host can disturb.
LEMMA WritesTyped ==
  ASSUME TypeOK, NEW addr, NEW value \in Byte, Writes(addr, value)
  PROVE  HostOK'
BY SetMemTyped, CallsBackTyped DEF Writes, HostOK

\* Nor does a tick without an access disturb it.
LEMMA NoAccessTyped ==
  ASSUME TypeOK, NoAccess
  PROVE  HostOK'
BY LatchedTyped DEF NoAccess, HostOK, TypeOK

-----------------------------------------------------------------------------
(* The OpState *)

\* The OpState that a fetch follows and a micro-program starts from.
LEMMA ZeroOpTyped ==
  /\ ZeroOp \in OpState
  /\ \A w \in Word : [ZeroOp EXCEPT !.old_pc = w] \in OpState
  /\ \A def \in OpDef : [ZeroOp EXCEPT !.def = def] \in OpState
<1>1. ZeroOp \in OpState
  <2>1. 0 \in Byte /\ 0 \in Word
    BY Bounds
  <2> QED BY <2>1 DEF ZeroOp, OpState
<1> QED BY <1>1 DEF OpState

\* What a micro-operation finds.
LEMMA NowTyped ==
  ASSUME TypeOK
  PROVE  /\ Selected \in OpState /\ Now \in OpState
         /\ Now.def = Selected.def /\ Now.cycle = U8(Selected.cycle + 1)
<1>1. Selected \in OpState
  <2>1. reset_sequence \in OpDef /\ nmi_sequence \in OpDef
    BY DEF OpDef
  <2> QED BY <2>1, ZeroOpTyped DEF Selected, TypeOK
<1>2. U8(Selected.cycle + 1) \in Byte
  <2>1. Selected.cycle + 1 \in Int
    BY <1>1, Bounds DEF OpState
  <2> QED BY <2>1, ConversionsTyped
<1>3. Now = [Selected EXCEPT !.cycle = U8(Selected.cycle + 1)]
  BY DEF Now
<1> HIDE DEF Selected
<1> QED BY <1>1, <1>2, <1>3 DEF OpState

\* The fields of op that micro-operations read and write.
LEMMA OpTyped ==
  ASSUME TypeOK
  PROVE  /\ op.addr_lo \in Byte /\ op.addr_hi \in Byte /\ op.data \in Byte
         /\ op.offset \in -128 .. 127 /\ op.ptr \in Word /\ op.addr \in Word
         /\ op.temp_addr \in Word /\ op.old_pc \in Word
         /\ full_addr(op) \in Word
<1>1. /\ op.addr_lo \in Byte /\ op.addr_hi \in Byte /\ op.data \in Byte
      /\ op.offset \in -128 .. 127 /\ op.ptr \in Word /\ op.addr \in Word
      /\ op.temp_addr \in Word /\ op.old_pc \in Word
  BY DEF TypeOK, OpState
<1> QED BY <1>1, AddressTyped DEF full_addr

\* A micro-operation may set any field of op but def and cycle.
LEMMA GoesOnUpdated ==
  ASSUME NEW o, GoesOn(o)
  PROVE  /\ \A b \in Byte :
              /\ GoesOn([o EXCEPT !.addr_lo = b])
              /\ GoesOn([o EXCEPT !.addr_hi = b])
              /\ GoesOn([o EXCEPT !.data = b])
         /\ \A w \in Word :
              /\ GoesOn([o EXCEPT !.old_pc = w])
              /\ GoesOn([o EXCEPT !.ptr = w])
              /\ GoesOn([o EXCEPT !.addr = w])
              /\ GoesOn([o EXCEPT !.temp_addr = w])
         /\ \A b \in Byte, w \in Word :
              /\ GoesOn([o EXCEPT !.addr_lo = b, !.addr = w])
              /\ GoesOn([o EXCEPT !.ptr = w, !.addr_lo = b])
         /\ \A n \in -128 .. 127 : GoesOn([o EXCEPT !.offset = n])
         /\ \A crossed \in BOOLEAN : GoesOn([o EXCEPT !.page_crossed = crossed])
<1> HIDE DEF Now
<1>1. \A b \in Byte : /\ GoesOn([o EXCEPT !.addr_lo = b])
                      /\ GoesOn([o EXCEPT !.addr_hi = b])
                      /\ GoesOn([o EXCEPT !.data = b])
  BY DEF GoesOn, OpState
<1>2. \A w \in Word : /\ GoesOn([o EXCEPT !.old_pc = w])
                      /\ GoesOn([o EXCEPT !.ptr = w])
  BY DEF GoesOn, OpState
<1>3. \A w \in Word : /\ GoesOn([o EXCEPT !.addr = w])
                      /\ GoesOn([o EXCEPT !.temp_addr = w])
  BY DEF GoesOn, OpState
<1>4. \A b \in Byte, w \in Word : GoesOn([o EXCEPT !.addr_lo = b, !.addr = w])
  BY DEF GoesOn, OpState
<1>5. \A b \in Byte, w \in Word : GoesOn([o EXCEPT !.ptr = w, !.addr_lo = b])
  BY DEF GoesOn, OpState
<1>6. \A n \in -128 .. 127 : GoesOn([o EXCEPT !.offset = n])
  BY DEF GoesOn, OpState
<1>7. \A crossed \in BOOLEAN : GoesOn([o EXCEPT !.page_crossed = crossed])
  BY DEF GoesOn, OpState
<1> QED BY <1>1, <1>2, <1>3, <1>4, <1>5, <1>6, <1>7

\* An address is set whole or in its two bytes.
LEMMA SetAddressGoesOn ==
  ASSUME NEW o, GoesOn(o), NEW w \in Word
  PROVE  GoesOn(SetAddress(o, w))
<1> HIDE DEF Now
<1>1. LoByte(w) \in Byte /\ HiByte(w) \in Byte
  BY HalvesTyped
<1> QED BY <1>1 DEF GoesOn, SetAddress, OpState

\* The indexed address, with its carry.
LEMMA IndexGoesOn ==
  ASSUME NEW o, GoesOn(o), NEW base \in Word, NEW index \in Byte
  PROVE  GoesOn(Index(o, base, index)) /\ Index(o, base, index) \in OpState
<1> DEFINE addr == U16(base + index)
<1>1. addr \in Word
  <2>1. base + index \in Int
    <3>1. base \in Int /\ index \in Int
      BY Bounds
    <3> QED BY <3>1
  <2> QED BY <2>1, ConversionsTyped
<1>2. Index(o, base, index) =
        [SetAddress(o, addr) EXCEPT !.page_crossed = ~SamePage(base, addr)]
  BY DEF Index
<1> HIDE DEF addr
<1>3. GoesOn(SetAddress(o, addr))
  BY <1>1, SetAddressGoesOn
<1>4. (~SamePage(base, addr)) \in BOOLEAN
  BY DEF SamePage
<1>5. GoesOn([SetAddress(o, addr) EXCEPT !.page_crossed = ~SamePage(base, addr)])
  BY <1>3, <1>4, GoesOnUpdated
<1> QED BY <1>2, <1>5 DEF GoesOn

\* The address of the read before the fix-up.
LEMMA TempFromSumGoesOn ==
  ASSUME NEW o, GoesOn(o), NEW index \in Byte
  PROVE  GoesOn(TempFromSum(o, index))
<1>1. o.addr_lo \in Byte /\ o.addr_hi \in Byte
  BY DEF GoesOn, OpState
<1>2. U8(o.addr_lo + index) \in Byte
  <2>1. o.addr_lo + index \in Int
    BY <1>1, Bounds
  <2> QED BY <2>1, ConversionsTyped
<1>3. Address(U8(o.addr_lo + index), o.addr_hi) \in Word
  BY <1>1, <1>2, AddressTyped
<1>4. GoesOn([o EXCEPT !.temp_addr = Address(U8(o.addr_lo + index), o.addr_hi)])
  BY <1>3, GoesOnUpdated
<1> QED BY <1>4 DEF TempFromSum

\* A micro-operation that changes nothing in op but the cycle.
LEMMA NowGoesOn ==
  ASSUME TypeOK
  PROVE  GoesOn(Now)
BY NowTyped DEF GoesOn

-----------------------------------------------------------------------------
(* How a micro-operation preserves the invariant: it goes on, and is not   *)
(* one of the finishing ones, or it clears op                              *)

\* A micro-operation that goes on is not the last one of its program, so
\* there is one after it.
LEMMA GoesOnPreserves ==
  ASSUME IInv, NEW kind, kind \notin FinishingKinds, Executes(kind),
         GoesOn(op'), cpu' \in RegisterFile, HostOK', UNCHANGED jammed
  PROVE  IInv'
<1> DEFINE program == micro_ops(Selected.def)
           cycle   == Selected.cycle
<1>1. /\ Selected.def \in OpDef /\ cycle \in Byte
      /\ op'.def = Selected.def /\ op'.cycle = U8(cycle + 1) /\ op' \in OpState
  <2>1. Selected \in OpState /\ Selected.def # NULL
    BY NowTyped DEF IInv, Executes
  <2>2. Selected.def \in OpDef /\ cycle \in Byte
    <3> HIDE DEF Selected
    <3> QED BY <2>1 DEF OpState
  <2> QED BY <2>2, NowTyped DEF IInv, GoesOn
<1>2. WellFormed(program)
  BY <1>1, MicroProgramsWellFormed
<1>3. cycle < Len(program) /\ program[cycle + 1].kind = kind
  BY DEF Executes
<1>4. op'.cycle < Len(program)
  <2> HIDE DEF program, cycle
  <2>1. Len(program) \in 1 .. 7 /\ program[Len(program)].kind \in FinishingKinds
    BY <1>2 DEF WellFormed
  <2>2. cycle + 1 # Len(program)
    BY <1>3, <2>1
  <2> QED BY <1>1, <1>3, <2>1, <2>2, Bounds DEF U8
<1>5. TypeOK'
  BY <1>1 DEF IInv, TypeOK, HostOK
<1>6. NoNullDispatch'
  BY <1>1, <1>4 DEF NoNullDispatch
<1>7. CleanBoundary'
  <2>1. op'.def # NULL
    BY <1>1 DEF OpDef, Opcode, reset_sequence, nmi_sequence, NULL
  <2> QED BY <2>1 DEF CleanBoundary
<1> QED BY <1>5, <1>6, <1>7 DEF IInv

\* A micro-operation that leaves op clear ends its program; old_pc may stay.
LEMMA ClearedPreserves ==
  ASSUME IInv, Cleared(op'), cpu' \in RegisterFile, HostOK', UNCHANGED jammed
  PROVE  IInv'
<1>1. PICK w \in Word : op' = [ZeroOp EXCEPT !.old_pc = w]
  BY DEF Cleared
<1>2. op' \in OpState /\ op'.def = NULL /\ op'.old_pc = w
  BY <1>1, ZeroOpTyped DEF ZeroOp
<1>3. TypeOK'
  BY <1>2 DEF IInv, TypeOK, HostOK
<1>4. NoNullDispatch' /\ CleanBoundary'
  BY <1>1, <1>2 DEF NoNullDispatch, CleanBoundary
<1> QED BY <1>3, <1>4 DEF IInv

\* So does finish_op, which leaves old_pc clear too.
LEMMA FinishPreserves ==
  ASSUME IInv, Finish, cpu' \in RegisterFile, HostOK', UNCHANGED jammed
  PROVE  IInv'
<1>1. ZeroOp.old_pc \in Word
  BY Bounds DEF ZeroOp
<1>2. ZeroOp = [ZeroOp EXCEPT !.old_pc = ZeroOp.old_pc]
  BY ZeroOpTyped DEF OpState
<1>3. Cleared(op')
  BY <1>1, <1>2 DEF Finish, Cleared
<1> QED BY <1>3, ClearedPreserves

-----------------------------------------------------------------------------
(* The accesses and register updates that many micro-operations share *)

\* A read that returns what the bus holds.
LEMMA ReadPreserves ==
  ASSUME IInv, NEW addr \in Word, NEW value \in BusData(addr), Reads(addr, value)
  PROVE  value \in Byte /\ HostOK'
BY BusDataTyped, ReadsTyped DEF IInv

\* Words and bytes are integers.
LEMMA WordsAreInt ==
  /\ \A w \in Word : w \in Int
  /\ \A b \in Byte : b \in Int
BY Bounds

\* The stack is in a page of its own.
LEMMA StackTyped ==
  ASSUME NEW sp \in Byte
  PROVE  Stack(sp) \in Word
<1>1. sp \in Int /\ 0 <= sp /\ sp <= 255
  BY Bounds
<1> QED BY <1>1, Bounds DEF Stack

\* Sums, in the width of the variable they are assigned to.
LEMMA SumTyped ==
  ASSUME NEW a \in Int, NEW b \in Int
  PROVE  U8(a + b) \in Byte /\ U16(a + b) \in Word
<1>1. a + b \in Int
  OBVIOUS
<1> QED BY <1>1, ConversionsTyped

\* The fields that are computed from their old value.
LEMMA NowFieldsTyped ==
  ASSUME TypeOK
  PROVE  Now.addr_lo \in Byte /\ Now.ptr \in Word /\ Now.data \in Byte
<1> HIDE DEF Now
<1> QED BY NowTyped DEF OpState

\* The addresses that are read.
LEMMA WordsTyped ==
  ASSUME IInv
  PROVE  /\ cpu \in RegisterFile /\ cpu.PC \in Word /\ Stack(cpu.SP) \in Word
         /\ cpu.X \in Byte /\ cpu.Y \in Byte
         /\ \A b \in Byte : b \in Word
         /\ U8(op.ptr + 1) \in Byte
<1>1. cpu \in RegisterFile
  BY DEF IInv, TypeOK
<1>2. Stack(cpu.SP) \in Word
  BY <1>1, RegistersTyped, StackTyped
<1>3. U8(op.ptr + 1) \in Byte
  <2>1. op.ptr \in Int
    BY OpTyped, WordsAreInt DEF IInv
  <2>2. op.ptr + 1 \in Int
    BY <2>1
  <2> QED BY <2>2, ConversionsTyped
<1>4. \A b \in Byte : b \in Word
  <2>1. \A b \in Int : b <= 255 => b <= 65535
    OBVIOUS
  <2> QED BY <2>1, Bounds
<1> QED BY <1>1, <1>2, <1>3, <1>4, RegistersTyped

\* PC wraps at the end of memory.
LEMMA AdvanceTyped ==
  ASSUME NEW c \in RegisterFile
  PROVE  Advance(c) \in RegisterFile
<1>1. c.PC + 1 \in Int
  <2>1. c.PC \in Int
    BY RegistersTyped, WordsAreInt
  <2> QED BY <2>1
<1>2. U16(c.PC + 1) \in Word
  BY <1>1, ConversionsTyped
<1>3. Advance(c) = [c EXCEPT !.PC = U16(c.PC + 1)]
  BY DEF Advance
<1> QED BY <1>2, <1>3, AssignPCTyped

-----------------------------------------------------------------------------
(* Every step preserves the invariant *)

\* The high byte of an address.
LEMMA AbsoluteAddressGoesOn ==
  ASSUME TypeOK, NEW high \in Byte
  PROVE  GoesOn(AbsoluteAddress(high))
<1>1. Address(op.addr_lo, high) \in Word
  BY OpTyped, AddressTyped
<1> QED BY <1>1, NowGoesOn, SetAddressGoesOn DEF AbsoluteAddress

\* The micro-operations that prepare an address all go on.
LEMMA AddressStepPreserves ==
  ASSUME IInv, AddressStep, UNCHANGED jammed
  PROVE  IInv'
<1>0. TypeOK /\ GoesOn(Now)
  BY NowGoesOn DEF IInv
<1>1. CASE dummy
  BY <1>1, <1>0, WordsTyped, NoAccessTyped, GoesOnPreserves
     DEF dummy, Continue, FinishingKinds
<1>2. CASE dummy_pc_read
  BY <1>2, <1>0, WordsTyped, ReadPreserves, GoesOnPreserves
     DEF dummy_pc_read, Continue, FinishingKinds
<1>3. CASE dummy_pc_read_and_inc
  BY <1>3, <1>0, WordsTyped, AdvanceTyped, ReadPreserves, GoesOnPreserves
     DEF dummy_pc_read_and_inc, Continue, FinishingKinds
<1>4. CASE dummy_stack_read
  BY <1>4, <1>0, WordsTyped, ReadPreserves, GoesOnPreserves
     DEF dummy_stack_read, Continue, FinishingKinds
<1>5. CASE dummy_temp_addr_read
  BY <1>5, <1>0, WordsTyped, OpTyped, ReadPreserves, GoesOnPreserves
     DEF dummy_temp_addr_read, Continue, FinishingKinds
<1>6. CASE read_pc_addr_low
  <2>1. PICK value \in BusData(cpu.PC) :
          Reads(cpu.PC, value) /\ op' = [Now EXCEPT !.addr_lo = value, !.addr = value]
    BY <1>6 DEF read_pc_addr_low
  <2>2. value \in Byte /\ HostOK'
    BY <2>1, WordsTyped, ReadPreserves
  <2>3. GoesOn(op')
    <3>1. value \in Word
      BY <2>2, WordsTyped
    <3>2. GoesOn([Now EXCEPT !.addr_lo = value, !.addr = value])
      BY <1>0, <2>2, <3>1, GoesOnUpdated
    <3> QED BY <2>1, <3>2
  <2> QED BY <1>6, <2>2, <2>3, WordsTyped, AdvanceTyped, GoesOnPreserves
          DEF read_pc_addr_low, FinishingKinds
<1>7. CASE read_pc_addr_low_add_x
  <2>1. HostOK'
    BY <1>7, WordsTyped, OpTyped, ReadPreserves, <1>0 DEF read_pc_addr_low_add_x
  <2>2. GoesOn(op')
    <3>1. U8(op.addr_lo + cpu.X) \in Byte
      BY <1>0, OpTyped, WordsTyped, WordsAreInt, SumTyped
    <3>2. U8(op.addr_lo + cpu.X) \in Word
      BY <3>1, WordsTyped
    <3>3. GoesOn([Now EXCEPT !.addr_lo = U8(op.addr_lo + cpu.X), !.addr = U8(op.addr_lo + cpu.X)])
      BY <1>0, <3>1, <3>2, GoesOnUpdated
    <3> QED BY <1>7, <3>3 DEF read_pc_addr_low_add_x
  <2> QED BY <1>7, <2>1, <2>2, WordsTyped, GoesOnPreserves
          DEF read_pc_addr_low_add_x, FinishingKinds
<1>8. CASE read_pc_addr_low_add_y
  <2>1. HostOK'
    BY <1>8, WordsTyped, OpTyped, ReadPreserves, <1>0 DEF read_pc_addr_low_add_y
  <2>2. GoesOn(op')
    <3>1. U8(Now.addr_lo + cpu.Y) \in Byte
      BY <1>0, NowFieldsTyped, WordsTyped, WordsAreInt, SumTyped
    <3>2. GoesOn([Now EXCEPT !.addr_lo = U8(Now.addr_lo + cpu.Y)])
      BY <1>0, <3>1, GoesOnUpdated
    <3> QED BY <1>8, <3>2 DEF read_pc_addr_low_add_y
  <2> QED BY <1>8, <2>1, <2>2, WordsTyped, GoesOnPreserves
          DEF read_pc_addr_low_add_y, FinishingKinds
<1>9. CASE read_pc_addr_high
  <2>1. PICK high \in BusData(cpu.PC) :
          Reads(cpu.PC, high) /\ op' = AbsoluteAddress(high)
    BY <1>9 DEF read_pc_addr_high
  <2>2. high \in Byte /\ HostOK'
    BY <2>1, WordsTyped, ReadPreserves
  <2>3. GoesOn(op')
    <3>1. GoesOn(AbsoluteAddress(high))
      BY <1>0, <2>2, AbsoluteAddressGoesOn
    <3> QED BY <2>1, <3>1
  <2> QED BY <1>9, <2>2, <2>3, WordsTyped, AdvanceTyped, GoesOnPreserves
          DEF read_pc_addr_high, FinishingKinds
<1>10. CASE read_pc_addr_high_add_x
  <2>1. PICK high \in BusData(cpu.PC) :
          Reads(cpu.PC, high) /\ op' = TempFromSum(Index(AbsoluteAddress(high), Address(op.addr_lo, high), cpu.X), cpu.X)
    BY <1>10 DEF read_pc_addr_high_add_x
  <2>2. high \in Byte /\ HostOK'
    BY <2>1, WordsTyped, ReadPreserves
  <2>3. GoesOn(op')
    <3>1. GoesOn(AbsoluteAddress(high))
      BY <1>0, <2>2, AbsoluteAddressGoesOn
    <3>2. Address(op.addr_lo, high) \in Word
      BY <1>0, <2>2, OpTyped, AddressTyped
    <3>3. GoesOn(Index(AbsoluteAddress(high), Address(op.addr_lo, high), cpu.X))
      BY <3>1, <3>2, WordsTyped, IndexGoesOn
    <3>4. GoesOn(TempFromSum(Index(AbsoluteAddress(high), Address(op.addr_lo, high), cpu.X),
                              cpu.X))
      BY <3>3, WordsTyped, TempFromSumGoesOn
    <3> QED BY <2>1, <3>4
  <2> QED BY <1>10, <2>2, <2>3, WordsTyped, AdvanceTyped, GoesOnPreserves
          DEF read_pc_addr_high_add_x, FinishingKinds
<1>11. CASE read_pc_addr_high_add_y
  <2>1. PICK high \in BusData(cpu.PC) :
          Reads(cpu.PC, high) /\ op' = [Index(AbsoluteAddress(high), Address(op.addr_lo, high), cpu.Y) EXCEPT
                     !.temp_addr = Address(U8(op.addr_lo + cpu.Y), high)]
    BY <1>11 DEF read_pc_addr_high_add_y
  <2>2. high \in Byte /\ HostOK'
    BY <2>1, WordsTyped, ReadPreserves
  <2>3. GoesOn(op')
    <3>1. GoesOn(AbsoluteAddress(high))
      BY <1>0, <2>2, AbsoluteAddressGoesOn
    <3>2. Address(op.addr_lo, high) \in Word
      BY <1>0, <2>2, OpTyped, AddressTyped
    <3>3. GoesOn(Index(AbsoluteAddress(high), Address(op.addr_lo, high), cpu.Y))
      BY <3>1, <3>2, WordsTyped, IndexGoesOn
    <3>4. U8(op.addr_lo + cpu.Y) \in Byte
      BY <1>0, OpTyped, WordsTyped, WordsAreInt, SumTyped
    <3>5. Address(U8(op.addr_lo + cpu.Y), high) \in Word
      BY <2>2, <3>4, AddressTyped
    <3>6. GoesOn([Index(AbsoluteAddress(high), Address(op.addr_lo, high), cpu.Y) EXCEPT
                    !.temp_addr = Address(U8(op.addr_lo + cpu.Y), high)])
      BY <3>3, <3>5, GoesOnUpdated
    <3> QED BY <2>1, <3>6
  <2> QED BY <1>11, <2>2, <2>3, WordsTyped, AdvanceTyped, GoesOnPreserves
          DEF read_pc_addr_high_add_y, FinishingKinds
<1>12. CASE fetch_ptr
  <2>1. PICK value \in BusData(cpu.PC) :
          Reads(cpu.PC, value) /\ op' = [Now EXCEPT !.ptr = value]
    BY <1>12 DEF fetch_ptr
  <2>2. value \in Byte /\ HostOK'
    BY <2>1, WordsTyped, ReadPreserves
  <2>3. GoesOn(op')
    <3>1. value \in Word
      BY <2>2, WordsTyped
    <3>2. GoesOn([Now EXCEPT !.ptr = value])
      BY <1>0, <3>1, GoesOnUpdated
    <3> QED BY <2>1, <3>2
  <2> QED BY <1>12, <2>2, <2>3, WordsTyped, AdvanceTyped, GoesOnPreserves
          DEF fetch_ptr, FinishingKinds
<1>13. CASE read_ptr_add_x
  <2>1. HostOK'
    BY <1>13, <1>0, OpTyped, ReadPreserves DEF read_ptr_add_x
  <2>2. GoesOn(op')
    <3>1. U8(Now.ptr + cpu.X) \in Word
      BY <1>0, NowFieldsTyped, WordsTyped, WordsAreInt, SumTyped
    <3>2. GoesOn([Now EXCEPT !.ptr = U8(Now.ptr + cpu.X)])
      BY <1>0, <3>1, GoesOnUpdated
    <3> QED BY <1>13, <3>2 DEF read_ptr_add_x
  <2> QED BY <1>13, <2>1, <2>2, WordsTyped, GoesOnPreserves
          DEF read_ptr_add_x, FinishingKinds
<1>14. CASE read_ptr_addr_low
  <2>1. PICK value \in BusData(op.ptr) :
          Reads(op.ptr, value) /\ op' = [Now EXCEPT !.addr_lo = value]
    BY <1>14 DEF read_ptr_addr_low
  <2>2. value \in Byte /\ HostOK'
    BY <2>1, WordsTyped, <1>0, OpTyped, ReadPreserves
  <2>3. GoesOn(op')
    <3>1. GoesOn([Now EXCEPT !.addr_lo = value])
      BY <1>0, <2>2, GoesOnUpdated
    <3> QED BY <2>1, <3>1
  <2> QED BY <1>14, <2>2, <2>3, WordsTyped, GoesOnPreserves
          DEF read_ptr_addr_low, FinishingKinds
<1>15. CASE read_ptr_addr_high
  <2>1. PICK high \in BusData(U8(op.ptr + 1)) :
          Reads(U8(op.ptr + 1), high) /\ op' = AbsoluteAddress(high)
    BY <1>15 DEF read_ptr_addr_high
  <2>2. high \in Byte /\ HostOK'
    BY <2>1, WordsTyped, ReadPreserves
  <2>3. GoesOn(op')
    <3>1. GoesOn(AbsoluteAddress(high))
      BY <1>0, <2>2, AbsoluteAddressGoesOn
    <3> QED BY <2>1, <3>1
  <2> QED BY <1>15, <2>2, <2>3, WordsTyped, GoesOnPreserves
          DEF read_ptr_addr_high, FinishingKinds
<1>16. CASE read_ptr_addr_high_add_y
  <2>1. PICK high \in BusData(U8(op.ptr + 1)) :
          Reads(U8(op.ptr + 1), high) /\ op' = TempFromSum(Index(Now, Address(op.addr_lo, high), cpu.Y), cpu.Y)
    BY <1>16 DEF read_ptr_addr_high_add_y
  <2>2. high \in Byte /\ HostOK'
    BY <2>1, WordsTyped, ReadPreserves
  <2>3. GoesOn(op')
    <3>1. Address(op.addr_lo, high) \in Word
      BY <1>0, <2>2, OpTyped, AddressTyped
    <3>2. GoesOn(Index(Now, Address(op.addr_lo, high), cpu.Y))
      BY <1>0, <3>1, WordsTyped, IndexGoesOn
    <3>3. GoesOn(TempFromSum(Index(Now, Address(op.addr_lo, high), cpu.Y), cpu.Y))
      BY <3>2, WordsTyped, TempFromSumGoesOn
    <3> QED BY <2>1, <3>3
  <2> QED BY <1>16, <2>2, <2>3, WordsTyped, GoesOnPreserves
          DEF read_ptr_addr_high_add_y, FinishingKinds
<1>17. CASE fetch_pointer_addr_low
  <2>1. PICK value \in BusData(full_addr(op)) :
          Reads(full_addr(op), value) /\ op' = [Now EXCEPT !.ptr = full_addr(op), !.addr_lo = value]
    BY <1>17 DEF fetch_pointer_addr_low
  <2>2. value \in Byte /\ HostOK'
    BY <2>1, WordsTyped, <1>0, OpTyped, ReadPreserves
  <2>3. GoesOn(op')
    <3>1. GoesOn([Now EXCEPT !.ptr = full_addr(op), !.addr_lo = value])
      BY <1>0, <2>2, OpTyped, GoesOnUpdated
    <3> QED BY <2>1, <3>1
  <2> QED BY <1>17, <2>2, <2>3, WordsTyped, GoesOnPreserves
          DEF fetch_pointer_addr_low, FinishingKinds
<1> QED BY <1>1, <1>2, <1>3, <1>4, <1>5, <1>6, <1>7, <1>8, <1>9, <1>10,
           <1>11, <1>12, <1>13, <1>14, <1>15, <1>16, <1>17
        DEF AddressStep

-----------------------------------------------------------------------------
(* The stack and the interrupt sequences *)

\* The stack pointer wraps in both directions.
LEMMA StackPointerTyped ==
  ASSUME TypeOK
  PROVE  /\ [cpu EXCEPT !.SP = U8(cpu.SP + 1)] \in RegisterFile
         /\ [cpu EXCEPT !.SP = U8(cpu.SP - 1)] \in RegisterFile
<1>1. cpu \in RegisterFile /\ cpu.SP \in Int
  BY RegistersTyped, WordsAreInt DEF TypeOK
<1>2. cpu.SP + 1 \in Int /\ cpu.SP - 1 \in Int
  BY <1>1
<1>3. U8(cpu.SP + 1) \in Byte /\ U8(cpu.SP - 1) \in Byte
  BY <1>2, ConversionsTyped
<1> QED BY <1>1, <1>3, AssignTyped

\* A push writes a byte and moves the stack pointer.
LEMMA PushesTyped ==
  ASSUME IInv, NEW value \in Byte, Pushes(value)
  PROVE  cpu' \in RegisterFile /\ HostOK'
BY StackPointerTyped, WritesTyped DEF Pushes, IInv

\* The status with bits 4 and 5 set or cleared.
LEMMA FlagsTyped ==
  ASSUME NEW c \in RegisterFile, NEW break, NEW unused
  PROVE  set_flag(set_flag(c, FLAG_BREAK, break), FLAG_UNUSED, unused)
           \in RegisterFile
<1> DEFINE c1 == set_flag(c, FLAG_BREAK, break)
<1>1. c1 \in RegisterFile
  BY FlagsAreBits, SetFlagTyped
<1> HIDE DEF c1
<1>2. set_flag(c1, FLAG_UNUSED, unused) \in RegisterFile
  BY <1>1, FlagsAreBits, SetFlagTyped
<1> QED BY <1>2 DEF c1

\* The status pushed is a byte.
LEMMA StatusPushedTyped ==
  ASSUME TypeOK, NEW break
  PROVE  StatusPushed(break) \in Byte
<1> DEFINE c == set_flag(set_flag(cpu, FLAG_BREAK, break), FLAG_UNUSED, TRUE)
<1>1. c \in RegisterFile
  BY FlagsTyped DEF TypeOK
<1>2. StatusPushed(break) = ByteOf(c.status)
  BY DEF StatusPushed
<1> HIDE DEF c
<1>3. ByteOf(c.status) \in Byte
  BY <1>1, RegistersTyped, ByteOfTyped
<1> QED BY <1>2, <1>3

\* A status pulled gives flags.
LEMMA StatusPulledTyped ==
  ASSUME NEW c \in RegisterFile, NEW value \in Byte
  PROVE  /\ StatusPulled(c, value) \in RegisterFile
         /\ \A sp \in Byte : [c EXCEPT !.status = BitsOf(value), !.SP = sp]
                               \in RegisterFile
<1>1. BitsOf(value) \in SUBSET Bit
  BY BitsOfTyped
<1>2. [c EXCEPT !.status = BitsOf(value)] \in RegisterFile
  BY <1>1 DEF RegisterFile
<1>3. StatusPulled(c, value) \in RegisterFile
  BY <1>2, FlagsTyped DEF StatusPulled
<1>4. \A sp \in Byte : [c EXCEPT !.status = BitsOf(value), !.SP = sp]
                         \in RegisterFile
  BY <1>1 DEF RegisterFile
<1> QED BY <1>3, <1>4

\* The first read of a vector.
LEMMA VectorLowPreserves ==
  ASSUME IInv, NEW function, function \notin FinishingKinds,
         NEW vector \in Word, VectorLow(function, vector), UNCHANGED jammed
  PROVE  IInv'
<1>1. PICK value \in BusData(vector) :
        Reads(vector, value) /\ op' = [Now EXCEPT !.addr_lo = value]
  BY DEF VectorLow
<1>2. value \in Byte /\ HostOK'
  BY <1>1, ReadPreserves
<1>3. GoesOn([Now EXCEPT !.addr_lo = value])
  BY <1>2, NowGoesOn, GoesOnUpdated DEF IInv
<1> QED BY <1>1, <1>2, <1>3, WordsTyped, GoesOnPreserves DEF VectorLow

\* The arrival in a handler.
LEMMA ArriveTyped ==
  ASSUME TypeOK, NEW high \in Byte, Arrive(high)
  PROVE  cpu' \in RegisterFile
<1>1. Address(op.addr_lo, high) \in Word
  BY OpTyped, AddressTyped
<1>2. [cpu EXCEPT !.PC = Address(op.addr_lo, high)] \in RegisterFile
  BY <1>1, AssignPCTyped DEF TypeOK
<1> QED BY <1>2, FlagsAreBits, SetFlagTyped DEF Arrive

\* The last read of a vector.
LEMMA VectorHighFinishPreserves ==
  ASSUME IInv, NEW function, NEW vector \in Word, vector + 1 \in Word,
         VectorHighFinish(function, vector), UNCHANGED jammed
  PROVE  IInv'
<1>1. PICK high \in BusData(vector + 1) : Reads(vector + 1, high) /\ Arrive(high)
  BY DEF VectorHighFinish
<1>2. high \in Byte /\ HostOK'
  BY <1>1, ReadPreserves
<1> QED BY <1>1, <1>2, ArriveTyped, FinishPreserves DEF VectorHighFinish, IInv

\* A jump to an address of which the high byte has just been read.
LEMMA JumpTyped ==
  ASSUME TypeOK, NEW high \in Byte
  PROVE  [cpu EXCEPT !.PC = Address(op.addr_lo, high)] \in RegisterFile
<1>1. Address(op.addr_lo, high) \in Word
  BY OpTyped, AddressTyped
<1> QED BY <1>1, AssignPCTyped DEF TypeOK

\* The micro-operations of the stack and of the interrupt sequences.
LEMMA StackStepPreserves ==
  ASSUME IInv, StackStep, UNCHANGED jammed
  PROVE  IInv'
<1>0. TypeOK /\ GoesOn(Now)
  BY NowGoesOn DEF IInv
<1>1. CASE inc_sp
  BY <1>1, <1>0, StackPointerTyped, NoAccessTyped, GoesOnPreserves
     DEF inc_sp, Continue, FinishingKinds
<1>2. CASE dec_sp
  BY <1>2, <1>0, StackPointerTyped, NoAccessTyped, GoesOnPreserves
     DEF dec_sp, Continue, FinishingKinds
<1>3. CASE push_pc_high
  <2>1. HiByte(cpu.PC) \in Byte
    BY WordsTyped, HalvesTyped
  <2> QED BY <1>3, <1>0, <2>1, PushesTyped, GoesOnPreserves
          DEF push_pc_high, Continue, FinishingKinds
<1>4. CASE push_pc_low
  <2>1. LoByte(cpu.PC) \in Byte
    BY WordsTyped, HalvesTyped
  <2> QED BY <1>4, <1>0, <2>1, PushesTyped, GoesOnPreserves
          DEF push_pc_low, Continue, FinishingKinds
<1>5. CASE push_p_with_break
  BY <1>5, <1>0, StatusPushedTyped, PushesTyped, GoesOnPreserves
     DEF push_p_with_break, Continue, FinishingKinds
<1>6. CASE push_p_without_break
  BY <1>6, <1>0, StatusPushedTyped, PushesTyped, GoesOnPreserves
     DEF push_p_without_break, Continue, FinishingKinds
<1>7. CASE php_imp
  BY <1>7, <1>0, StatusPushedTyped, PushesTyped, FinishPreserves DEF php_imp
<1>8. CASE pha_imp
  BY <1>8, WordsTyped, RegistersTyped, PushesTyped, FinishPreserves DEF pha_imp
<1>9. CASE pla_imp
  <2>1. PICK value \in BusData(Stack(cpu.SP)) :
          Reads(Stack(cpu.SP), value) /\ cpu' = LoadA(cpu, value)
    BY <1>9 DEF pla_imp
  <2>2. value \in Byte /\ HostOK'
    BY <2>1, WordsTyped, ReadPreserves
  <2>3. cpu' \in RegisterFile
    BY <2>1, <2>2, WordsTyped, LoadTyped
  <2> QED BY <1>9, <2>2, <2>3, FinishPreserves DEF pla_imp
<1>10. CASE plp_imp
  <2>1. PICK value \in BusData(Stack(cpu.SP)) :
          Reads(Stack(cpu.SP), value) /\ cpu' = StatusPulled(cpu, value)
    BY <1>10 DEF plp_imp
  <2>2. value \in Byte /\ HostOK'
    BY <2>1, WordsTyped, ReadPreserves
  <2>3. cpu' \in RegisterFile
    BY <2>1, <2>2, WordsTyped, StatusPulledTyped
  <2> QED BY <1>10, <2>2, <2>3, FinishPreserves DEF plp_imp
<1>11. CASE pull_p
  <2>1. PICK value \in BusData(Stack(cpu.SP)) :
          /\ Reads(Stack(cpu.SP), value)
          /\ cpu' = [cpu EXCEPT !.status = BitsOf(value), !.SP = U8(cpu.SP + 1)]
    BY <1>11 DEF pull_p
  <2>2. value \in Byte /\ HostOK'
    BY <2>1, WordsTyped, ReadPreserves
  <2>3. cpu' \in RegisterFile
    <3>1. U8(cpu.SP + 1) \in Byte
      BY WordsTyped, RegistersTyped, WordsAreInt, SumTyped
    <3> QED BY <2>1, <2>2, <3>1, WordsTyped, StatusPulledTyped
  <2> QED BY <1>11, <1>0, <2>2, <2>3, GoesOnPreserves
          DEF pull_p, Continue, FinishingKinds
<1>12. CASE pull_pc_low
  <2>1. PICK value \in BusData(Stack(cpu.SP)) :
          Reads(Stack(cpu.SP), value) /\ op' = [Now EXCEPT !.addr_lo = value]
    BY <1>12 DEF pull_pc_low
  <2>2. value \in Byte /\ HostOK'
    BY <2>1, WordsTyped, ReadPreserves
  <2>3. GoesOn([Now EXCEPT !.addr_lo = value])
    BY <1>0, <2>2, GoesOnUpdated
  <2> QED BY <1>12, <1>0, <2>1, <2>2, <2>3, StackPointerTyped, GoesOnPreserves
          DEF pull_pc_low, FinishingKinds
<1>13. CASE pull_pc_high_no_inc
  <2>1. PICK value \in BusData(Stack(cpu.SP)) :
          Reads(Stack(cpu.SP), value) /\ op' = [Now EXCEPT !.addr_hi = value]
    BY <1>13 DEF pull_pc_high_no_inc
  <2>2. value \in Byte /\ HostOK'
    BY <2>1, WordsTyped, ReadPreserves
  <2>3. GoesOn([Now EXCEPT !.addr_hi = value])
    BY <1>0, <2>2, GoesOnUpdated
  <2> QED BY <1>13, <2>1, <2>2, <2>3, WordsTyped, GoesOnPreserves
          DEF pull_pc_high_no_inc, FinishingKinds
<1>14. CASE pull_pc_high_finish
  <2> DEFINE flagged == set_flag(set_flag(cpu, FLAG_BREAK, FALSE),
                                 FLAG_UNUSED, TRUE)
  <2>1. PICK high \in BusData(Stack(cpu.SP)) :
          /\ Reads(Stack(cpu.SP), high)
          /\ cpu' = [flagged EXCEPT !.PC = Address(op.addr_lo, high)]
    BY <1>14 DEF pull_pc_high_finish
  <2>2. high \in Byte /\ HostOK'
    BY <2>1, WordsTyped, ReadPreserves
  <2>3. cpu' \in RegisterFile
    <3>1. flagged \in RegisterFile
      BY WordsTyped, FlagsTyped
    <3>2. Address(op.addr_lo, high) \in Word
      BY <1>0, <2>2, OpTyped, AddressTyped
    <3> HIDE DEF flagged
    <3> QED BY <2>1, <3>1, <3>2, AssignPCTyped
  <2> QED BY <1>14, <2>2, <2>3, FinishPreserves DEF pull_pc_high_finish
<1>15. /\ VECTOR_IRQ \in Word /\ VECTOR_IRQ + 1 \in Word
       /\ VECTOR_NMI \in Word /\ VECTOR_NMI + 1 \in Word
       /\ VECTOR_RESET \in Word /\ VECTOR_RESET + 1 \in Word
  BY Bounds DEF VECTOR_IRQ, VECTOR_NMI, VECTOR_RESET
<1>16. CASE read_irq_low \/ read_nmi_low \/ read_reset_low
  BY <1>15, <1>16, VectorLowPreserves
     DEF read_irq_low, read_nmi_low, read_reset_low, FinishingKinds
<1>17. CASE read_irq_high_finish \/ read_nmi_high_finish
  BY <1>15, <1>17, VectorHighFinishPreserves
     DEF read_irq_high_finish, read_nmi_high_finish
<1>18. CASE read_reset_high_finish
  <2>1. PICK high \in BusData(VECTOR_RESET + 1), requests \in CallbackRequests :
          /\ reset_requested' = FALSE
          /\ nmi_requested' = (nmi_requested \/ "nmi" \in requests)
          /\ asked' = requests
          /\ Arrive(high)
    BY <1>18 DEF read_reset_high_finish
  <2>2. high \in Byte
    BY <1>0, <1>15, BusDataTyped
  <2>3. HostOK'
    BY <1>0, <1>18, <2>1, CallbackAssumption
       DEF HostOK, TypeOK, read_reset_high_finish
  <2> QED BY <1>0, <1>18, <2>1, <2>2, <2>3, ArriveTyped, FinishPreserves
          DEF read_reset_high_finish
<1> QED BY <1>1, <1>2, <1>3, <1>4, <1>5, <1>6, <1>7, <1>8, <1>9, <1>10,
           <1>11, <1>12, <1>13, <1>14, <1>16, <1>17, <1>18
        DEF StackStep

-----------------------------------------------------------------------------
(* Instructions *)

\* A micro-operation is one of the micro-program of an OpDef.
LEMMA ExecutedTyped ==
  ASSUME IInv, NEW kind, Executes(kind)
  PROVE  /\ Selected.def \in OpDef
         /\ Selected.cycle + 1 \in 1 .. Len(micro_ops(Selected.def))
         /\ micro_ops(Selected.def)[Selected.cycle + 1].kind = kind
<1> DEFINE program == micro_ops(Selected.def)
           cycle   == Selected.cycle
<1>1. Selected.def \in OpDef /\ cycle \in Byte
  <2>1. Selected \in OpState /\ Selected.def # NULL
    BY NowTyped DEF IInv, Executes
  <2> HIDE DEF Selected
  <2> QED BY <2>1 DEF OpState
<1>2. cycle + 1 \in 1 .. Len(program)
  <2>1. Len(program) \in 1 .. 7
    BY <1>1, MicroProgramsWellFormed DEF WellFormed
  <2>2. cycle < Len(program)
    BY DEF Executes
  <2>3. cycle \in Int /\ cycle >= 0
    BY <1>1, Bounds
  <2> HIDE DEF program, cycle
  <2> QED BY <2>1, <2>2, <2>3
<1> QED BY <1>1, <1>2 DEF Executes

\* It belongs to an instruction that its function serves.
LEMMA MnemonicTyped ==
  ASSUME IInv, NEW kind, Executes(kind)
  PROVE  /\ kind \in {"imm", "addr", "indexed_read_maybe_finish",
                      "indexed_reread_fixed"} => Mnemonic \in ReadFns
         /\ kind = "dummy_write_and_compute" => Mnemonic \in ModifyFns
         /\ kind = "store" => Mnemonic \in StoreFns
         /\ kind = "acc" => Mnemonic \in AccumulatorFns
         /\ kind = "imp" => Mnemonic \in ImpliedFns
<1> DEFINE executed == micro_ops(Selected.def)[Selected.cycle + 1]
<1>1. FnTyped(executed) /\ executed.kind = kind
  BY ExecutedTyped, MicroProgramsWellFormed DEF WellFormed
<1>2. executed.fn = Mnemonic
  BY DEF Mnemonic
<1> HIDE DEF executed
<1> QED BY <1>1, <1>2 DEF FnTyped

\* TAS moves A AND X to the stack pointer, and stores it AND the high byte
\* of the address.
LEMMA TasTyped ==
  ASSUME TypeOK
  PROVE  TasSP \in RegisterFile /\ Stored("sha", cpu, op.addr_hi) \in Byte
<1>1. ByteAnd(cpu.A, cpu.X) \in Byte
  BY RegistersTyped, BitwiseTyped DEF TypeOK
<1>2. TasSP \in RegisterFile
  BY <1>1, AssignTyped DEF TasSP, TypeOK
<1>3. Stored("sha", cpu, op.addr_hi) \in Byte
  BY OpTyped, StoredTyped DEF TypeOK, StoreFns
<1> QED BY <1>2, <1>3

\* Instructions that read an operand.
LEMMA ReadInstructionPreserves ==
  ASSUME IInv, UNCHANGED jammed,
         f_imm \/ f_addr \/ f_indexed_read_maybe_finish \/ f_indexed_reread_fixed
  PROVE  IInv'
<1>0. TypeOK /\ GoesOn(Now)
  BY NowGoesOn DEF IInv
<1>1. CASE f_imm
  <2>1. PICK value \in BusData(cpu.PC) :
          Reads(cpu.PC, value) /\ cpu' = Execute(Mnemonic, Advance(cpu), value)
    BY <1>1 DEF f_imm
  <2>2. value \in Byte /\ HostOK'
    BY <2>1, WordsTyped, ReadPreserves
  <2>3. Mnemonic \in ReadFns
    BY <1>1, MnemonicTyped DEF f_imm
  <2>4. cpu' \in RegisterFile
    <3>1. Advance(cpu) \in RegisterFile
      BY WordsTyped, AdvanceTyped
    <3>2. Execute(Mnemonic, Advance(cpu), value) \in RegisterFile
      BY <2>2, <2>3, <3>1, ExecuteTyped
    <3> QED BY <2>1, <3>2
  <2> QED BY <1>1, <2>2, <2>4, FinishPreserves DEF f_imm
<1>2. CASE f_addr
  <2>1. PICK value \in BusData(full_addr(op)) :
          Reads(full_addr(op), value) /\ cpu' = Execute(Mnemonic, cpu, value)
    BY <1>2 DEF f_addr
  <2>2. value \in Byte /\ HostOK'
    BY <1>0, <2>1, OpTyped, ReadPreserves
  <2>3. Mnemonic \in ReadFns
    BY <1>2, MnemonicTyped DEF f_addr
  <2>4. Execute(Mnemonic, cpu, value) \in RegisterFile
    BY <2>2, <2>3, WordsTyped, ExecuteTyped
  <2> QED BY <1>2, <2>1, <2>2, <2>4, FinishPreserves DEF f_addr
<1>3. CASE f_indexed_read_maybe_finish
  <2>1. CASE op.page_crossed
    <3>1. PICK value \in BusData(op.temp_addr) : Reads(op.temp_addr, value)
      BY <1>3, <2>1 DEF f_indexed_read_maybe_finish
    <3>2. HostOK'
      BY <1>0, <3>1, OpTyped, ReadPreserves
    <3>3. Continue /\ UNCHANGED cpu
      BY <1>3, <2>1 DEF f_indexed_read_maybe_finish
    <3> QED BY <1>0, <1>3, <3>2, <3>3, WordsTyped, GoesOnPreserves
            DEF f_indexed_read_maybe_finish, Continue, FinishingKinds
  <2>2. CASE ~op.page_crossed
    <3>1. PICK value \in BusData(op.addr) :
            Reads(op.addr, value) /\ cpu' = Execute(Mnemonic, cpu, value)
      BY <1>3, <2>2 DEF f_indexed_read_maybe_finish
    <3>2. value \in Byte /\ HostOK'
      BY <1>0, <3>1, OpTyped, ReadPreserves
    <3>3. Mnemonic \in ReadFns
      BY <1>3, MnemonicTyped DEF f_indexed_read_maybe_finish
    <3>4. Execute(Mnemonic, cpu, value) \in RegisterFile
      BY <3>2, <3>3, WordsTyped, ExecuteTyped
    <3>5. Finish
      BY <1>3, <2>2 DEF f_indexed_read_maybe_finish
    <3> QED BY <3>1, <3>2, <3>4, <3>5, FinishPreserves
  <2> QED BY <2>1, <2>2
<1>4. CASE f_indexed_reread_fixed
  <2>1. PICK value \in BusData(op.addr) :
          Reads(op.addr, value) /\ cpu' = Execute(Mnemonic, cpu, value)
    BY <1>4 DEF f_indexed_reread_fixed
  <2>2. value \in Byte /\ HostOK'
    BY <1>0, <2>1, OpTyped, ReadPreserves
  <2>3. Mnemonic \in ReadFns
    BY <1>4, MnemonicTyped DEF f_indexed_reread_fixed
  <2>4. Execute(Mnemonic, cpu, value) \in RegisterFile
    BY <2>2, <2>3, WordsTyped, ExecuteTyped
  <2> QED BY <1>4, <2>1, <2>2, <2>4, FinishPreserves DEF f_indexed_reread_fixed
<1> QED BY <1>1, <1>2, <1>3, <1>4

\* Instructions that write memory.
LEMMA WriteInstructionPreserves ==
  ASSUME IInv, UNCHANGED jammed,
         \/ read_addr_data \/ f_dummy_write_and_compute \/ write_data_and_finish
         \/ f_store \/ tas_indexed_read_maybe_finish \/ tas_indexed_rewrite_fixed
  PROVE  IInv'
<1>0. TypeOK /\ GoesOn(Now)
  BY NowGoesOn DEF IInv
<1>1. CASE read_addr_data
  <2>1. PICK value \in BusData(full_addr(op)) :
          Reads(full_addr(op), value) /\ op' = [Now EXCEPT !.data = value]
    BY <1>1 DEF read_addr_data
  <2>2. value \in Byte /\ HostOK'
    BY <1>0, <2>1, OpTyped, ReadPreserves
  <2>3. GoesOn([Now EXCEPT !.data = value])
    BY <1>0, <2>2, GoesOnUpdated
  <2> QED BY <1>1, <2>1, <2>2, <2>3, WordsTyped, GoesOnPreserves
          DEF read_addr_data, FinishingKinds
<1>2. CASE f_dummy_write_and_compute
  <2> DEFINE new == Modified(Mnemonic, get_flag(cpu, FLAG_CARRY), Now.data)
  <2>1. Mnemonic \in ModifyFns
    BY <1>2, MnemonicTyped DEF f_dummy_write_and_compute
  <2>2. HostOK'
    BY <1>0, <1>2, OpTyped, NoAccessTyped, WritesTyped
       DEF f_dummy_write_and_compute
  <2>3. Modify(Mnemonic, cpu, op.data) \in RegisterFile
    BY <1>0, <2>1, OpTyped, WordsTyped, ModifyTyped
  <2>4. new \in Byte
    BY <1>0, <2>1, NowFieldsTyped, GetFlagTyped, ModifiedTyped
  <2>5. op' = [Now EXCEPT !.data = new]
    BY <1>2 DEF f_dummy_write_and_compute
  <2> HIDE DEF new
  <2>6. GoesOn([Now EXCEPT !.data = new])
    BY <1>0, <2>4, GoesOnUpdated
  <2> QED BY <1>2, <2>2, <2>3, <2>5, <2>6, GoesOnPreserves
          DEF f_dummy_write_and_compute, FinishingKinds
<1>3. CASE write_data_and_finish
  BY <1>0, <1>3, OpTyped, WordsTyped, WritesTyped, FinishPreserves
     DEF write_data_and_finish
<1>4. CASE f_store
  <2> DEFINE value  == Stored(Mnemonic, cpu, op.addr_hi)
             target == IF Mnemonic \in {"shx", "shy"} THEN op.addr
                       ELSE full_addr(op)
  <2>1. value \in Byte
    <3>1. Mnemonic \in StoreFns
      BY <1>4, MnemonicTyped DEF f_store
    <3> QED BY <1>0, <3>1, OpTyped, WordsTyped, StoredTyped
  <2>2. Writes(target, value)
    BY <1>4 DEF f_store
  <2>3. HostOK'
    <3> HIDE DEF value, target
    <3> QED BY <1>0, <2>1, <2>2, WritesTyped
  <2> QED BY <1>4, <2>3, WordsTyped, FinishPreserves DEF f_store
<1>5. CASE tas_indexed_read_maybe_finish
  <2>1. CASE op.page_crossed
    <3>1. PICK value \in BusData(op.temp_addr) : Reads(op.temp_addr, value)
      BY <1>5, <2>1 DEF tas_indexed_read_maybe_finish
    <3>2. HostOK'
      BY <1>0, <3>1, OpTyped, ReadPreserves
    <3>3. Continue /\ UNCHANGED cpu
      BY <1>5, <2>1 DEF tas_indexed_read_maybe_finish
    <3> QED BY <1>0, <1>5, <3>2, <3>3, WordsTyped, GoesOnPreserves
            DEF tas_indexed_read_maybe_finish, Continue, FinishingKinds
  <2>2. CASE ~op.page_crossed
    <3> DEFINE stored == Stored("sha", cpu, op.addr_hi)
    <3>1. /\ \E value \in BusData(op.addr) :
               CallsBack(<<Rd(op.addr, value), Wr(op.addr, stored)>>)
          /\ SetMem(op.addr, stored) /\ cpu' = TasSP /\ Finish
      BY <1>5, <2>2 DEF tas_indexed_read_maybe_finish
    <3>2. TasSP \in RegisterFile /\ stored \in Byte
      BY <1>0, TasTyped
    <3> HIDE DEF stored
    <3>3. HostOK'
      BY <1>0, <3>1, <3>2, CallsBackTyped, SetMemTyped DEF HostOK
    <3> QED BY <3>1, <3>2, <3>3, FinishPreserves
  <2> QED BY <2>1, <2>2
<1>6. CASE tas_indexed_rewrite_fixed
  <2>1. TasSP \in RegisterFile /\ Stored("sha", cpu, op.addr_hi) \in Byte
    BY <1>0, TasTyped
  <2>2. HostOK'
    BY <1>0, <1>6, <2>1, WritesTyped DEF tas_indexed_rewrite_fixed
  <2> QED BY <1>6, <2>1, <2>2, FinishPreserves DEF tas_indexed_rewrite_fixed
<1> QED BY <1>1, <1>2, <1>3, <1>4, <1>5, <1>6

\* Instructions without an operand, jumps and branches.
LEMMA ControlInstructionPreserves ==
  ASSUME IInv, UNCHANGED jammed,
         \/ f_acc \/ f_imp \/ jmp_abs_finish \/ jsr_abs \/ jmp_ind \/ rts_finish
         \/ f_fetch_offset \/ branch_op \/ branch_page_fix
  PROVE  IInv'
<1>0. TypeOK /\ GoesOn(Now)
  BY NowGoesOn DEF IInv
<1>1. CASE f_acc
  <2>1. Mnemonic \in AccumulatorFns
    BY <1>1, MnemonicTyped DEF f_acc
  <2>2. ExecuteAccumulator(Mnemonic, cpu) \in RegisterFile
    BY <2>1, WordsTyped, ExecuteAccumulatorTyped
  <2> QED BY <1>0, <1>1, <2>2, NoAccessTyped, FinishPreserves DEF f_acc
<1>2. CASE f_imp
  <2>1. Mnemonic \in ImpliedFns
    BY <1>2, MnemonicTyped DEF f_imp
  <2>2. ExecuteImplied(Mnemonic, cpu) \in RegisterFile
    BY <2>1, WordsTyped, ExecuteImpliedTyped
  <2>3. HostOK'
    BY <1>2, WordsTyped, ReadPreserves DEF f_imp
  <2> QED BY <1>2, <2>2, <2>3, FinishPreserves DEF f_imp
<1>3. CASE jmp_abs_finish \/ jsr_abs
  <2>1. PICK high \in BusData(cpu.PC) :
          /\ Reads(cpu.PC, high)
          /\ cpu' = [cpu EXCEPT !.PC = Address(op.addr_lo, high)]
    BY <1>3 DEF jmp_abs_finish, jsr_abs, JumpAbsolute
  <2>2. high \in Byte /\ HostOK'
    BY <2>1, WordsTyped, ReadPreserves
  <2> QED BY <1>0, <1>3, <2>1, <2>2, JumpTyped, FinishPreserves
          DEF jmp_abs_finish, jsr_abs, JumpAbsolute
<1>4. CASE jmp_ind
  <2> DEFINE high_addr == Address(LoByte(op.ptr + 1), HiByte(op.ptr))
  <2>1. PICK high \in BusData(high_addr) :
          /\ Reads(high_addr, high)
          /\ cpu' = [cpu EXCEPT !.PC = Address(op.addr_lo, high)]
    BY <1>4 DEF jmp_ind
  <2>2. high_addr \in Word
    <3>1. LoByte(op.ptr + 1) \in Byte
      BY WordsTyped DEF LoByte, U8
    <3>2. HiByte(op.ptr) \in Byte
      BY <1>0, OpTyped, HalvesTyped
    <3> QED BY <3>1, <3>2, AddressTyped
  <2> HIDE DEF high_addr
  <2>3. high \in Byte /\ HostOK'
    BY <2>1, <2>2, ReadPreserves
  <2> QED BY <1>0, <1>4, <2>1, <2>3, JumpTyped, FinishPreserves DEF jmp_ind
<1>5. CASE rts_finish
  <2>1. U16(full_addr(op) + 1) \in Word
    BY <1>0, OpTyped, WordsAreInt, SumTyped
  <2>2. [cpu EXCEPT !.PC = U16(full_addr(op) + 1)] \in RegisterFile
    BY <2>1, WordsTyped, AssignPCTyped
  <2> QED BY <1>0, <1>5, <2>2, NoAccessTyped, FinishPreserves DEF rts_finish
<1>6. CASE f_fetch_offset
  <2>1. PICK value \in BusData(cpu.PC) :
          /\ Reads(cpu.PC, value)
          /\ op' = IF BranchTaken(Mnemonic, cpu.status)
                   THEN [Now EXCEPT !.offset = S8(value)] ELSE ZeroOp
    BY <1>6 DEF f_fetch_offset
  <2>2. value \in Byte /\ HostOK'
    BY <2>1, WordsTyped, ReadPreserves
  <2>3. cpu' \in RegisterFile
    BY <1>6, WordsTyped, AdvanceTyped DEF f_fetch_offset
  <2>4. CASE op' = ZeroOp
    BY <1>6, <2>2, <2>3, <2>4, FinishPreserves DEF Finish
  <2>5. CASE op' = [Now EXCEPT !.offset = S8(value)]
    <3>1. S8(value) \in -128 .. 127
      BY <2>2, Bounds DEF S8
    <3>2. GoesOn([Now EXCEPT !.offset = S8(value)])
      BY <1>0, <3>1, GoesOnUpdated
    <3> QED BY <1>6, <2>2, <2>3, <2>5, <3>2, GoesOnPreserves
            DEF f_fetch_offset, FinishingKinds
  <2> QED BY <2>1, <2>4, <2>5
<1>7. CASE branch_op
  <2> DEFINE target == U16(cpu.PC + op.offset)
             next   == IF SamePage(cpu.PC, target) THEN ZeroOp ELSE Now
  <2>1. target \in Word
    <3>1. op.offset \in Int
      BY <1>0, OpTyped
    <3> QED BY <3>1, WordsTyped, WordsAreInt, SumTyped
  <2>2. cpu' = [cpu EXCEPT !.PC = target] /\ op' = [next EXCEPT !.old_pc = cpu.PC]
    BY <1>7 DEF branch_op
  <2>3. next = ZeroOp \/ next = Now
    OBVIOUS
  <2>4. HostOK'
    BY <1>7, WordsTyped, ReadPreserves DEF branch_op
  <2> HIDE DEF target, next
  <2>5. cpu' \in RegisterFile
    BY <2>1, <2>2, WordsTyped, AssignPCTyped
  <2>6. CASE next = ZeroOp
    <3>1. Cleared(op')
      BY <2>2, <2>6, WordsTyped DEF Cleared
    <3> QED BY <2>4, <2>5, <3>1, ClearedPreserves
  <2>7. CASE next = Now
    <3>1. GoesOn([Now EXCEPT !.old_pc = cpu.PC])
      BY <1>0, WordsTyped, GoesOnUpdated
    <3> QED BY <1>7, <2>2, <2>4, <2>5, <2>7, <3>1, GoesOnPreserves
            DEF branch_op, FinishingKinds
  <2> QED BY <2>3, <2>6, <2>7
<1>8. CASE branch_page_fix
  <2> DEFINE wrong == Address(LoByte(cpu.PC), HiByte(op.old_pc))
  <2>1. wrong \in Word
    BY <1>0, OpTyped, WordsTyped, HalvesTyped, AddressTyped
  <2>2. \E value \in BusData(wrong) : Reads(wrong, value)
    BY <1>8 DEF branch_page_fix
  <2> HIDE DEF wrong
  <2>3. HostOK'
    BY <2>1, <2>2, ReadPreserves
  <2> QED BY <1>8, <2>3, WordsTyped, FinishPreserves DEF branch_page_fix
<1> QED BY <1>1, <1>2, <1>3, <1>4, <1>5, <1>6, <1>7, <1>8

-----------------------------------------------------------------------------
(* The invariant *)

\* A fetch starts a micro-program at its first cycle, for op was clear.
LEMMA FetchPreserves ==
  ASSUME IInv, Fetch, UNCHANGED jammed
  PROVE  IInv'
<1>1. Selected = op /\ op.def = NULL
  BY DEF Fetch, Selected, NmiTaken, ZeroOp, NULL, reset_sequence, nmi_sequence,
         IInv, TypeOK, OpState
<1>2. op = [ZeroOp EXCEPT !.old_pc = op.old_pc] /\ op.cycle = 0
  BY <1>1 DEF IInv, CleanBoundary, ZeroOp
<1>3. PICK opcode \in BusData(cpu.PC) :
        Reads(cpu.PC, opcode) /\ op' = [op EXCEPT !.def = opcode]
  BY DEF Fetch
<1>4. opcode \in Byte /\ HostOK'
  BY <1>3, WordsTyped, ReadPreserves
<1>5. opcode \in OpDef /\ opcode # NULL
  BY <1>4, Bounds DEF OpDef, Opcode, NULL
<1>6. /\ op' \in OpState /\ op'.def = opcode /\ op'.cycle = 0
  BY <1>2, <1>3, <1>5 DEF IInv, TypeOK, OpState
<1>7. TypeOK'
  <2>1. cpu' \in RegisterFile
    BY WordsTyped, AdvanceTyped DEF Fetch
  <2> QED BY <1>4, <1>6, <2>1 DEF IInv, TypeOK, HostOK
<1>8. 0 < Len(micro_ops(opcode))
  <2> DEFINE length == Len(micro_ops(opcode))
  <2>1. length \in 1 .. 7
    BY <1>5, MicroProgramsWellFormed DEF WellFormed
  <2> HIDE DEF length
  <2>2. 0 < length
    BY <2>1
  <2> QED BY <2>2 DEF length
<1>9. NoNullDispatch' /\ CleanBoundary'
  BY <1>5, <1>6, <1>8 DEF NoNullDispatch, CleanBoundary
<1> QED BY <1>7, <1>9 DEF IInv

\* A jam leaves the instruction in op, and nothing is dispatched from there.
LEMMA JamPreserves ==
  ASSUME IInv, kil_imp
  PROVE  IInv'
<1>0. TypeOK /\ GoesOn(Now)
  BY NowGoesOn DEF IInv
<1>1. op' = Now /\ jammed' = TRUE /\ cpu' = cpu
  BY DEF kil_imp, Continue
<1>2. op' \in OpState /\ op'.def # NULL
  BY <1>0, <1>1, NowTyped DEF kil_imp, Executes
<1>3. HostOK'
  BY <1>0, NoAccessTyped DEF kil_imp
<1>4. TypeOK'
  BY <1>0, <1>1, <1>2, <1>3 DEF TypeOK, HostOK
<1> QED BY <1>1, <1>2, <1>4 DEF IInv, NoNullDispatch, CleanBoundary

\* The calls that leave op alone: the requests, set_pc, and the tick of a
\* jammed CPU.
LEMMA HostCallPreserves ==
  ASSUME IInv,
         TickJammed \/ cpu6502_reset \/ cpu6502_nmi \/ cpu6502_set_pc
  PROVE  IInv'
<1>1. op' = op /\ jammed' = jammed
  BY DEF TickJammed, cpu6502_reset, cpu6502_nmi, cpu6502_set_pc
<1>2. cpu' \in RegisterFile
  <2>1. CASE cpu6502_set_pc
    BY <2>1, HostPCsAssumption, AssignPCTyped DEF cpu6502_set_pc, IInv, TypeOK
  <2>2. CASE cpu' = cpu
    BY <2>2 DEF IInv, TypeOK
  <2> QED BY <2>1, <2>2 DEF TickJammed, cpu6502_reset, cpu6502_nmi
<1>3. HostOK'
  BY DEF TickJammed, cpu6502_reset, cpu6502_nmi, cpu6502_set_pc, HostOK, IInv,
         TypeOK, Requests
<1> QED BY <1>1, <1>2, <1>3
        DEF IInv, TypeOK, HostOK, NoNullDispatch, CleanBoundary

\* Every step of the library and of its host.
LEMMA NextPreserves ==
  ASSUME IInv, [Next]_vars
  PROVE  IInv'
<1>1. CASE InstructionStep /\ UNCHANGED jammed
  BY <1>1, ReadInstructionPreserves, WriteInstructionPreserves,
     ControlInstructionPreserves DEF InstructionStep
<1>2. CASE UNCHANGED vars
  BY <1>2 DEF vars, IInv, TypeOK, NoNullDispatch, CleanBoundary
<1> QED BY <1>1, <1>2, FetchPreserves, AddressStepPreserves, StackStepPreserves,
           JamPreserves, HostCallPreserves DEF Next, cpu6502_tick

\* A CPU as cpu6502_init leaves it.
LEMMA InitTyped ==
  ASSUME cpu6502_init
  PROVE  IInv
<1>1. cpu \in RegisterFile
  <2>1. \A variant \in Variants : PoweredUp(variant) \in RegisterFile
    BY Bounds DEF PoweredUp, RegisterFile, Bit, FLAG_UNUSED
  <2> QED BY <2>1 DEF cpu6502_init
<1>2. op = ZeroOp /\ op \in OpState /\ op.def = NULL
  BY ZeroOpTyped DEF cpu6502_init, ZeroOp
<1>3. mem \in [Ram -> Byte]
  BY InitialRamAssumption DEF cpu6502_init
<1>4. TypeOK
  BY <1>1, <1>2, <1>3 DEF cpu6502_init, TypeOK
<1>5. ZeroOp = [ZeroOp EXCEPT !.old_pc = ZeroOp.old_pc]
  BY ZeroOpTyped DEF OpState
<1> QED BY <1>2, <1>4, <1>5 DEF IInv, NoNullDispatch, CleanBoundary

\* The three invariants hold together, whatever the host does.
THEOREM Invariant == Spec => []IInv
<1>1. cpu6502_init => IInv
  BY InitTyped
<1>2. IInv /\ [Next]_vars => IInv'
  BY NextPreserves
<1> QED BY <1>1, <1>2, PTL DEF Spec

\* The fields of CPU6502 and OpState keep their types.
THEOREM TypeCorrect == Spec => []TypeOK
<1>1. IInv => TypeOK
  BY DEF IInv
<1> QED BY <1>1, Invariant, PTL

\* cpu6502_tick never calls a NULL or out-of-range slot of micro_ops, for any
\* contents of memory and any requests at any time.
THEOREM DispatchSafe == Spec => []NoNullDispatch
<1>1. IInv => NoNullDispatch
  BY DEF IInv
<1> QED BY <1>1, Invariant, PTL

\* Nothing of an instruction, an interrupt or an interrupted instruction is
\* left in op when the next one starts.
THEOREM BoundaryClean == Spec => []CleanBoundary
<1>1. IInv => CleanBoundary
  BY DEF IInv
<1> QED BY <1>1, Invariant, PTL

-----------------------------------------------------------------------------
(* The latches.  A tick that finds the NMI latch set, no reset requested     *)
(* and no instruction in progress takes the NMI: it can only execute the     *)
(* first micro-operation of nmi_sequence, dummy_pc_read.  Every other tick   *)
(* and every call of the host keeps the latch.  What the host requests       *)
(* enters the latches, but for a reset requested in the very read that ends  *)
(* a reset.                                                                  *)

(* Ticks that take an NMI *)

\* The tick that takes an NMI executes dummy_pc_read, and then nmi_sequence
\* is in progress.
LEMMA NmiStartsWithPcRead ==
  ASSUME NmiTaken
  PROVE  /\ Selected.def = nmi_sequence /\ Now.def = nmi_sequence
         /\ \A kind : Executes(kind) => kind = "dummy_pc_read"
<1>1. Selected = [ZeroOp EXCEPT !.def = nmi_sequence]
  BY DEF NmiTaken, Selected
<1>2. Selected.def = nmi_sequence /\ Selected.cycle = 0
  BY <1>1 DEF ZeroOp
<1>3. Now.def = nmi_sequence
  BY <1>1 DEF Now, ZeroOp
<1>4. micro_ops(nmi_sequence)[1].kind = "dummy_pc_read"
  BY DEF micro_ops, nmi_sequence, reset_sequence, NmiSequence, Do
<1>5. ASSUME NEW kind, Executes(kind)
      PROVE  kind = "dummy_pc_read"
  BY <1>2, <1>4, <1>5 DEF Executes
<1> QED BY <1>2, <1>3, <1>5

\* No other tick takes it.
LEMMA OnlyPcReadTakesNmi ==
  ASSUME NmiTaken, Fetch \/ AddressStep \/ StackStep \/ InstructionStep \/ kil_imp
  PROVE  dummy_pc_read
<1>1. \A kind : Executes(kind) => kind = "dummy_pc_read"
  BY NmiStartsWithPcRead
<1>2. ~Fetch
  BY NmiStartsWithPcRead DEF Fetch, NULL, nmi_sequence
<1>3. ~kil_imp
  BY <1>1 DEF kil_imp
<1>4. ~StackStep
  BY <1>1 DEF StackStep, inc_sp, dec_sp, push_pc_high, push_pc_low,
     push_p_with_break, push_p_without_break, pull_p, pull_pc_low,
     pull_pc_high_no_inc, pull_pc_high_finish, php_imp, pha_imp, plp_imp,
     pla_imp, read_irq_low, read_irq_high_finish, read_nmi_low,
     read_nmi_high_finish, read_reset_low, read_reset_high_finish,
     VectorLow, VectorHighFinish
<1>5. ~InstructionStep
  BY <1>1 DEF InstructionStep, f_imm, f_addr, f_indexed_read_maybe_finish,
     f_indexed_reread_fixed, read_addr_data, f_dummy_write_and_compute,
     write_data_and_finish, f_store, tas_indexed_read_maybe_finish,
     tas_indexed_rewrite_fixed, f_acc, f_imp, jmp_abs_finish, jsr_abs,
     JumpAbsolute, jmp_ind, rts_finish, f_fetch_offset, branch_op,
     branch_page_fix
<1>6. AddressStep => dummy_pc_read
  BY <1>1 DEF AddressStep, dummy, dummy_pc_read_and_inc, dummy_stack_read,
     dummy_temp_addr_read, read_pc_addr_low, read_pc_addr_low_add_x,
     read_pc_addr_low_add_y, read_pc_addr_high, read_pc_addr_high_add_x,
     read_pc_addr_high_add_y, fetch_ptr, read_ptr_add_x, read_ptr_addr_low,
     read_ptr_addr_high, read_ptr_addr_high_add_y, fetch_pointer_addr_low
<1> QED BY <1>2, <1>3, <1>4, <1>5, <1>6

-----------------------------------------------------------------------------
(* Ticks that do not *)

\* An access keeps the latch, and so does a tick without one.
LEMMA AccessKeepsNmi ==
  ASSUME nmi_requested, ~NmiTaken
  PROVE  /\ \A accesses : CallsBack(accesses) => nmi_requested'
         /\ NoAccess => nmi_requested'
BY DEF CallsBack, NoAccess, Latched

\* Every micro-operation and every fetch keeps it.
LEMMA TickKeepsNmi ==
  ASSUME nmi_requested, ~NmiTaken,
         Fetch \/ AddressStep \/ StackStep \/ InstructionStep \/ kil_imp
  PROVE  nmi_requested'
<1>1. /\ \A addr, value : Reads(addr, value) => nmi_requested'
      /\ \A addr, value : Writes(addr, value) => nmi_requested'
      /\ NoAccess => nmi_requested'
      /\ \A accesses : CallsBack(accesses) => nmi_requested'
  BY AccessKeepsNmi DEF Reads, Writes
<1>2. Fetch => nmi_requested'
  BY <1>1 DEF Fetch
<1>3. kil_imp => nmi_requested'
  BY <1>1 DEF kil_imp
<1>4. AddressStep => nmi_requested'
  BY <1>1 DEF AddressStep, dummy, dummy_pc_read, dummy_pc_read_and_inc,
     dummy_stack_read, dummy_temp_addr_read, read_pc_addr_low,
     read_pc_addr_low_add_x, read_pc_addr_low_add_y, read_pc_addr_high,
     read_pc_addr_high_add_x, read_pc_addr_high_add_y, fetch_ptr,
     read_ptr_add_x, read_ptr_addr_low, read_ptr_addr_high,
     read_ptr_addr_high_add_y, fetch_pointer_addr_low
<1>5. StackStep => nmi_requested'
  BY <1>1 DEF StackStep, inc_sp, dec_sp, push_pc_high, push_pc_low, Pushes,
     push_p_with_break, push_p_without_break, pull_p, pull_pc_low,
     pull_pc_high_no_inc, pull_pc_high_finish, php_imp, pha_imp, plp_imp,
     pla_imp, read_irq_low, read_irq_high_finish, read_nmi_low,
     read_nmi_high_finish, read_reset_low, read_reset_high_finish,
     VectorLow, VectorHighFinish
<1>6. InstructionStep => nmi_requested'
  BY <1>1 DEF InstructionStep, f_imm, f_addr, f_indexed_read_maybe_finish,
     f_indexed_reread_fixed, read_addr_data, f_dummy_write_and_compute,
     write_data_and_finish, f_store, tas_indexed_read_maybe_finish,
     tas_indexed_rewrite_fixed, f_acc, f_imp, jmp_abs_finish, jsr_abs,
     JumpAbsolute, jmp_ind, rts_finish, f_fetch_offset, branch_op,
     branch_page_fix
<1> QED BY <1>2, <1>3, <1>4, <1>5, <1>6

-----------------------------------------------------------------------------

\* A latched NMI leaves the latch only for its own sequence, which starts
\* between two instructions and never instead of a reset: whatever the host
\* asks for and whenever, cpu6502_tick drops no NMI.
THEOREM NmiKept == Spec => NmiNotLost
<1> DEFINE Kept == nmi_requested /\ ~nmi_requested' =>
                     op.def = NULL /\ ~reset_requested /\ op'.def = nmi_sequence
<1>1. ASSUME [Next]_vars, nmi_requested, ~nmi_requested'
      PROVE  op.def = NULL /\ ~reset_requested /\ op'.def = nmi_sequence
  <2>1. Fetch \/ AddressStep \/ StackStep \/ InstructionStep \/ kil_imp
    BY <1>1 DEF Next, cpu6502_tick, TickJammed, cpu6502_reset, cpu6502_nmi,
                cpu6502_set_pc, vars
  <2>2. NmiTaken
    BY <1>1, <2>1, TickKeepsNmi
  <2>3. op' = Now
    BY <2>1, <2>2, OnlyPcReadTakesNmi DEF dummy_pc_read, Continue
  <2> QED BY <2>2, <2>3, NmiStartsWithPcRead DEF NmiTaken
<1>2. [Next]_vars => [Kept]_vars
  BY <1>1
<1> QED BY <1>2, PTL DEF Spec, NmiNotLost

-----------------------------------------------------------------------------
(* Requests *)

\* A callback puts the requests it makes into the latches.
LEMMA CallbacksLatch ==
  ASSUME \/ NoAccess
         \/ \E accesses : CallsBack(accesses)
  PROVE  /\ "nmi" \in asked' => nmi_requested'
         /\ "reset" \in asked' => reset_requested'
BY DEF NoAccess, CallsBack, Latched

\* The read that ends a reset belongs to reset_sequence, in progress before
\* the tick.
LEMMA ResetEndsInItsSequence ==
  ASSUME IInv, Executes("read_reset_high_finish")
  PROVE  op.def = reset_sequence
<1> DEFINE program == micro_ops(Selected.def)
           i       == Selected.cycle + 1
<1>1. Selected.def \in OpDef /\ i \in 1 .. Len(program)
      /\ program[i].kind = "read_reset_high_finish"
  BY ExecutedTyped
<1>2. Selected.def = reset_sequence
  <2>1. ~Ordinary(program)
    <3> HIDE DEF program, i
    <3> QED BY <1>1 DEF Ordinary
  <2> QED BY <1>1, <2>1, MicroProgramsWellFormed
<1>3. ~reset_requested
  <2> SUFFICES ASSUME reset_requested PROVE FALSE
    OBVIOUS
  <2>1. Selected = [ZeroOp EXCEPT !.def = reset_sequence]
    BY DEF Selected
  <2>2. i = 1
    BY <2>1 DEF ZeroOp
  <2>3. micro_ops(reset_sequence)[1].kind = "dummy"
    BY DEF micro_ops, ResetSequence, Do
  <2> HIDE DEF i
  <2> QED BY <1>1, <1>2, <2>2, <2>3
<1>4. ~NmiTaken
  <2>1. nmi_sequence # reset_sequence
    BY DEF nmi_sequence, reset_sequence
  <2> QED BY <1>2, <2>1, NmiStartsWithPcRead
<1>5. Selected = op
  BY <1>3, <1>4 DEF Selected
<1> QED BY <1>2, <1>5

\* Every micro-operation but that one latches the requests of its callback.
LEMMA TickLatches ==
  ASSUME Fetch \/ AddressStep \/ StackStep \/ InstructionStep \/ kil_imp,
         ~read_reset_high_finish
  PROVE  /\ "nmi" \in asked' => nmi_requested'
         /\ "reset" \in asked' => reset_requested'
<1> DEFINE AllLatched == /\ "nmi" \in asked' => nmi_requested'
                         /\ "reset" \in asked' => reset_requested'
<1>1. /\ \A addr, value : Reads(addr, value) => AllLatched
      /\ \A addr, value : Writes(addr, value) => AllLatched
      /\ NoAccess => AllLatched
      /\ \A accesses : CallsBack(accesses) => AllLatched
  BY CallbacksLatch DEF Reads, Writes
<1> HIDE DEF AllLatched
<1>2. Fetch => AllLatched
  BY <1>1 DEF Fetch
<1>3. kil_imp => AllLatched
  BY <1>1 DEF kil_imp
<1>4. AddressStep => AllLatched
  BY <1>1 DEF AddressStep, dummy, dummy_pc_read, dummy_pc_read_and_inc,
     dummy_stack_read, dummy_temp_addr_read, read_pc_addr_low,
     read_pc_addr_low_add_x, read_pc_addr_low_add_y, read_pc_addr_high,
     read_pc_addr_high_add_x, read_pc_addr_high_add_y, fetch_ptr,
     read_ptr_add_x, read_ptr_addr_low, read_ptr_addr_high,
     read_ptr_addr_high_add_y, fetch_pointer_addr_low
<1>5. StackStep => AllLatched
  BY <1>1 DEF StackStep, inc_sp, dec_sp, push_pc_high, push_pc_low, Pushes,
     push_p_with_break, push_p_without_break, pull_p, pull_pc_low,
     pull_pc_high_no_inc, pull_pc_high_finish, php_imp, pha_imp, plp_imp,
     pla_imp, read_irq_low, read_irq_high_finish, read_nmi_low,
     read_nmi_high_finish, read_reset_low, VectorLow, VectorHighFinish
<1>6. InstructionStep => AllLatched
  BY <1>1 DEF InstructionStep, f_imm, f_addr, f_indexed_read_maybe_finish,
     f_indexed_reread_fixed, read_addr_data, f_dummy_write_and_compute,
     write_data_and_finish, f_store, tas_indexed_read_maybe_finish,
     tas_indexed_rewrite_fixed, f_acc, f_imp, jmp_abs_finish, jsr_abs,
     JumpAbsolute, jmp_ind, rts_finish, f_fetch_offset, branch_op,
     branch_page_fix
<1> QED BY <1>2, <1>3, <1>4, <1>5, <1>6 DEF AllLatched

\* A request that reaches the library is latched at once, whether it comes
\* from a callback or from between two ticks; only a reset requested in the
\* read that ends a reset is dropped, and then that reset has just been done.
THEOREM RequestsKept == Spec => RequestsAreLatched
<1> DEFINE AllLatched ==
      /\ "nmi" \in asked' => nmi_requested'
      /\ "reset" \in asked' =>
           reset_requested' \/ (op.def = reset_sequence /\ op'.def = NULL)
<1>1. ASSUME IInv, [Next]_vars, ~UNCHANGED vars
      PROVE  AllLatched
  <2>1. CASE read_reset_high_finish
    <3>1. op.def = reset_sequence
      BY <1>1, <2>1, ResetEndsInItsSequence DEF read_reset_high_finish
    <3>2. op'.def = NULL
      BY <2>1 DEF read_reset_high_finish, Finish, ZeroOp
    <3>3. "nmi" \in asked' => nmi_requested'
      BY <2>1 DEF read_reset_high_finish
    <3> QED BY <3>1, <3>2, <3>3
  <2>2. CASE /\ Fetch \/ AddressStep \/ StackStep \/ InstructionStep \/ kil_imp
             /\ ~read_reset_high_finish
    BY <2>2, TickLatches
  <2>3. CASE TickJammed \/ cpu6502_reset \/ cpu6502_nmi \/ cpu6502_set_pc
    BY <2>3 DEF TickJammed, cpu6502_reset, cpu6502_nmi, cpu6502_set_pc
  <2> QED BY <1>1, <2>1, <2>2, <2>3 DEF Next, cpu6502_tick
<1>2. IInv /\ [Next]_vars => [AllLatched]_vars
  BY <1>1 DEF vars
<1> QED BY <1>2, Invariant, PTL DEF Spec, RequestsAreLatched

=============================================================================
