------------------------------ MODULE Cpu6502 ------------------------------
(***************************************************************************)
(* The CPU of src/6502.c and src/micro_ops.c as its host sees it: a state  *)
(* machine that advances one micro-operation per call of cpu6502_tick,     *)
(* reaches memory only through the host's two callbacks, and takes         *)
(* requests for a reset or an NMI through two latches.                     *)
(*                                                                         *)
(* A step of Next is one call of a library function.  A tick in which the  *)
(* CPU calls back the host may come back with a reset or an NMI requested  *)
(* by the callback.                                                        *)
(***************************************************************************)
EXTENDS Alu, OpDefs

CONSTANTS
  Ram,              \* addresses the host backs with memory
  ReadData(_),      \* what a read of any other address may return
  InitialRam,       \* what a cell of Ram may hold at first
  CallbackRequests, \* the sets of requests one callback may make
  HostRequests,     \* the requests the host may make between two ticks
  HostPCs           \* the addresses the host may pass to cpu6502_set_pc

Requests == {"reset", "nmi"}

ASSUME RamAssumption == Ram \subseteq Word
ASSUME ReadDataAssumption == \A a \in Word : ReadData(a) \subseteq Byte
ASSUME InitialRamAssumption == InitialRam \subseteq Byte
ASSUME CallbackAssumption == CallbackRequests \subseteq SUBSET Requests
ASSUME HostRequestsAssumption == HostRequests \subseteq Requests
ASSUME HostPCsAssumption == HostPCs \subseteq Word

VARIABLES
  cpu,              \* the registers: A, X, Y, SP, PC, status, and the variant
  op,               \* the OpState: the instruction in progress
  jammed,
  reset_requested,
  nmi_requested,
  mem,              \* the host's memory, for the addresses in Ram
  bus,              \* the callbacks made by the last call, in order
  asked             \* the requests that reached the library in the last call

vars == <<cpu, op, jammed, reset_requested, nmi_requested, mem, bus, asked>>

-----------------------------------------------------------------------------

OpState == [def : OpDef \cup {NULL}, cycle : Byte, addr_lo : Byte,
            addr_hi : Byte, offset : -128 .. 127, old_pc : Word, ptr : Word,
            page_crossed : BOOLEAN, addr : Word, temp_addr : Word, data : Byte]

\* (OpState){0}, which is also what finish_op's memset leaves.
ZeroOp == [def |-> NULL, cycle |-> 0, addr_lo |-> 0, addr_hi |-> 0,
           offset |-> 0, old_pc |-> 0, ptr |-> 0, page_crossed |-> FALSE,
           addr |-> 0, temp_addr |-> 0, data |-> 0]

full_addr(o) == Address(o.addr_lo, o.addr_hi)

Stack(sp) == 256 + sp

VECTOR_NMI   == 65530   \* 0xFFFA
VECTOR_RESET == 65532   \* 0xFFFC
VECTOR_IRQ   == 65534   \* 0xFFFE

-----------------------------------------------------------------------------
(* The start of cpu6502_tick *)

\* Mutant: an NMI is taken in front of a reset.
NmiTakenBeforeReset == op.def = NULL /\ nmi_requested

\* Mutant: an NMI is taken in the middle of an instruction.
NmiTakenAnyTime == ~reset_requested /\ nmi_requested

\* Mutant: an NMI is masked like an IRQ.
NmiTakenIfEnabled ==
  /\ ~reset_requested /\ op.def = NULL /\ nmi_requested
  /\ FLAG_INTERRUPT_DISABLE \notin cpu.status

NmiTaken == ~reset_requested /\ op.def = NULL /\ nmi_requested

\* Mutant: a reset sets op.def but does not clear the rest of op.
SelectedKeepingOp ==
  IF reset_requested THEN [op EXCEPT !.def = reset_sequence]
  ELSE IF NmiTaken THEN [ZeroOp EXCEPT !.def = nmi_sequence]
  ELSE op

\* The OpState once the latches have been looked at.
Selected ==
  IF reset_requested THEN [ZeroOp EXCEPT !.def = reset_sequence]
  ELSE IF NmiTaken THEN [ZeroOp EXCEPT !.def = nmi_sequence]
  ELSE op

\* The OpState a micro-operation finds: its own cycle is already counted.
Now == [Selected EXCEPT !.cycle = U8(@ + 1)]

\* A slot of micro_ops past the last function is NULL and cannot be called.
\* The fields of op that micro-operations read below are those of Selected:
\* only the first micro-operation of a sequence finds another OpState than
\* op, and it reads none.
Executes(function) ==
  /\ ~jammed
  /\ Selected.def # NULL
  /\ Selected.cycle < Len(micro_ops(Selected.def))
  /\ micro_ops(Selected.def)[Selected.cycle + 1].kind = function

\* The instruction that the micro-operation belongs to.
Mnemonic == micro_ops(Selected.def)[Selected.cycle + 1].fn

-----------------------------------------------------------------------------
(* The host's callbacks *)

Rd(addr, value) == [access |-> "read", addr |-> addr, value |-> value]
Wr(addr, value) == [access |-> "write", addr |-> addr, value |-> value]

BusData(addr) == IF addr \in Ram THEN {mem[addr]} ELSE ReadData(addr)

\* Mutant: the NMI latch is cleared after the callback instead of before.
LatchedThenCleared(requests) ==
  /\ reset_requested' = ("reset" \in requests)
  /\ nmi_requested' = ((nmi_requested \/ "nmi" \in requests) /\ ~NmiTaken)
  /\ asked' = requests

\* Mutant: an NMI that is not taken at once is forgotten.
LatchedForOneTick(requests) ==
  /\ reset_requested' = ("reset" \in requests)
  /\ nmi_requested' = ("nmi" \in requests)
  /\ asked' = requests

\* The latches after a tick.  It has consumed the request it acted on.
Latched(requests) ==
  /\ reset_requested' = ("reset" \in requests)
  /\ nmi_requested' = ((nmi_requested /\ ~NmiTaken) \/ "nmi" \in requests)
  /\ asked' = requests

CallsBack(accesses) ==
  /\ bus' = accesses
  /\ \E requests \in CallbackRequests : Latched(requests)

Reads(addr, value) == CallsBack(<<Rd(addr, value)>>) /\ UNCHANGED mem

SetMem(addr, value) ==
  mem' = IF addr \in Ram THEN [mem EXCEPT ![addr] = value] ELSE mem

Writes(addr, value) == CallsBack(<<Wr(addr, value)>>) /\ SetMem(addr, value)

NoAccess == bus' = <<>> /\ Latched({}) /\ UNCHANGED mem

-----------------------------------------------------------------------------
(* Outcomes shared by many micro-operations *)

Finish     == op' = ZeroOp      \* finish_op
Continue   == op' = Now
Advance(c) == [c EXCEPT !.PC = U16(@ + 1)]

SetAddress(o, addr) ==
  [o EXCEPT !.addr = addr, !.addr_lo = LoByte(addr), !.addr_hi = HiByte(addr)]

\* An indexed address: the sum, and whether the index carried.
Index(o, base, index) ==
  LET addr == U16(base + index)
  IN  [SetAddress(o, addr) EXCEPT !.page_crossed = ~SamePage(base, addr)]

\* The address read first when the index carried, as add_x and the indirect
\* add_y compute it: from the sum, to which the index is added once more.
TempFromSum(o, index) ==
  [o EXCEPT !.temp_addr = Address(U8(o.addr_lo + index), o.addr_hi)]

-----------------------------------------------------------------------------
(* Fetching an opcode.  The other fields of op keep what they hold. *)

Fetch ==
  /\ ~jammed /\ Selected.def = NULL
  /\ \E opcode \in BusData(cpu.PC) :
       /\ Reads(cpu.PC, opcode)
       /\ op' = [op EXCEPT !.def = opcode]
  /\ cpu' = Advance(cpu)

-----------------------------------------------------------------------------
(* Micro-operations that prepare an address *)

dummy == Executes("dummy") /\ NoAccess /\ Continue /\ UNCHANGED cpu

dummy_pc_read ==
  /\ Executes("dummy_pc_read")
  /\ \E value \in BusData(cpu.PC) : Reads(cpu.PC, value)
  /\ Continue /\ UNCHANGED cpu

dummy_pc_read_and_inc ==
  /\ Executes("dummy_pc_read_and_inc")
  /\ \E value \in BusData(cpu.PC) : Reads(cpu.PC, value)
  /\ Continue /\ cpu' = Advance(cpu)

dummy_stack_read ==
  /\ Executes("dummy_stack_read")
  /\ \E value \in BusData(Stack(cpu.SP)) : Reads(Stack(cpu.SP), value)
  /\ Continue /\ UNCHANGED cpu

dummy_temp_addr_read ==
  /\ Executes("dummy_temp_addr_read")
  /\ \E value \in BusData(op.temp_addr) : Reads(op.temp_addr, value)
  /\ Continue /\ UNCHANGED cpu

read_pc_addr_low ==
  /\ Executes("read_pc_addr_low")
  /\ \E value \in BusData(cpu.PC) :
       /\ Reads(cpu.PC, value)
       /\ op' = [Now EXCEPT !.addr_lo = value, !.addr = value]
  /\ cpu' = Advance(cpu)

\* The part of read_pc_addr_high that the indexed forms call.
AbsoluteAddress(high) == SetAddress(Now, Address(op.addr_lo, high))

read_pc_addr_high ==
  /\ Executes("read_pc_addr_high")
  /\ \E high \in BusData(cpu.PC) :
       /\ Reads(cpu.PC, high)
       /\ op' = AbsoluteAddress(high)
  /\ cpu' = Advance(cpu)

\* Mutant: op.addr is left without the index.
read_pc_addr_high_add_x_bytes_only ==
  /\ Executes("read_pc_addr_high_add_x")
  /\ \E high \in BusData(cpu.PC) :
       LET base  == Address(op.addr_lo, high)
           added == TempFromSum(Index(AbsoluteAddress(high), base, cpu.X), cpu.X)
       IN  Reads(cpu.PC, high) /\ op' = [added EXCEPT !.addr = base]
  /\ cpu' = Advance(cpu)

read_pc_addr_high_add_x ==
  /\ Executes("read_pc_addr_high_add_x")
  /\ \E high \in BusData(cpu.PC) :
       LET base == Address(op.addr_lo, high)
       IN  /\ Reads(cpu.PC, high)
           /\ op' = TempFromSum(Index(AbsoluteAddress(high), base, cpu.X), cpu.X)
  /\ cpu' = Advance(cpu)

\* Here the address read first when the index carried is in the page of base.
read_pc_addr_high_add_y ==
  /\ Executes("read_pc_addr_high_add_y")
  /\ \E high \in BusData(cpu.PC) :
       LET base == Address(op.addr_lo, high)
       IN  /\ Reads(cpu.PC, high)
           /\ op' = [Index(AbsoluteAddress(high), base, cpu.Y) EXCEPT
                       !.temp_addr = Address(U8(op.addr_lo + cpu.Y), high)]
  /\ cpu' = Advance(cpu)

\* Mutant: op.addr is left without the index, as in read_pc_addr_low_add_y.
read_pc_addr_low_add_x_byte_only ==
  /\ Executes("read_pc_addr_low_add_x")
  /\ \E value \in BusData(op.addr_lo) : Reads(op.addr_lo, value)
  /\ op' = [Now EXCEPT !.addr_lo = U8(@ + cpu.X)]
  /\ UNCHANGED cpu

read_pc_addr_low_add_x ==
  /\ Executes("read_pc_addr_low_add_x")
  /\ \E value \in BusData(op.addr_lo) : Reads(op.addr_lo, value)
  /\ LET lo == U8(op.addr_lo + cpu.X)
     IN  op' = [Now EXCEPT !.addr_lo = lo, !.addr = lo]
  /\ UNCHANGED cpu

\* op.addr keeps the address without the index.
read_pc_addr_low_add_y ==
  /\ Executes("read_pc_addr_low_add_y")
  /\ \E value \in BusData(op.addr_lo) : Reads(op.addr_lo, value)
  /\ op' = [Now EXCEPT !.addr_lo = U8(@ + cpu.Y)]
  /\ UNCHANGED cpu

fetch_ptr ==
  /\ Executes("fetch_ptr")
  /\ \E value \in BusData(cpu.PC) :
       /\ Reads(cpu.PC, value)
       /\ op' = [Now EXCEPT !.ptr = value]
  /\ cpu' = Advance(cpu)

read_ptr_add_x ==
  /\ Executes("read_ptr_add_x")
  /\ \E value \in BusData(op.ptr) : Reads(op.ptr, value)
  /\ op' = [Now EXCEPT !.ptr = U8(@ + cpu.X)]
  /\ UNCHANGED cpu

read_ptr_addr_low ==
  /\ Executes("read_ptr_addr_low")
  /\ \E value \in BusData(op.ptr) :
       /\ Reads(op.ptr, value)
       /\ op' = [Now EXCEPT !.addr_lo = value]
  /\ UNCHANGED cpu

\* The high byte is in the zero page too, after the low byte modulo 256.
read_ptr_addr_high ==
  /\ Executes("read_ptr_addr_high")
  /\ \E high \in BusData(U8(op.ptr + 1)) :
       /\ Reads(U8(op.ptr + 1), high)
       /\ op' = AbsoluteAddress(high)
  /\ UNCHANGED cpu

read_ptr_addr_high_add_y ==
  /\ Executes("read_ptr_addr_high_add_y")
  /\ \E high \in BusData(U8(op.ptr + 1)) :
       LET base == Address(op.addr_lo, high)
       IN  /\ Reads(U8(op.ptr + 1), high)
           /\ op' = TempFromSum(Index(Now, base, cpu.Y), cpu.Y)
  /\ UNCHANGED cpu

fetch_pointer_addr_low ==
  /\ Executes("fetch_pointer_addr_low")
  /\ \E value \in BusData(full_addr(op)) :
       /\ Reads(full_addr(op), value)
       /\ op' = [Now EXCEPT !.ptr = full_addr(op), !.addr_lo = value]
  /\ UNCHANGED cpu

-----------------------------------------------------------------------------
(* Stack and interrupt micro-operations *)

inc_sp ==
  /\ Executes("inc_sp") /\ NoAccess /\ Continue
  /\ cpu' = [cpu EXCEPT !.SP = U8(@ + 1)]

dec_sp ==
  /\ Executes("dec_sp") /\ NoAccess /\ Continue
  /\ cpu' = [cpu EXCEPT !.SP = U8(@ - 1)]

\* Mutant: the stack pointer does not wrap.
PushesUnwrapped(value) ==
  /\ Writes(Stack(cpu.SP), value)
  /\ cpu' = [cpu EXCEPT !.SP = @ - 1]

\* stack_push_u8
Pushes(value) ==
  /\ Writes(Stack(cpu.SP), value)
  /\ cpu' = [cpu EXCEPT !.SP = U8(@ - 1)]

push_pc_high == Executes("push_pc_high") /\ Pushes(HiByte(cpu.PC)) /\ Continue
push_pc_low  == Executes("push_pc_low") /\ Pushes(LoByte(cpu.PC)) /\ Continue

\* Mutant: BRK and an NMI push the same status.
StatusPushedWithBreak(break) ==
  ByteOf(cpu.status \cup {FLAG_BREAK, FLAG_UNUSED})

\* The status as it is pushed; bit 5 is always pushed as 1.
StatusPushed(break) ==
  ByteOf(set_flag(set_flag(cpu, FLAG_BREAK, break), FLAG_UNUSED, TRUE).status)

push_p_with_break ==
  Executes("push_p_with_break") /\ Pushes(StatusPushed(TRUE)) /\ Continue

push_p_without_break ==
  Executes("push_p_without_break") /\ Pushes(StatusPushed(FALSE)) /\ Continue

php_imp == Executes("php_imp") /\ Pushes(StatusPushed(TRUE)) /\ Finish
pha_imp == Executes("pha_imp") /\ Pushes(cpu.A) /\ Finish

pla_imp ==
  /\ Executes("pla_imp")
  /\ \E value \in BusData(Stack(cpu.SP)) :
       /\ Reads(Stack(cpu.SP), value)
       /\ cpu' = LoadA(cpu, value)
  /\ Finish

\* The flags that a status byte from the stack gives.
StatusPulled(c, value) ==
  set_flag(set_flag([c EXCEPT !.status = BitsOf(value)], FLAG_BREAK, FALSE),
           FLAG_UNUSED, TRUE)

plp_imp ==
  /\ Executes("plp_imp")
  /\ \E value \in BusData(Stack(cpu.SP)) :
       /\ Reads(Stack(cpu.SP), value)
       /\ cpu' = StatusPulled(cpu, value)
  /\ Finish

\* The byte as it is; pull_pc_high_finish puts bits 4 and 5 right.
pull_p ==
  /\ Executes("pull_p")
  /\ \E value \in BusData(Stack(cpu.SP)) :
       /\ Reads(Stack(cpu.SP), value)
       /\ cpu' = [cpu EXCEPT !.status = BitsOf(value), !.SP = U8(@ + 1)]
  /\ Continue

pull_pc_low ==
  /\ Executes("pull_pc_low")
  /\ \E value \in BusData(Stack(cpu.SP)) :
       /\ Reads(Stack(cpu.SP), value)
       /\ op' = [Now EXCEPT !.addr_lo = value]
  /\ cpu' = [cpu EXCEPT !.SP = U8(@ + 1)]

pull_pc_high_no_inc ==
  /\ Executes("pull_pc_high_no_inc")
  /\ \E value \in BusData(Stack(cpu.SP)) :
       /\ Reads(Stack(cpu.SP), value)
       /\ op' = [Now EXCEPT !.addr_hi = value]
  /\ UNCHANGED cpu

\* Mutant: bits 4 and 5 of the byte pulled stay in the status.
pull_pc_high_finish_raw ==
  /\ Executes("pull_pc_high_finish")
  /\ \E high \in BusData(Stack(cpu.SP)) :
       /\ Reads(Stack(cpu.SP), high)
       /\ cpu' = [cpu EXCEPT !.PC = Address(op.addr_lo, high)]
  /\ Finish

\* Mutant: only op.def is cleared.
pull_pc_high_finish_def_only ==
  /\ Executes("pull_pc_high_finish")
  /\ \E high \in BusData(Stack(cpu.SP)) :
       /\ Reads(Stack(cpu.SP), high)
       /\ cpu' = [cpu EXCEPT !.PC = Address(op.addr_lo, high)]
  /\ op' = [Now EXCEPT !.def = NULL]

\* The end of RTI.
pull_pc_high_finish ==
  /\ Executes("pull_pc_high_finish")
  /\ \E high \in BusData(Stack(cpu.SP)) :
       LET flagged == set_flag(set_flag(cpu, FLAG_BREAK, FALSE),
                               FLAG_UNUSED, TRUE)
       IN  /\ Reads(Stack(cpu.SP), high)
           /\ cpu' = [flagged EXCEPT !.PC = Address(op.addr_lo, high)]
  /\ Finish

VectorLow(function, vector) ==
  /\ Executes(function)
  /\ \E value \in BusData(vector) :
       /\ Reads(vector, value)
       /\ op' = [Now EXCEPT !.addr_lo = value]
  /\ UNCHANGED cpu

\* Interrupts are disabled on arrival in a handler.
Arrive(high) ==
  cpu' = set_flag([cpu EXCEPT !.PC = Address(op.addr_lo, high)],
                  FLAG_INTERRUPT_DISABLE, TRUE)

VectorHighFinish(function, vector) ==
  /\ Executes(function)
  /\ \E high \in BusData(vector + 1) : Reads(vector + 1, high) /\ Arrive(high)
  /\ Finish

read_irq_low         == VectorLow("read_irq_low", VECTOR_IRQ)
read_irq_high_finish == VectorHighFinish("read_irq_high_finish", VECTOR_IRQ)
read_nmi_low         == VectorLow("read_nmi_low", VECTOR_NMI)
read_nmi_high_finish == VectorHighFinish("read_nmi_high_finish", VECTOR_NMI)
read_reset_low       == VectorLow("read_reset_low", VECTOR_RESET)

\* The request flag is cleared after the read, so that a reset requested by
\* the callback of that read is dropped.
read_reset_high_finish ==
  /\ Executes("read_reset_high_finish")
  /\ \E high \in BusData(VECTOR_RESET + 1), requests \in CallbackRequests :
       /\ bus' = <<Rd(VECTOR_RESET + 1, high)>>
       /\ reset_requested' = FALSE
       /\ nmi_requested' = (nmi_requested \/ "nmi" \in requests)
       /\ asked' = requests
       /\ Arrive(high)
  /\ Finish
  /\ UNCHANGED mem

-----------------------------------------------------------------------------
(* Instructions that read an operand: f_imm, f_addr and the two indexed     *)
(* forms                                                                    *)

f_imm ==
  /\ Executes("imm")
  /\ \E value \in BusData(cpu.PC) :
       /\ Reads(cpu.PC, value)
       /\ cpu' = Execute(Mnemonic, Advance(cpu), value)
  /\ Finish

f_addr ==
  /\ Executes("addr")
  /\ \E value \in BusData(full_addr(op)) :
       /\ Reads(full_addr(op), value)
       /\ cpu' = Execute(Mnemonic, cpu, value)
  /\ Finish

\* Mutant: the read that waits for the carry is already at the right address.
f_indexed_read_twice ==
  /\ Executes("indexed_read_maybe_finish")
  /\ \/ /\ op.page_crossed
        /\ \E value \in BusData(op.addr) : Reads(op.addr, value)
        /\ Continue /\ UNCHANGED cpu
     \/ /\ ~op.page_crossed
        /\ \E value \in BusData(op.addr) :
             Reads(op.addr, value) /\ cpu' = Execute(Mnemonic, cpu, value)
        /\ Finish

f_indexed_read_maybe_finish ==
  /\ Executes("indexed_read_maybe_finish")
  /\ \/ /\ op.page_crossed
        /\ \E value \in BusData(op.temp_addr) : Reads(op.temp_addr, value)
        /\ Continue /\ UNCHANGED cpu
     \/ /\ ~op.page_crossed
        /\ \E value \in BusData(op.addr) :
             Reads(op.addr, value) /\ cpu' = Execute(Mnemonic, cpu, value)
        /\ Finish

\* Mutant: the second read does not finish the instruction.
f_indexed_reread_unfinished ==
  /\ Executes("indexed_reread_fixed")
  /\ \E value \in BusData(op.addr) :
       Reads(op.addr, value) /\ cpu' = Execute(Mnemonic, cpu, value)
  /\ Continue

f_indexed_reread_fixed ==
  /\ Executes("indexed_reread_fixed")
  /\ \E value \in BusData(op.addr) :
       Reads(op.addr, value) /\ cpu' = Execute(Mnemonic, cpu, value)
  /\ Finish

-----------------------------------------------------------------------------
(* Instructions that write memory *)

read_addr_data ==
  /\ Executes("read_addr_data")
  /\ \E value \in BusData(full_addr(op)) :
       /\ Reads(full_addr(op), value)
       /\ op' = [Now EXCEPT !.data = value]
  /\ UNCHANGED cpu

\* All but LSR and ROL first write the old value back.
f_dummy_write_and_compute ==
  /\ Executes("dummy_write_and_compute")
  /\ IF Mnemonic \in {"lsr", "rol"} THEN NoAccess ELSE Writes(op.addr, op.data)
  /\ cpu' = Modify(Mnemonic, cpu, op.data)
  /\ op' = [Now EXCEPT !.data = Modified(Mnemonic, get_flag(cpu, FLAG_CARRY), @)]

write_data_and_finish ==
  /\ Executes("write_data_and_finish")
  /\ Writes(full_addr(op), op.data)
  /\ Finish /\ UNCHANGED cpu

\* f_addr of a store; SHX and SHY use op.addr where the others use full_addr.
f_store ==
  /\ Executes("store")
  /\ LET target == IF Mnemonic \in {"shx", "shy"} THEN op.addr ELSE full_addr(op)
     IN  Writes(target, Stored(Mnemonic, cpu, op.addr_hi))
  /\ Finish /\ UNCHANGED cpu

TasSP == [cpu EXCEPT !.SP = ByteAnd(cpu.A, cpu.X)]

\* Without a carry TAS reads and writes the same address in one tick.
tas_indexed_read_maybe_finish ==
  /\ Executes("tas_indexed_read_maybe_finish")
  /\ \/ /\ op.page_crossed
        /\ \E value \in BusData(op.temp_addr) : Reads(op.temp_addr, value)
        /\ Continue /\ UNCHANGED cpu
     \/ /\ ~op.page_crossed
        /\ \E value \in BusData(op.addr) :
             CallsBack(<<Rd(op.addr, value),
                         Wr(op.addr, Stored("sha", cpu, op.addr_hi))>>)
        /\ SetMem(op.addr, Stored("sha", cpu, op.addr_hi))
        /\ cpu' = TasSP
        /\ Finish

tas_indexed_rewrite_fixed ==
  /\ Executes("tas_indexed_rewrite_fixed")
  /\ Writes(op.addr, Stored("sha", cpu, op.addr_hi))
  /\ cpu' = TasSP
  /\ Finish

-----------------------------------------------------------------------------
(* Instructions without an operand *)

f_acc ==
  /\ Executes("acc") /\ NoAccess
  /\ cpu' = ExecuteAccumulator(Mnemonic, cpu)
  /\ Finish

f_imp ==
  /\ Executes("imp")
  /\ \E value \in BusData(cpu.PC) : Reads(cpu.PC, value)
  /\ cpu' = ExecuteImplied(Mnemonic, cpu)
  /\ Finish

\* The instruction stays in op; only a new CPU gets out of this state.
kil_imp ==
  /\ Executes("kil_imp") /\ NoAccess /\ Continue /\ UNCHANGED cpu
  /\ jammed' = TRUE

-----------------------------------------------------------------------------
(* Jumps and branches *)

JumpAbsolute(function) ==
  /\ Executes(function)
  /\ \E high \in BusData(cpu.PC) :
       /\ Reads(cpu.PC, high)
       /\ cpu' = [cpu EXCEPT !.PC = Address(op.addr_lo, high)]
  /\ Finish

jmp_abs_finish == JumpAbsolute("jmp_abs_finish")
jsr_abs        == JumpAbsolute("jsr_abs")

\* Mutant: the pointer carries into its page.
jmp_ind_carrying ==
  /\ Executes("jmp_ind")
  /\ \E high \in BusData(U16(op.ptr + 1)) :
       /\ Reads(U16(op.ptr + 1), high)
       /\ cpu' = [cpu EXCEPT !.PC = Address(op.addr_lo, high)]
  /\ Finish

\* The high byte is read in the page of the low byte.
jmp_ind ==
  /\ Executes("jmp_ind")
  /\ LET high_addr == Address(LoByte(op.ptr + 1), HiByte(op.ptr))
     IN  \E high \in BusData(high_addr) :
           /\ Reads(high_addr, high)
           /\ cpu' = [cpu EXCEPT !.PC = Address(op.addr_lo, high)]
  /\ Finish

rts_finish ==
  /\ Executes("rts_finish") /\ NoAccess
  /\ cpu' = [cpu EXCEPT !.PC = U16(full_addr(op) + 1)]
  /\ Finish

BranchTaken(f, status) ==
  CASE f = "bpl" -> FLAG_NEGATIVE \notin status
    [] f = "bmi" -> FLAG_NEGATIVE \in status
    [] f = "bvc" -> FLAG_OVERFLOW \notin status
    [] f = "bvs" -> FLAG_OVERFLOW \in status
    [] f = "bcc" -> FLAG_CARRY \notin status
    [] f = "bcs" -> FLAG_CARRY \in status
    [] f = "bne" -> FLAG_ZERO \notin status
    [] f = "beq" -> FLAG_ZERO \in status

f_fetch_offset ==
  /\ Executes("fetch_offset")
  /\ \E value \in BusData(cpu.PC) :
       /\ Reads(cpu.PC, value)
       /\ op' = IF BranchTaken(Mnemonic, cpu.status)
                THEN [Now EXCEPT !.offset = S8(value)]
                ELSE ZeroOp
  /\ cpu' = Advance(cpu)

\* Mutant: the page is that of the branch and not that of the next instruction.
branch_op_own_page ==
  /\ Executes("branch_op")
  /\ \E value \in BusData(cpu.PC) : Reads(cpu.PC, value)
  /\ LET target == U16(cpu.PC + op.offset)
         next   == IF SamePage(U16(cpu.PC - 2), target) THEN ZeroOp ELSE Now
     IN  /\ cpu' = [cpu EXCEPT !.PC = target]
         /\ op' = [next EXCEPT !.old_pc = cpu.PC]

\* old_pc is set after finish_op, and survives it.
branch_op ==
  /\ Executes("branch_op")
  /\ \E value \in BusData(cpu.PC) : Reads(cpu.PC, value)
  /\ LET target == U16(cpu.PC + op.offset)
         next   == IF SamePage(cpu.PC, target) THEN ZeroOp ELSE Now
     IN  /\ cpu' = [cpu EXCEPT !.PC = target]
         /\ op' = [next EXCEPT !.old_pc = cpu.PC]

\* Mutant: the fixed-up branch is not finished.
branch_page_fix_unfinished ==
  /\ Executes("branch_page_fix")
  /\ LET wrong == Address(LoByte(cpu.PC), HiByte(op.old_pc))
     IN  \E value \in BusData(wrong) : Reads(wrong, value)
  /\ Continue /\ UNCHANGED cpu

branch_page_fix ==
  /\ Executes("branch_page_fix")
  /\ LET wrong == Address(LoByte(cpu.PC), HiByte(op.old_pc))
     IN  \E value \in BusData(wrong) : Reads(wrong, value)
  /\ Finish /\ UNCHANGED cpu

-----------------------------------------------------------------------------

AddressStep ==
  \/ dummy \/ dummy_pc_read \/ dummy_pc_read_and_inc
  \/ dummy_stack_read \/ dummy_temp_addr_read
  \/ read_pc_addr_low \/ read_pc_addr_low_add_x \/ read_pc_addr_low_add_y
  \/ read_pc_addr_high \/ read_pc_addr_high_add_x \/ read_pc_addr_high_add_y
  \/ fetch_ptr \/ read_ptr_add_x \/ read_ptr_addr_low
  \/ read_ptr_addr_high \/ read_ptr_addr_high_add_y \/ fetch_pointer_addr_low

StackStep ==
  \/ inc_sp \/ dec_sp \/ push_pc_high \/ push_pc_low
  \/ push_p_with_break \/ push_p_without_break \/ pull_p
  \/ pull_pc_low \/ pull_pc_high_no_inc \/ pull_pc_high_finish
  \/ php_imp \/ pha_imp \/ plp_imp \/ pla_imp
  \/ read_irq_low \/ read_irq_high_finish
  \/ read_nmi_low \/ read_nmi_high_finish
  \/ read_reset_low \/ read_reset_high_finish

InstructionStep ==
  \/ f_imm \/ f_addr \/ f_indexed_read_maybe_finish \/ f_indexed_reread_fixed
  \/ read_addr_data \/ f_dummy_write_and_compute \/ write_data_and_finish
  \/ f_store \/ tas_indexed_read_maybe_finish \/ tas_indexed_rewrite_fixed
  \/ f_acc \/ f_imp
  \/ jmp_abs_finish \/ jsr_abs \/ jmp_ind \/ rts_finish
  \/ f_fetch_offset \/ branch_op \/ branch_page_fix

TickJammed ==
  /\ jammed /\ bus' = <<>> /\ asked' = {}
  /\ UNCHANGED <<cpu, op, jammed, reset_requested, nmi_requested, mem>>

cpu6502_tick ==
  \/ TickJammed
  \/ (Fetch \/ AddressStep \/ StackStep \/ InstructionStep) /\ UNCHANGED jammed
  \/ kil_imp

-----------------------------------------------------------------------------
(* The host's calls between two ticks *)

cpu6502_reset ==
  /\ "reset" \in HostRequests
  /\ reset_requested' = TRUE /\ bus' = <<>> /\ asked' = {"reset"}
  /\ UNCHANGED <<cpu, op, jammed, nmi_requested, mem>>

cpu6502_nmi ==
  /\ "nmi" \in HostRequests
  /\ nmi_requested' = TRUE /\ bus' = <<>> /\ asked' = {"nmi"}
  /\ UNCHANGED <<cpu, op, jammed, reset_requested, mem>>

cpu6502_set_pc ==
  /\ \E pc \in HostPCs : cpu' = [cpu EXCEPT !.PC = pc]
  /\ bus' = <<>> /\ asked' = {}
  /\ UNCHANGED <<op, jammed, reset_requested, nmi_requested, mem>>

-----------------------------------------------------------------------------

PoweredUp(variant) ==
  [variant |-> variant, A |-> 0, X |-> 0, Y |-> 0, SP |-> 0, PC |-> 0,
   status |-> {FLAG_UNUSED}]

cpu6502_init ==
  /\ \E variant \in Variants : cpu = PoweredUp(variant)
  /\ op = ZeroOp
  /\ jammed = FALSE
  /\ reset_requested = FALSE
  /\ nmi_requested = FALSE
  /\ mem \in [Ram -> InitialRam]
  /\ bus = <<>>
  /\ asked = {}

Next == cpu6502_tick \/ cpu6502_reset \/ cpu6502_nmi \/ cpu6502_set_pc

Spec == cpu6502_init /\ [][Next]_vars

\* A host that keeps calling cpu6502_tick.
FairSpec == Spec /\ WF_vars(cpu6502_tick)

=============================================================================
