-------------------------------- MODULE Alu --------------------------------
(***************************************************************************)
(* What the micro-operations compute on the programmer-visible registers:  *)
(* src/flags.c and the arithmetic, logic, shift, transfer and flag         *)
(* functions of src/micro_ops.c.                                           *)
(*                                                                         *)
(* An operator takes the register file before and returns it after.  The   *)
(* status byte is kept as the set of the flags that are 1; BitsOf and      *)
(* ByteOf convert it when it crosses the bus.  An instruction function of  *)
(* the source that exists in up to four copies, one per way its operand is *)
(* read (f_imm, f_addr, f_indexed_read_maybe_finish and                    *)
(* f_indexed_reread_fixed), is one case of Execute here; the four ways to  *)
(* read are in module Cpu6502.                                             *)
(***************************************************************************)
EXTENDS Bytes

NMOS     == "NMOS"
RP2A03   == "RP2A03"
Variants == {NMOS, RP2A03}

RegisterFile == [variant : Variants, A : Byte, X : Byte, Y : Byte,
                 SP : Byte, PC : Word, status : SUBSET Bit]

-----------------------------------------------------------------------------
(* Flags *)

set_flag(cpu, flag, value) ==
  [cpu EXCEPT !.status = IF value THEN @ \cup {flag} ELSE @ \ {flag}]

get_flag(cpu, flag) == IF flag \in cpu.status THEN 1 ELSE 0

set_nz(cpu, value) ==
  set_flag(set_flag(cpu, FLAG_NEGATIVE, Negative(value)), FLAG_ZERO, value = 0)

Decimal(cpu) == FLAG_DECIMAL_MODE \in cpu.status /\ cpu.variant # RP2A03

-----------------------------------------------------------------------------
(* Arithmetic and logic on A *)

LoadA(cpu, value)  == set_nz([cpu EXCEPT !.A = value], value)
LoadX(cpu, value)  == set_nz([cpu EXCEPT !.X = value], value)
LoadY(cpu, value)  == set_nz([cpu EXCEPT !.Y = value], value)
LoadAX(cpu, value) == set_nz([cpu EXCEPT !.A = value, !.X = value], value)

alu_and(cpu, value) == LoadA(cpu, ByteAnd(cpu.A, value))
alu_eor(cpu, value) == LoadA(cpu, ByteXor(cpu.A, value))
alu_ora(cpu, value) == LoadA(cpu, ByteOr(cpu.A, value))

\* Mutant: equal operands leave the carry clear.
CompareStrictly(cpu, register, value) ==
  set_nz(set_flag(cpu, FLAG_CARRY, register > value), U8(register - value))

Compare(cpu, register, value) ==
  set_nz(set_flag(cpu, FLAG_CARRY, register >= value), U8(register - value))

bit(cpu, value) ==
  LET c1 == set_flag(cpu, FLAG_ZERO, ByteAnd(cpu.A, value) = 0)
      c2 == set_flag(c1, FLAG_NEGATIVE, Negative(value))
  IN  set_flag(c2, FLAG_OVERFLOW, 6 \in BitsOf(value))

\* Mutant: V ignores the carry that comes in.
adc_binary_v_without_carry(cpu, value) ==
  LET sum      == cpu.A + value + get_flag(cpu, FLAG_CARRY)
      overflow == /\ Negative(cpu.A) = Negative(value)
                  /\ Negative(cpu.A) # Negative(U8(cpu.A + value))
      flagged  == set_flag(set_flag(cpu, FLAG_CARRY, sum > 255),
                           FLAG_OVERFLOW, overflow)
  IN  LoadA(flagged, U8(sum))

adc_binary(cpu, value) ==
  LET sum      == cpu.A + value + get_flag(cpu, FLAG_CARRY)
      result   == U8(sum)
      overflow == /\ Negative(cpu.A) = Negative(value)
                  /\ Negative(cpu.A) # Negative(result)
      flagged  == set_flag(set_flag(cpu, FLAG_CARRY, sum > 255),
                           FLAG_OVERFLOW, overflow)
  IN  LoadA(flagged, result)

\* Mutant: a low digit of exactly ten is not adjusted.
adc_decimal_late_adjust(cpu, value) ==
  LET raw_low  == (cpu.A % 16) + (value % 16) + get_flag(cpu, FLAG_CARRY)
      low      == IF raw_low > 10 THEN raw_low + 6 ELSE raw_low
      raw_high == 16 * (cpu.A \div 16 + value \div 16 + ((low \div 16) % 2))
      high     == IF raw_high > 159 THEN raw_high + 96 ELSE raw_high
      flagged  == set_flag(cpu, FLAG_CARRY, high > 255)
  IN  [flagged EXCEPT !.A = 16 * ((high \div 16) % 16) + (low % 16)]

\* The decimal branch leaves N, Z and V as they were.
adc_decimal(cpu, value) ==
  LET raw_low       == (cpu.A % 16) + (value % 16) + get_flag(cpu, FLAG_CARRY)
      low           == IF raw_low > 9 THEN raw_low + 6 ELSE raw_low
      carry_to_high == (low \div 16) % 2
      raw_high      == 16 * (cpu.A \div 16 + value \div 16 + carry_to_high)
      high          == IF raw_high > 159 THEN raw_high + 96 ELSE raw_high
      flagged       == set_flag(cpu, FLAG_CARRY, high > 255)
  IN  [flagged EXCEPT !.A = 16 * ((high \div 16) % 16) + (low % 16)]

alu_adc(cpu, value) ==
  IF Decimal(cpu) THEN adc_decimal(cpu, value) ELSE adc_binary(cpu, value)

\* Mutant: the carry is taken for a borrow.
sbc_binary_borrow(cpu, value) ==
  LET diff     == cpu.A + (255 - value) + (1 - get_flag(cpu, FLAG_CARRY))
      result   == U8(diff)
      overflow == /\ Negative(cpu.A) # Negative(value)
                  /\ Negative(cpu.A) # Negative(result)
      flagged  == set_flag(set_flag(cpu, FLAG_CARRY, diff > 255),
                           FLAG_OVERFLOW, overflow)
  IN  LoadA(flagged, result)

\* The flags are those of the binary difference in both modes.
sbc_binary(cpu, value) ==
  LET diff     == cpu.A + (255 - value) + get_flag(cpu, FLAG_CARRY)
      result   == U8(diff)
      overflow == /\ Negative(cpu.A) # Negative(value)
                  /\ Negative(cpu.A) # Negative(result)
      flagged  == set_flag(set_flag(cpu, FLAG_CARRY, diff > 255),
                           FLAG_OVERFLOW, overflow)
  IN  LoadA(flagged, result)

\* Mutant: the borrow of the low digit does not reach the high one.
sbc_decimal_no_borrow(cpu, value) ==
  LET low    == (cpu.A % 16) - (value % 16) - (1 - get_flag(cpu, FLAG_CARRY))
      al     == IF low < 0 THEN low - 6 ELSE low
      high   == cpu.A \div 16 - value \div 16
      ah     == IF high < 0 THEN high - 6 ELSE high
  IN  [sbc_binary(cpu, value) EXCEPT !.A = 16 * (ah % 16) + (al % 16)]

sbc_decimal(cpu, value) ==
  LET low    == (cpu.A % 16) - (value % 16) - (1 - get_flag(cpu, FLAG_CARRY))
      borrow == low < 0
      al     == IF borrow THEN low - 6 ELSE low
      high   == cpu.A \div 16 - value \div 16 - (IF borrow THEN 1 ELSE 0)
      ah     == IF high < 0 THEN high - 6 ELSE high
  IN  [sbc_binary(cpu, value) EXCEPT !.A = 16 * (ah % 16) + (al % 16)]

alu_sbc(cpu, value) ==
  IF Decimal(cpu) THEN sbc_decimal(cpu, value) ELSE sbc_binary(cpu, value)

-----------------------------------------------------------------------------
(* Undocumented immediate instructions *)

anc(cpu, value) ==
  LET anded == alu_and(cpu, value)
  IN  set_flag(anded, FLAG_CARRY, Negative(anded.A))

alr(cpu, value) ==
  LET anded == alu_and(cpu, value)
  IN  LoadA(set_flag(anded, FLAG_CARRY, anded.A % 2 = 1), anded.A \div 2)

arr(cpu, value) ==
  LET anded   == alu_and(cpu, value)
      result  == anded.A \div 2 + 128 * get_flag(anded, FLAG_CARRY)
      carried == set_flag(anded, FLAG_CARRY, 6 \in BitsOf(result))
      flagged == set_flag(carried, FLAG_OVERFLOW,
                          (6 \in BitsOf(result)) # (5 \in BitsOf(result)))
  IN  LoadA(flagged, result)

\* N and Z are those of X, taken before the AND.
xaa(cpu, value) ==
  [LoadA(cpu, cpu.X) EXCEPT !.A = ByteAnd(cpu.X, value)]

axs(cpu, value) ==
  LET source == ByteAnd(cpu.A, cpu.X)
  IN  [Compare(cpu, source, value) EXCEPT !.X = U8(source - value)]

las(cpu, value) ==
  LET result == ByteAnd(value, cpu.SP)
  IN  [LoadAX(cpu, result) EXCEPT !.SP = result]

-----------------------------------------------------------------------------
(* The effect of an instruction that reads its operand *)

ReadFns == {"lda", "ldx", "ldy", "and", "eor", "ora", "bit", "cmp", "cpx",
            "cpy", "adc", "sbc", "nop", "anc", "alr", "arr", "xaa",
            "lax_imm", "lax", "las", "axs"}

Execute(fn, cpu, value) ==
  CASE fn = "lda" -> LoadA(cpu, value)
    [] fn = "ldx" -> LoadX(cpu, value)
    [] fn = "ldy" -> LoadY(cpu, value)
    [] fn = "and" -> alu_and(cpu, value)
    [] fn = "eor" -> alu_eor(cpu, value)
    [] fn = "ora" -> alu_ora(cpu, value)
    [] fn = "bit" -> bit(cpu, value)
    [] fn = "cmp" -> Compare(cpu, cpu.A, value)
    [] fn = "cpx" -> Compare(cpu, cpu.X, value)
    [] fn = "cpy" -> Compare(cpu, cpu.Y, value)
    [] fn = "adc" -> alu_adc(cpu, value)
    [] fn = "sbc" -> alu_sbc(cpu, value)
    [] fn = "nop" -> cpu
    [] fn = "anc" -> anc(cpu, value)
    [] fn = "alr" -> alr(cpu, value)
    [] fn = "arr" -> arr(cpu, value)
    [] fn = "xaa" -> xaa(cpu, value)
    [] fn = "lax_imm" -> [cpu EXCEPT !.A = value, !.X = value]
    [] fn = "lax" -> LoadAX(cpu, value)
    [] fn = "las" -> las(cpu, value)
    [] fn = "axs" -> axs(cpu, value)

-----------------------------------------------------------------------------
(* Read-modify-write instructions: the byte that is written back, and the  *)
(* registers after it.  c is the carry before the instruction.             *)

ModifyFns == {"inc", "dec", "asl", "lsr", "rol", "ror",
              "slo", "sre", "rla", "rra", "dcp", "isc"}

Modified(fn, c, data) ==
  CASE fn \in {"inc", "isc"} -> U8(data + 1)
    [] fn \in {"dec", "dcp"} -> U8(data - 1)
    [] fn \in {"asl", "slo"} -> U8(2 * data)
    [] fn \in {"lsr", "sre"} -> data \div 2
    [] fn \in {"rol", "rla"} -> U8(2 * data) + c
    [] fn \in {"ror", "rra"} -> data \div 2 + 128 * c

\* The bit a shift or rotation pushes out becomes the carry.
ShiftedOut(fn, data) ==
  IF fn \in {"asl", "slo", "rol", "rla"} THEN Negative(data) ELSE data % 2 = 1

Modify(fn, cpu, data) ==
  LET result  == Modified(fn, get_flag(cpu, FLAG_CARRY), data)
      carried == set_flag(cpu, FLAG_CARRY, ShiftedOut(fn, data))
  IN  CASE fn \in {"inc", "dec"} -> set_nz(cpu, result)
        [] fn \in {"asl", "lsr", "rol", "ror"} -> set_nz(carried, result)
        [] fn = "slo" -> alu_ora(carried, result)
        [] fn = "sre" -> alu_eor(carried, result)
        [] fn = "rla" -> alu_and(carried, result)
        [] fn = "rra" -> alu_adc(set_nz(carried, result), result)
        [] fn = "dcp" -> Compare(cpu, cpu.A, result)
        [] fn = "isc" -> alu_sbc(cpu, result)

-----------------------------------------------------------------------------
(* Instructions with no operand, and what the store instructions store *)

AccumulatorFns == {"asl", "lsr", "rol", "ror"}

ExecuteAccumulator(fn, cpu) ==
  [Modify(fn, cpu, cpu.A) EXCEPT
     !.A = Modified(fn, get_flag(cpu, FLAG_CARRY), cpu.A)]

ImpliedFns == {"txs", "tsx", "tax", "txa", "tya", "tay", "inx", "iny", "dex",
               "dey", "cld", "clc", "cli", "clv", "sec", "sed", "sei", "nop"}

ExecuteImplied(fn, cpu) ==
  CASE fn = "txs" -> [cpu EXCEPT !.SP = cpu.X]
    [] fn = "tsx" -> LoadX(cpu, cpu.SP)
    [] fn = "tax" -> LoadX(cpu, cpu.A)
    [] fn = "txa" -> LoadA(cpu, cpu.X)
    [] fn = "tya" -> LoadA(cpu, cpu.Y)
    [] fn = "tay" -> LoadY(cpu, cpu.A)
    [] fn = "inx" -> LoadX(cpu, U8(cpu.X + 1))
    [] fn = "iny" -> LoadY(cpu, U8(cpu.Y + 1))
    [] fn = "dex" -> LoadX(cpu, U8(cpu.X - 1))
    [] fn = "dey" -> LoadY(cpu, U8(cpu.Y - 1))
    [] fn = "cld" -> set_flag(cpu, FLAG_DECIMAL_MODE, FALSE)
    [] fn = "clc" -> set_flag(cpu, FLAG_CARRY, FALSE)
    [] fn = "cli" -> set_flag(cpu, FLAG_INTERRUPT_DISABLE, FALSE)
    [] fn = "clv" -> set_flag(cpu, FLAG_OVERFLOW, FALSE)
    [] fn = "sec" -> set_flag(cpu, FLAG_CARRY, TRUE)
    [] fn = "sed" -> set_flag(cpu, FLAG_DECIMAL_MODE, TRUE)
    [] fn = "sei" -> set_flag(cpu, FLAG_INTERRUPT_DISABLE, TRUE)
    [] fn = "nop" -> cpu

StoreFns == {"sta", "stx", "sty", "sax", "sha", "shx", "shy"}

\* addr_hi is the high byte of the address, as the addressing steps left it.
Stored(fn, cpu, addr_hi) ==
  CASE fn = "sta" -> cpu.A
    [] fn = "stx" -> cpu.X
    [] fn = "sty" -> cpu.Y
    [] fn = "sax" -> ByteAnd(cpu.A, cpu.X)
    [] fn = "sha" -> ByteAnd(ByteAnd(cpu.A, cpu.X), addr_hi)
    [] fn = "shx" -> ByteAnd(cpu.X, addr_hi)
    [] fn = "shy" -> ByteAnd(cpu.Y, addr_hi)

=============================================================================
