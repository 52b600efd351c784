------------------------------ MODULE AluProofs ------------------------------
(***************************************************************************)
(* The types of the operators of modules Bytes and Alu: whatever an        *)
(* instruction computes from registers and a byte fits the registers.      *)
(***************************************************************************)
EXTENDS Alu, TLAPS

-----------------------------------------------------------------------------
(* Bytes *)

\* The bounds of a byte and of a word.
LEMMA Bounds ==
  /\ \A n : n \in Byte <=> n \in Int /\ 0 <= n /\ n <= 255
  /\ \A n : n \in Word <=> n \in Int /\ 0 <= n /\ n <= 65535
<1>1. UINT8_MAX \in Int
  BY DEF UINT8_MAX
<1>2. UINT16_MAX \in Int
  BY DEF UINT16_MAX
<1>3. \A n : n \in Byte <=> n \in Int /\ 0 <= n /\ n <= UINT8_MAX
  BY <1>1 DEF Byte
<1>4. \A n : n \in Word <=> n \in Int /\ 0 <= n /\ n <= UINT16_MAX
  BY <1>2 DEF Word
<1>5. UINT8_MAX = 255 /\ UINT16_MAX = 65535
  BY DEF UINT8_MAX, UINT16_MAX
<1> QED BY <1>3, <1>4, <1>5

\* An arithmetic result converted to uint8_t or uint16_t has that type.
LEMMA ConversionsTyped ==
  ASSUME NEW n \in Int
  PROVE  U8(n) \in Byte /\ U16(n) \in Word
<1>1. n % 256 \in Int /\ 0 <= n % 256 /\ n % 256 <= 255
  OBVIOUS
<1>2. n % 65536 \in Int /\ 0 <= n % 65536 /\ n % 65536 <= 65535
  OBVIOUS
<1> QED BY <1>1, <1>2, Bounds DEF U8, U16

\* Two bytes make an address.
LEMMA AddressTyped ==
  ASSUME NEW lo \in Byte, NEW hi \in Byte
  PROVE  Address(lo, hi) \in Word
<1>1. lo \in Int /\ 0 <= lo /\ lo <= 255 /\ hi \in Int /\ 0 <= hi /\ hi <= 255
  BY Bounds
<1>2. 256 * hi + lo \in Int /\ 0 <= 256 * hi + lo /\ 256 * hi + lo <= 65535
  BY <1>1
<1> QED BY <1>2, Bounds DEF Address

\* An address splits into two bytes.
LEMMA HalvesTyped ==
  ASSUME NEW w \in Word
  PROVE  LoByte(w) \in Byte /\ HiByte(w) \in Byte
<1>1. w \in Int /\ 0 <= w /\ w <= 65535
  BY Bounds
<1>2. w % 256 \in Int /\ 0 <= w % 256 /\ w % 256 <= 255
  BY <1>1
<1>3. w \div 256 \in Int /\ 0 <= w \div 256 /\ w \div 256 <= 255
  BY <1>1
<1> QED BY <1>2, <1>3, Bounds DEF LoByte, HiByte

\* A byte as a set of bits.
LEMMA BitsOfTyped ==
  ASSUME NEW b \in Byte
  PROVE  BitsOf(b) \in SUBSET Bit
BY DEF BitsOf

\* Every sum of weights of bits is a byte.
LEMMA WeightsAddUp ==
  ASSUME NEW w0 \in {0, 1},  NEW w1 \in {0, 2},  NEW w2 \in {0, 4},  NEW w3 \in {0, 8},
         NEW w4 \in {0, 16}, NEW w5 \in {0, 32}, NEW w6 \in {0, 64}, NEW w7 \in {0, 128}
  PROVE  w0 + w1 + w2 + w3 + w4 + w5 + w6 + w7 \in Byte
BY Bounds

\* A set of bits is a byte.
LEMMA ByteOfTyped ==
  ASSUME NEW bits \in SUBSET Bit
  PROVE  ByteOf(bits) \in Byte
<1> DEFINE W(i) == IF i \in bits THEN BitWeight[i + 1] ELSE 0
<1>1. /\ W(0) \in {0, 1}  /\ W(1) \in {0, 2}  /\ W(2) \in {0, 4}  /\ W(3) \in {0, 8}
      /\ W(4) \in {0, 16} /\ W(5) \in {0, 32} /\ W(6) \in {0, 64} /\ W(7) \in {0, 128}
  BY DEF BitWeight
<1>2. ByteOf(bits) = W(0) + W(1) + W(2) + W(3) + W(4) + W(5) + W(6) + W(7)
  BY DEF ByteOf
<1> HIDE DEF W
<1>3. W(0) + W(1) + W(2) + W(3) + W(4) + W(5) + W(6) + W(7) \in Byte
  BY <1>1, WeightsAddUp
<1> QED BY <1>2, <1>3

\* The operators &, | and ^ give bytes.
LEMMA BitwiseTyped ==
  ASSUME NEW a \in Byte, NEW b \in Byte
  PROVE  ByteAnd(a, b) \in Byte /\ ByteOr(a, b) \in Byte /\ ByteXor(a, b) \in Byte
<1>1. BitsOf(a) \in SUBSET Bit /\ BitsOf(b) \in SUBSET Bit
  BY BitsOfTyped
<1>2. /\ BitsOf(a) \cap BitsOf(b) \in SUBSET Bit
      /\ BitsOf(a) \cup BitsOf(b) \in SUBSET Bit
      /\ (BitsOf(a) \cup BitsOf(b)) \ (BitsOf(a) \cap BitsOf(b)) \in SUBSET Bit
  BY <1>1
<1> QED BY <1>2, ByteOfTyped DEF ByteAnd, ByteOr, ByteXor

-----------------------------------------------------------------------------
(* Registers *)

\* Half a byte, and the two things that can be done with it.
LEMMA HalfTyped ==
  ASSUME NEW b \in Byte
  PROVE  b \div 2 \in 0 .. 127
<1>1. b \div 2 \in Int /\ b \div 2 >= 0
  BY Bounds
<1>2. b \div 2 <= 127
  BY Bounds
<1> QED BY <1>1, <1>2

\* The flags are bits of the status.
LEMMA FlagsAreBits ==
  {FLAG_CARRY, FLAG_ZERO, FLAG_INTERRUPT_DISABLE, FLAG_DECIMAL_MODE, FLAG_BREAK,
   FLAG_UNUSED, FLAG_OVERFLOW, FLAG_NEGATIVE} \subseteq Bit
BY DEF Bit, FLAG_CARRY, FLAG_ZERO, FLAG_INTERRUPT_DISABLE, FLAG_DECIMAL_MODE,
       FLAG_BREAK, FLAG_UNUSED, FLAG_OVERFLOW, FLAG_NEGATIVE

\* set_flag changes the status and nothing else.
LEMMA SetFlagTyped ==
  ASSUME NEW c \in RegisterFile, NEW flag \in Bit, NEW value
  PROVE  /\ set_flag(c, flag, value) \in RegisterFile
         /\ set_flag(c, flag, value).A = c.A
         /\ set_flag(c, flag, value).X = c.X
         /\ set_flag(c, flag, value).Y = c.Y
         /\ set_flag(c, flag, value).SP = c.SP
         /\ set_flag(c, flag, value).PC = c.PC
<1> DEFINE flags == IF value THEN c.status \cup {flag} ELSE c.status \ {flag}
<1>1. flags \in SUBSET Bit
  <2>1. c.status \in SUBSET Bit
    BY DEF RegisterFile
  <2> QED BY <2>1
<1>2. set_flag(c, flag, value) = [c EXCEPT !.status = flags]
  BY DEF set_flag
<1> HIDE DEF flags
<1> QED BY <1>1, <1>2 DEF RegisterFile

\* get_flag is 0 or 1.
LEMMA GetFlagTyped ==
  ASSUME NEW c, NEW flag
  PROVE  get_flag(c, flag) \in {0, 1}
BY DEF get_flag

\* set_nz changes the status and nothing else.
LEMMA SetNzTyped ==
  ASSUME NEW c \in RegisterFile, NEW value
  PROVE  /\ set_nz(c, value) \in RegisterFile
         /\ set_nz(c, value).A = c.A
         /\ set_nz(c, value).X = c.X
         /\ set_nz(c, value).Y = c.Y
         /\ set_nz(c, value).SP = c.SP
         /\ set_nz(c, value).PC = c.PC
<1> DEFINE c1 == set_flag(c, FLAG_NEGATIVE, Negative(value))
<1>1. FLAG_NEGATIVE \in Bit /\ FLAG_ZERO \in Bit
  BY FlagsAreBits
<1>2. /\ c1 \in RegisterFile /\ c1.A = c.A /\ c1.X = c.X /\ c1.Y = c.Y
      /\ c1.SP = c.SP /\ c1.PC = c.PC
  BY <1>1, SetFlagTyped
<1>3. set_nz(c, value) = set_flag(c1, FLAG_ZERO, value = 0)
  BY DEF set_nz
<1> HIDE DEF c1
<1> QED BY <1>1, <1>2, <1>3, SetFlagTyped

-----------------------------------------------------------------------------
(* Loads, logic and comparisons *)

\* A register takes a byte.
LEMMA AssignTyped ==
  ASSUME NEW c \in RegisterFile, NEW b \in Byte
  PROVE  /\ [c EXCEPT !.A = b] \in RegisterFile
         /\ [c EXCEPT !.X = b] \in RegisterFile
         /\ [c EXCEPT !.Y = b] \in RegisterFile
         /\ [c EXCEPT !.SP = b] \in RegisterFile
         /\ [c EXCEPT !.A = b, !.X = b] \in RegisterFile
BY DEF RegisterFile

\* PC takes a word.
LEMMA AssignPCTyped ==
  ASSUME NEW c \in RegisterFile, NEW w \in Word
  PROVE  [c EXCEPT !.PC = w] \in RegisterFile
BY DEF RegisterFile

\* The registers of a register file are bytes.
LEMMA RegistersTyped ==
  ASSUME NEW c \in RegisterFile
  PROVE  /\ c.A \in Byte /\ c.X \in Byte /\ c.Y \in Byte /\ c.SP \in Byte
         /\ c.PC \in Word /\ c.status \in SUBSET Bit
BY DEF RegisterFile

\* The loads.
LEMMA LoadTyped ==
  ASSUME NEW c \in RegisterFile, NEW b \in Byte
  PROVE  /\ LoadA(c, b) \in RegisterFile
         /\ LoadX(c, b) \in RegisterFile
         /\ LoadY(c, b) \in RegisterFile
         /\ LoadAX(c, b) \in RegisterFile
BY AssignTyped, SetNzTyped DEF LoadA, LoadX, LoadY, LoadAX

\* LDA and the logical instructions leave A as loaded.
LEMMA LoadALoads ==
  ASSUME NEW c \in RegisterFile, NEW b \in Byte
  PROVE  LoadA(c, b).A = b
<1>1. [c EXCEPT !.A = b] \in RegisterFile /\ [c EXCEPT !.A = b].A = b
  BY DEF RegisterFile
<1> QED BY <1>1, SetNzTyped DEF LoadA

\* AND, EOR and ORA.
LEMMA LogicTyped ==
  ASSUME NEW c \in RegisterFile, NEW b \in Byte
  PROVE  /\ alu_and(c, b) \in RegisterFile
         /\ alu_eor(c, b) \in RegisterFile
         /\ alu_ora(c, b) \in RegisterFile
BY RegistersTyped, BitwiseTyped, LoadTyped DEF alu_and, alu_eor, alu_ora

\* The comparisons, which change only flags.
LEMMA CompareTyped ==
  ASSUME NEW c \in RegisterFile, NEW register \in Byte, NEW b \in Byte
  PROVE  Compare(c, register, b) \in RegisterFile
<1>1. set_flag(c, FLAG_CARRY, register >= b) \in RegisterFile
  BY FlagsAreBits, SetFlagTyped
<1> QED BY <1>1, SetNzTyped DEF Compare

\* BIT, which changes only flags.
LEMMA BitTyped ==
  ASSUME NEW c \in RegisterFile, NEW b \in Byte
  PROVE  bit(c, b) \in RegisterFile
<1> DEFINE c1 == set_flag(c, FLAG_ZERO, ByteAnd(c.A, b) = 0)
           c2 == set_flag(c1, FLAG_NEGATIVE, Negative(b))
<1>1. c1 \in RegisterFile
  BY FlagsAreBits, SetFlagTyped
<1>2. c2 \in RegisterFile
  <2> HIDE DEF c1
  <2> QED BY <1>1, FlagsAreBits, SetFlagTyped
<1>3. bit(c, b) = set_flag(c2, FLAG_OVERFLOW, 6 \in BitsOf(b))
  BY DEF bit
<1> HIDE DEF c2
<1> QED BY <1>2, <1>3, FlagsAreBits, SetFlagTyped

-----------------------------------------------------------------------------
(* Addition and subtraction *)

\* The flags of a sum or a difference.
LEMMA CarryAndOverflowTyped ==
  ASSUME NEW c \in RegisterFile, NEW carry, NEW overflow
  PROVE  set_flag(set_flag(c, FLAG_CARRY, carry), FLAG_OVERFLOW, overflow)
           \in RegisterFile
<1> DEFINE c1 == set_flag(c, FLAG_CARRY, carry)
<1>1. c1 \in RegisterFile
  BY FlagsAreBits, SetFlagTyped
<1> HIDE DEF c1
<1>2. set_flag(c1, FLAG_OVERFLOW, overflow) \in RegisterFile
  BY <1>1, FlagsAreBits, SetFlagTyped
<1> QED BY <1>2 DEF c1

\* Two decimal digits make a byte.
LEMMA DigitsTyped ==
  ASSUME NEW high \in Int, NEW low \in Int
  PROVE  16 * (high % 16) + (low % 16) \in Byte
<1>1. high % 16 \in 0 .. 15 /\ low % 16 \in 0 .. 15
  OBVIOUS
<1> DEFINE h == high % 16
           l == low % 16
<1> HIDE DEF h, l
<1>2. 16 * h + l \in Byte
  BY <1>1, Bounds DEF h, l
<1> QED BY <1>2 DEF h, l

\* ADC.
LEMMA AdcTyped ==
  ASSUME NEW c \in RegisterFile, NEW b \in Byte
  PROVE  alu_adc(c, b) \in RegisterFile
<1>0. c.A \in Int /\ b \in Int /\ get_flag(c, FLAG_CARRY) \in Int
  BY RegistersTyped, GetFlagTyped, Bounds
<1>1. adc_binary(c, b) \in RegisterFile
  <2>1. U8(c.A + b + get_flag(c, FLAG_CARRY)) \in Byte
    BY <1>0, ConversionsTyped
  <2> DEFINE sum      == c.A + b + get_flag(c, FLAG_CARRY)
             overflow == /\ Negative(c.A) = Negative(b)
                         /\ Negative(c.A) # Negative(U8(sum))
             flagged  == set_flag(set_flag(c, FLAG_CARRY, sum > 255),
                                  FLAG_OVERFLOW, overflow)
  <2>2. adc_binary(c, b) = LoadA(flagged, U8(sum))
    BY DEF adc_binary
  <2> HIDE DEF sum, overflow
  <2>3. flagged \in RegisterFile
    BY CarryAndOverflowTyped
  <2> HIDE DEF flagged
  <2>4. U8(sum) \in Byte
    BY <2>1 DEF sum
  <2> QED BY <2>2, <2>3, <2>4, LoadTyped
<1>2. adc_decimal(c, b) \in RegisterFile
  <2> DEFINE raw_low  == (c.A % 16) + (b % 16) + get_flag(c, FLAG_CARRY)
             low      == IF raw_low > 9 THEN raw_low + 6 ELSE raw_low
             raw_high == 16 * (c.A \div 16 + b \div 16 + ((low \div 16) % 2))
             high     == IF raw_high > 159 THEN raw_high + 96 ELSE raw_high
             flagged  == set_flag(c, FLAG_CARRY, high > 255)
             digits   == 16 * ((high \div 16) % 16) + (low % 16)
  <2>1. flagged \in RegisterFile
    BY FlagsAreBits, SetFlagTyped
  <2>2. raw_low \in Int
    BY <1>0
  <2>3. low \in Int
    <3> HIDE DEF raw_low
    <3> QED BY <2>2
  <2>4. raw_high \in Int
    <3> HIDE DEF low
    <3> QED BY <1>0, <2>3
  <2>5. high \div 16 \in Int
    <3> HIDE DEF raw_high
    <3> QED BY <2>4
  <2>6. digits \in Byte
    <3> HIDE DEF low, high
    <3> QED BY <2>3, <2>5, DigitsTyped
  <2>7. adc_decimal(c, b) = [flagged EXCEPT !.A = digits]
    BY DEF adc_decimal
  <2> HIDE DEF flagged, digits
  <2> QED BY <2>1, <2>6, <2>7, AssignTyped
<1> QED BY <1>1, <1>2 DEF alu_adc

\* SBC in binary mode; its flags are those of both modes.
LEMMA SbcBinaryTyped ==
  ASSUME NEW c \in RegisterFile, NEW b \in Byte
  PROVE  sbc_binary(c, b) \in RegisterFile
<1>0. c.A \in Int /\ b \in Int /\ get_flag(c, FLAG_CARRY) \in Int
  BY RegistersTyped, GetFlagTyped, Bounds
<1> DEFINE diff     == c.A + (255 - b) + get_flag(c, FLAG_CARRY)
           overflow == /\ Negative(c.A) # Negative(b)
                       /\ Negative(c.A) # Negative(U8(diff))
           flagged  == set_flag(set_flag(c, FLAG_CARRY, diff > 255),
                                FLAG_OVERFLOW, overflow)
<1>1. U8(diff) \in Byte
  BY <1>0, ConversionsTyped
<1>2. sbc_binary(c, b) = LoadA(flagged, U8(diff))
  BY DEF sbc_binary
<1> HIDE DEF diff, overflow
<1>3. flagged \in RegisterFile
  BY CarryAndOverflowTyped
<1> QED BY <1>1, <1>2, <1>3, LoadTyped

\* SBC.
LEMMA SbcTyped ==
  ASSUME NEW c \in RegisterFile, NEW b \in Byte
  PROVE  alu_sbc(c, b) \in RegisterFile
<1>0. c.A \in Int /\ b \in Int /\ get_flag(c, FLAG_CARRY) \in Int
  BY RegistersTyped, GetFlagTyped, Bounds
<1>1. sbc_binary(c, b) \in RegisterFile
  BY SbcBinaryTyped
<1>2. sbc_decimal(c, b) \in RegisterFile
  <2> DEFINE low    == (c.A % 16) - (b % 16) - (1 - get_flag(c, FLAG_CARRY))
             borrow == low < 0
             al     == IF borrow THEN low - 6 ELSE low
             high   == c.A \div 16 - b \div 16 - (IF borrow THEN 1 ELSE 0)
             ah     == IF high < 0 THEN high - 6 ELSE high
             digits == 16 * (ah % 16) + (al % 16)
  <2>1. low \in Int
    BY <1>0
  <2>2. al \in Int /\ high \in Int
    <3> HIDE DEF low
    <3> QED BY <1>0, <2>1
  <2>3. ah \in Int
    <3> HIDE DEF high
    <3> QED BY <2>2
  <2>4. digits \in Byte
    <3> HIDE DEF al, ah
    <3> QED BY <2>2, <2>3, DigitsTyped
  <2>5. sbc_decimal(c, b) = [sbc_binary(c, b) EXCEPT !.A = digits]
    BY DEF sbc_decimal
  <2> HIDE DEF digits
  <2> QED BY <1>1, <2>4, <2>5, AssignTyped
<1> QED BY <1>1, <1>2 DEF alu_sbc

-----------------------------------------------------------------------------
(* The undocumented immediate instructions *)

\* A byte rotated to the right has the carry in bit 7.
LEMMA RotatedTyped ==
  ASSUME NEW b \in Byte, NEW carry \in {0, 1}
  PROVE  b \div 2 + 128 * carry \in Byte
<1> DEFINE half == b \div 2
<1>1. half \in 0 .. 127
  BY HalfTyped
<1> HIDE DEF half
<1>2. half + 128 * carry \in Byte
  BY <1>1, Bounds
<1> QED BY <1>2 DEF half

\* ANC, ALR, ARR, XAA, AXS and LAS.
LEMMA UndocumentedTyped ==
  ASSUME NEW c \in RegisterFile, NEW b \in Byte
  PROVE  /\ anc(c, b) \in RegisterFile
         /\ alr(c, b) \in RegisterFile
         /\ arr(c, b) \in RegisterFile
         /\ xaa(c, b) \in RegisterFile
         /\ axs(c, b) \in RegisterFile
         /\ las(c, b) \in RegisterFile
<1> DEFINE anded == alu_and(c, b)
<1>0. anded \in RegisterFile /\ anded.A \in Byte
  BY LogicTyped, RegistersTyped
<1>1. anc(c, b) \in RegisterFile
  <2>1. anc(c, b) = set_flag(anded, FLAG_CARRY, Negative(anded.A))
    BY DEF anc
  <2> HIDE DEF anded
  <2> QED BY <1>0, <2>1, FlagsAreBits, SetFlagTyped
<1>2. alr(c, b) \in RegisterFile
  <2> DEFINE carried == set_flag(anded, FLAG_CARRY, anded.A % 2 = 1)
  <2>1. alr(c, b) = LoadA(carried, anded.A \div 2)
    BY DEF alr
  <2> HIDE DEF anded
  <2>2. carried \in RegisterFile
    BY <1>0, FlagsAreBits, SetFlagTyped
  <2>3. anded.A \div 2 \in Byte
    BY <1>0, HalfTyped, Bounds
  <2> QED BY <2>1, <2>2, <2>3, LoadTyped
<1>3. arr(c, b) \in RegisterFile
  <2> DEFINE result  == anded.A \div 2 + 128 * get_flag(anded, FLAG_CARRY)
             flagged == set_flag(set_flag(anded, FLAG_CARRY, 6 \in BitsOf(result)),
                                 FLAG_OVERFLOW,
                                 (6 \in BitsOf(result)) # (5 \in BitsOf(result)))
  <2>1. arr(c, b) = LoadA(flagged, result)
    BY DEF arr
  <2> HIDE DEF anded
  <2>2. result \in Byte
    BY <1>0, RotatedTyped, GetFlagTyped
  <2> HIDE DEF result
  <2>3. flagged \in RegisterFile
    BY <1>0, CarryAndOverflowTyped
  <2> QED BY <2>1, <2>2, <2>3, LoadTyped
<1>4. xaa(c, b) \in RegisterFile
  BY RegistersTyped, LoadTyped, BitwiseTyped, AssignTyped DEF xaa
<1>5. axs(c, b) \in RegisterFile
  <2> DEFINE source == ByteAnd(c.A, c.X)
  <2>1. source \in Byte
    BY RegistersTyped, BitwiseTyped
  <2>2. axs(c, b) = [Compare(c, source, b) EXCEPT !.X = U8(source - b)]
    BY DEF axs
  <2> HIDE DEF source
  <2>3. U8(source - b) \in Byte
    BY <2>1, ConversionsTyped, Bounds
  <2>4. Compare(c, source, b) \in RegisterFile
    BY <2>1, CompareTyped
  <2> QED BY <2>2, <2>3, <2>4, AssignTyped
<1>6. las(c, b) \in RegisterFile
  <2>1. ByteAnd(b, c.SP) \in Byte
    BY RegistersTyped, BitwiseTyped
  <2> QED BY <2>1, LoadTyped, AssignTyped DEF las
<1> QED BY <1>1, <1>2, <1>3, <1>4, <1>5, <1>6

-----------------------------------------------------------------------------
(* The instructions *)

\* An instruction that reads its operand leaves registers, whatever the
\* operand.
LEMMA ExecuteTyped ==
  ASSUME NEW fn \in ReadFns, NEW c \in RegisterFile, NEW b \in Byte
  PROVE  Execute(fn, c, b) \in RegisterFile
<1>1. CASE fn \in {"lda", "ldx", "ldy", "nop", "lax", "lax_imm"}
  BY <1>1, LoadTyped, AssignTyped DEF Execute
<1>2. CASE fn \in {"and", "eor", "ora", "bit"}
  BY <1>2, LogicTyped, BitTyped DEF Execute
<1>3. CASE fn \in {"cmp", "cpx", "cpy"}
  BY <1>3, RegistersTyped, CompareTyped DEF Execute
<1>4. CASE fn \in {"adc", "sbc"}
  BY <1>4, AdcTyped, SbcTyped DEF Execute
<1>5. CASE fn \in {"anc", "alr", "arr", "xaa", "axs", "las"}
  BY <1>5, UndocumentedTyped DEF Execute
<1> QED BY <1>1, <1>2, <1>3, <1>4, <1>5 DEF ReadFns

\* What a read-modify-write instruction writes back is a byte.
LEMMA ModifiedTyped ==
  ASSUME NEW fn \in ModifyFns, NEW carry \in {0, 1}, NEW b \in Byte
  PROVE  Modified(fn, carry, b) \in Byte
<1>0. b \in Int
  BY Bounds
<1>1. CASE fn \in {"inc", "isc"}
  BY <1>0, <1>1, ConversionsTyped DEF Modified
<1>2. CASE fn \in {"dec", "dcp"}
  BY <1>0, <1>2, ConversionsTyped DEF Modified
<1>3. CASE fn \in {"asl", "slo"}
  BY <1>0, <1>3, ConversionsTyped DEF Modified
<1>4. CASE fn \in {"lsr", "sre"}
  <2>1. b \div 2 \in Byte
    BY HalfTyped, Bounds
  <2> QED BY <1>4, <2>1 DEF Modified
<1>5. CASE fn \in {"rol", "rla"}
  <2>1. U8(2 * b) + carry \in Byte
    BY <1>0, Bounds DEF U8
  <2> QED BY <1>5, <2>1 DEF Modified
<1>6. CASE fn \in {"ror", "rra"}
  BY <1>6, RotatedTyped DEF Modified
<1> QED BY <1>1, <1>2, <1>3, <1>4, <1>5, <1>6 DEF ModifyFns

\* And it leaves registers.
LEMMA ModifyTyped ==
  ASSUME NEW fn \in ModifyFns, NEW c \in RegisterFile, NEW b \in Byte
  PROVE  Modify(fn, c, b) \in RegisterFile
<1> DEFINE result  == Modified(fn, get_flag(c, FLAG_CARRY), b)
           carried == set_flag(c, FLAG_CARRY, ShiftedOut(fn, b))
<1>1. result \in Byte
  BY GetFlagTyped, ModifiedTyped
<1>2. carried \in RegisterFile /\ c.A \in Byte
  BY FlagsAreBits, SetFlagTyped, RegistersTyped
<1>3. Modify(fn, c, b) =
        CASE fn \in {"inc", "dec"} -> set_nz(c, result)
          [] fn \in {"asl", "lsr", "rol", "ror"} -> set_nz(carried, result)
          [] fn = "slo" -> alu_ora(carried, result)
          [] fn = "sre" -> alu_eor(carried, result)
          [] fn = "rla" -> alu_and(carried, result)
          [] fn = "rra" -> alu_adc(set_nz(carried, result), result)
          [] fn = "dcp" -> Compare(c, c.A, result)
          [] fn = "isc" -> alu_sbc(c, result)
  BY DEF Modify
<1> HIDE DEF result, carried
<1>4. CASE fn \in {"inc", "dec", "asl", "lsr", "rol", "ror"}
  BY <1>1, <1>2, <1>3, <1>4, SetNzTyped
<1>5. CASE fn \in {"slo", "sre", "rla"}
  BY <1>1, <1>2, <1>3, <1>5, LogicTyped
<1>6. CASE fn = "rra"
  <2>1. set_nz(carried, result) \in RegisterFile
    BY <1>2, SetNzTyped
  <2> QED BY <1>1, <1>3, <1>6, <2>1, AdcTyped
<1>7. CASE fn \in {"dcp", "isc"}
  BY <1>1, <1>2, <1>3, <1>7, CompareTyped, SbcTyped
<1> QED BY <1>4, <1>5, <1>6, <1>7 DEF ModifyFns

\* A shift or rotation of A.
LEMMA ExecuteAccumulatorTyped ==
  ASSUME NEW fn \in AccumulatorFns, NEW c \in RegisterFile
  PROVE  ExecuteAccumulator(fn, c) \in RegisterFile
<1>1. fn \in ModifyFns /\ c.A \in Byte
  BY RegistersTyped DEF AccumulatorFns, ModifyFns
<1>2. Modified(fn, get_flag(c, FLAG_CARRY), c.A) \in Byte
  BY <1>1, GetFlagTyped, ModifiedTyped
<1> QED BY <1>1, <1>2, ModifyTyped, AssignTyped DEF ExecuteAccumulator

\* Transfers, increments of X and Y, and the flag instructions.
LEMMA ExecuteImpliedTyped ==
  ASSUME NEW fn \in ImpliedFns, NEW c \in RegisterFile
  PROVE  ExecuteImplied(fn, c) \in RegisterFile
<1>0. c.A \in Byte /\ c.X \in Byte /\ c.Y \in Byte /\ c.SP \in Byte
  BY RegistersTyped
<1>1. CASE fn \in {"txs", "tsx", "tax", "txa", "tya", "tay", "nop"}
  BY <1>0, <1>1, LoadTyped, AssignTyped DEF ExecuteImplied
<1>2. CASE fn \in {"inx", "iny", "dex", "dey"}
  <2>0. c.X \in Int /\ c.Y \in Int
    BY <1>0, Bounds
  <2>1. c.X + 1 \in Int /\ c.Y + 1 \in Int /\ c.X - 1 \in Int /\ c.Y - 1 \in Int
    BY <2>0
  <2>2. /\ U8(c.X + 1) \in Byte /\ U8(c.Y + 1) \in Byte
        /\ U8(c.X - 1) \in Byte /\ U8(c.Y - 1) \in Byte
    BY <2>1, ConversionsTyped
  <2> QED BY <1>2, <2>2, LoadTyped DEF ExecuteImplied
<1>3. CASE fn \in {"cld", "clc", "cli", "clv", "sec", "sed", "sei"}
  BY <1>3, FlagsAreBits, SetFlagTyped DEF ExecuteImplied
<1> QED BY <1>1, <1>2, <1>3 DEF ImpliedFns

\* What is stored is a byte.
LEMMA StoredTyped ==
  ASSUME NEW fn \in StoreFns, NEW c \in RegisterFile, NEW high \in Byte
  PROVE  Stored(fn, c, high) \in Byte
<1>1. CASE fn \in {"sta", "stx", "sty"}
  BY <1>1, RegistersTyped DEF Stored
<1>2. CASE fn \in {"sax", "sha", "shx", "shy"}
  BY <1>2, RegistersTyped, BitwiseTyped DEF Stored
<1> QED BY <1>1, <1>2 DEF StoreFns

=============================================================================
