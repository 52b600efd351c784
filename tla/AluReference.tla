---------------------------- MODULE AluReference ----------------------------
(***************************************************************************)
(* The arithmetic of module Alu against what it is meant to compute: signed *)
(* and unsigned integers in binary mode, two decimal digits in decimal     *)
(* mode.  A state is an accumulator, a carry, a mode and an operand, with  *)
(* what ADC, SBC and CMP make of them.                                     *)
(***************************************************************************)
EXTENDS Alu

CONSTANTS Accumulators, Operands

ASSUME OperandsAreBytes == Accumulators \subseteq Byte /\ Operands \subseteq Byte

VARIABLES
  cpu,          \* the registers before the instruction
  operand,      \* its operand; None before one is chosen
  sum,          \* the registers after ADC
  difference,   \* after SBC
  comparison    \* after CMP

aluvars == <<cpu, operand, sum, difference, comparison>>

None == 256

ValidBcd(b) == b % 16 < 10 /\ b \div 16 < 10
Digits(b)   == 10 * (b \div 16) + (b % 16)

Registers(variant, a, status) ==
  [variant |-> variant, A |-> a, X |-> 0, Y |-> 0, SP |-> 253, PC |-> 1024,
   status |-> status]

\* V, N and Z start out wrong, so that a flag left alone is noticed.
Init ==
  /\ \E variant \in Variants, a \in Accumulators,
        carry \in {{}, {FLAG_CARRY}},
        decimal \in {{}, {FLAG_DECIMAL_MODE}} :
       cpu = Registers(variant, a, carry \cup decimal \cup
               {FLAG_ZERO, FLAG_OVERFLOW, FLAG_NEGATIVE, FLAG_UNUSED})
  /\ operand = None
  /\ sum = cpu /\ difference = cpu /\ comparison = cpu

Choose ==
  /\ operand = None
  /\ operand' \in Operands
  /\ sum' = Execute("adc", cpu, operand')
  /\ difference' = Execute("sbc", cpu, operand')
  /\ comparison' = Execute("cmp", cpu, operand')
  /\ UNCHANGED cpu

Next == Choose \/ (operand # None /\ UNCHANGED aluvars)

Spec == Init /\ [][Next]_aluvars

-----------------------------------------------------------------------------

Chosen == operand # None
carry  == get_flag(cpu, FLAG_CARRY)
DecimalOperands == Decimal(cpu) /\ ValidBcd(cpu.A) /\ ValidBcd(operand)

\* The flags of an arithmetic result: Z and N from the byte, and the rest.
HasFlags(after, result, c, v) ==
  /\ FLAG_CARRY \in after.status <=> c
  /\ FLAG_OVERFLOW \in after.status <=> v
  /\ FLAG_ZERO \in after.status <=> result = 0
  /\ FLAG_NEGATIVE \in after.status <=> S8(result) < 0

SignedOverflow(n) == n \notin -128 .. 127

\* In binary mode, which is the only one of the RP2A03, ADC adds with carry:
\* C tells that the unsigned sum does not fit, V that the signed one does not.
BinaryAdc ==
  Chosen /\ ~Decimal(cpu) =>
    LET unsigned == cpu.A + operand + carry
        signed   == S8(cpu.A) + S8(operand) + carry
    IN  /\ sum.A = U8(unsigned)
        /\ HasFlags(sum, sum.A, unsigned > 255, SignedOverflow(signed))

\* SBC subtracts with borrow, the complement of the carry.
BinarySbc ==
  Chosen /\ ~Decimal(cpu) =>
    LET unsigned == cpu.A - operand - (1 - carry)
        signed   == S8(cpu.A) - S8(operand) - (1 - carry)
    IN  /\ difference.A = U8(unsigned)
        /\ HasFlags(difference, difference.A, unsigned >= 0, SignedOverflow(signed))

\* In decimal mode ADC adds two-digit numbers, with a carry for the hundred.
DecimalAdc ==
  Chosen /\ DecimalOperands =>
    LET total == Digits(cpu.A) + Digits(operand) + carry
    IN  /\ ValidBcd(sum.A) /\ Digits(sum.A) = total % 100
        /\ FLAG_CARRY \in sum.status <=> total > 99

\* SBC subtracts them; with a borrow the result is the complement to 100.
DecimalSbc ==
  Chosen /\ DecimalOperands =>
    LET total == Digits(cpu.A) - Digits(operand) - (1 - carry)
    IN  /\ ValidBcd(difference.A) /\ Digits(difference.A) = total % 100
        /\ FLAG_CARRY \in difference.status <=> total >= 0

\* CMP sets the flags of a binary subtraction without borrow in either mode,
\* and changes neither A nor V.
CmpComparesUnsigned ==
  Chosen =>
    /\ comparison.A = cpu.A
    /\ HasFlags(comparison, U8(cpu.A - operand), cpu.A >= operand,
                FLAG_OVERFLOW \in cpu.status)

\* "Original hardware behavior" (README.md:25): the ADC of an NMOS 6502 sets Z
\* from the binary sum in decimal mode too.  The decimal branch of alu_adc
\* leaves Z, and N and V, as they were.
DecimalAdcSetsZero ==
  Chosen /\ DecimalOperands =>
    (FLAG_ZERO \in sum.status <=> U8(cpu.A + operand + carry) = 0)

=============================================================================
