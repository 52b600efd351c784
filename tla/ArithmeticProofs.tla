--------------------------- MODULE ArithmeticProofs ---------------------------
(***************************************************************************)
(* The invariants of module AluReference, for every accumulator, operand,  *)
(* carry and mode: ADC and SBC compute what signed, unsigned and two-digit *)
(* decimal arithmetic promise, and CMP compares unsigned bytes.            *)
(*                                                                         *)
(* The first part is arithmetic on numbers, the second reads the flags of  *)
(* the operators of module Alu, and the third puts the two together.       *)
(***************************************************************************)
EXTENDS AluReference, AluProofs

-----------------------------------------------------------------------------
(* Numbers *)

\* A sum or a difference of two bytes fits a byte, or is 256 too large, or 256
\* too small.
LEMMA WrapsOnce ==
  ASSUME NEW n \in -256 .. 511
  PROVE  U8(n) = IF n > 255 THEN n - 256 ELSE IF n < 0 THEN n + 256 ELSE n
<1>1. CASE n > 255
  BY <1>1 DEF U8
<1>2. CASE n < 0
  BY <1>2 DEF U8
<1>3. CASE 0 <= n /\ n <= 255
  BY <1>3 DEF U8
<1> QED BY <1>1, <1>2, <1>3

\* Bit 7 is the sign.
LEMMA SignIsBit7 ==
  ASSUME NEW b \in Byte
  PROVE  /\ S8(b) < 0 <=> Negative(b)
         /\ S8(b) = IF Negative(b) THEN b - 256 ELSE b
BY Bounds DEF S8, Negative

\* The V flag of an addition: two operands of one sign and a result of the
\* other are a signed sum that does not fit.
LEMMA AdditionOverflows ==
  ASSUME NEW a \in Byte, NEW b \in Byte, NEW c \in {0, 1}
  PROVE  (/\ Negative(a) = Negative(b)
          /\ Negative(a) # Negative(U8(a + b + c)))
         <=> SignedOverflow(S8(a) + S8(b) + c)
<1>1. /\ a \in Int /\ 0 <= a /\ a <= 255
      /\ b \in Int /\ 0 <= b /\ b <= 255
      /\ c \in Int /\ 0 <= c /\ c <= 1
  BY Bounds
<1>2. U8(a + b + c) = IF a + b + c > 255 THEN a + b + c - 256 ELSE a + b + c
  BY <1>1, WrapsOnce
<1> QED BY <1>1, <1>2 DEF Negative, S8, SignedOverflow

\* The V flag of a subtraction.
LEMMA SubtractionOverflows ==
  ASSUME NEW a \in Byte, NEW b \in Byte, NEW c \in {0, 1}
  PROVE  (/\ Negative(a) # Negative(b)
          /\ Negative(a) # Negative(U8(a + (255 - b) + c)))
         <=> SignedOverflow(S8(a) - S8(b) - (1 - c))
<1>1. /\ a \in Int /\ 0 <= a /\ a <= 255
      /\ b \in Int /\ 0 <= b /\ b <= 255
      /\ c \in Int /\ 0 <= c /\ c <= 1
  BY Bounds
<1>2. U8(a + (255 - b) + c) =
        IF a + (255 - b) + c > 255 THEN a + (255 - b) + c - 256
                                   ELSE a + (255 - b) + c
  BY <1>1, WrapsOnce
<1> QED BY <1>1, <1>2 DEF Negative, S8, SignedOverflow

\* A byte is two hexadecimal digits.
LEMMA TwoDigits ==
  ASSUME NEW b \in Byte
  PROVE  /\ b % 16 \in 0 .. 15 /\ b \div 16 \in 0 .. 15
         /\ b = 16 * (b \div 16) + (b % 16)
<1>1. b \in Int /\ 0 <= b /\ b <= 255
  BY Bounds
<1>2. b % 16 \in Int /\ 0 <= b % 16 /\ b % 16 <= 15
  BY <1>1
<1>3. b = 16 * (b \div 16) + (b % 16) /\ b \div 16 \in Int
  BY <1>1
<1>4. 0 <= b \div 16 /\ b \div 16 <= 15
  BY <1>1, <1>2, <1>3
<1> QED BY <1>1, <1>2, <1>3, <1>4

\* Two decimal digits put together are found again.
LEMMA DigitsFound ==
  ASSUME NEW high \in 0 .. 9, NEW low \in 0 .. 9
  PROVE  LET b == 16 * high + low
         IN  ValidBcd(b) /\ Digits(b) = 10 * high + low
<1> DEFINE b == 16 * high + low
<1>1. b % 16 = low /\ b \div 16 = high
  OBVIOUS
<1> HIDE DEF b
<1>2. ValidBcd(b) /\ Digits(b) = 10 * high + low
  BY <1>1 DEF ValidBcd, Digits
<1> QED BY <1>2 DEF b

\* The adjustment of the low digit of a decimal sum: the digit is reduced by
\* ten and the carry goes to the high one.
LEMMA LowDigitAdjusted ==
  ASSUME NEW n \in 0 .. 19
  PROVE  LET low == IF n > 9 THEN n + 6 ELSE n
         IN  /\ low % 16 = IF n > 9 THEN n - 10 ELSE n
             /\ (low \div 16) % 2 = IF n > 9 THEN 1 ELSE 0
<1>1. CASE n > 9
  <2>1. n + 6 = 16 + (n - 10) /\ n - 10 \in 0 .. 9
    BY <1>1
  <2>2. (n + 6) % 16 = n - 10 /\ (n + 6) \div 16 = 1
    BY <2>1
  <2> QED BY <1>1, <2>2
<1>2. CASE ~(n > 9)
  <2>1. n % 16 = n /\ n \div 16 = 0
    BY <1>2
  <2> QED BY <1>2, <2>1
<1> QED BY <1>1, <1>2

\* The adjustment of the high digit, which is kept in bits 4 to 7.
LEMMA HighDigitAdjusted ==
  ASSUME NEW n \in 0 .. 19
  PROVE  LET high == IF 16 * n > 159 THEN 16 * n + 96 ELSE 16 * n
         IN  /\ (high \div 16) % 16 = IF n > 9 THEN n - 10 ELSE n
             /\ high > 255 <=> n > 9
<1>1. CASE n > 9
  <2>1. /\ 16 * n > 159 /\ 16 * n + 96 = 16 * (n + 6)
        /\ n + 6 = 16 + (n - 10) /\ n - 10 \in 0 .. 9
    BY <1>1
  <2>2. (16 * n + 96) \div 16 = n + 6
    BY <2>1
  <2>3. (n + 6) % 16 = n - 10
    BY <2>1
  <2> QED BY <1>1, <2>1, <2>2, <2>3
<1>2. CASE ~(n > 9)
  <2>1. ~(16 * n > 159) /\ (16 * n) \div 16 = n /\ n % 16 = n
    BY <1>2
  <2> QED BY <1>2, <2>1
<1> QED BY <1>1, <1>2

\* The adjustment of a digit of a decimal difference.
LEMMA DigitBorrowed ==
  ASSUME NEW n \in -10 .. 9
  PROVE  LET digit == IF n < 0 THEN n - 6 ELSE n
         IN  digit % 16 = IF n < 0 THEN n + 10 ELSE n
<1>1. CASE n < 0
  <2>1. n - 6 = -16 + (n + 10) /\ n + 10 \in 0 .. 9
    BY <1>1
  <2>2. (n - 6) % 16 = n + 10
    BY <2>1
  <2> QED BY <1>1, <2>2
<1>2. CASE n >= 0
  <2>1. n % 16 = n
    BY <1>2
  <2> QED BY <1>2, <2>1
<1> QED BY <1>1, <1>2

-----------------------------------------------------------------------------
(* Flags *)

\* set_flag gives its flag the value, and leaves the others.
LEMMA SetFlagSets ==
  ASSUME NEW c \in RegisterFile, NEW flag \in Bit, NEW value \in BOOLEAN
  PROVE  LET after == set_flag(c, flag, value)
         IN  /\ flag \in after.status <=> value
             /\ \A other \in Bit \ {flag} :
                  other \in after.status <=> other \in c.status
<1>1. set_flag(c, flag, value).status =
        IF value THEN c.status \cup {flag} ELSE c.status \ {flag}
  BY DEF set_flag, RegisterFile
<1> QED BY <1>1

\* set_nz gives N and Z the sign and the zero of the byte, and leaves the
\* others.
LEMMA SetNzSets ==
  ASSUME NEW c \in RegisterFile, NEW value \in Byte
  PROVE  LET after == set_nz(c, value)
         IN  /\ FLAG_NEGATIVE \in after.status <=> Negative(value)
             /\ FLAG_ZERO \in after.status <=> value = 0
             /\ \A other \in Bit \ {FLAG_NEGATIVE, FLAG_ZERO} :
                  other \in after.status <=> other \in c.status
<1> DEFINE c1 == set_flag(c, FLAG_NEGATIVE, Negative(value))
<1>1. /\ FLAG_NEGATIVE \in Bit /\ FLAG_ZERO \in Bit /\ FLAG_NEGATIVE # FLAG_ZERO
      /\ Negative(value) \in BOOLEAN /\ (value = 0) \in BOOLEAN
  BY FlagsAreBits DEF FLAG_NEGATIVE, FLAG_ZERO, Negative
<1>2. /\ c1 \in RegisterFile
      /\ FLAG_NEGATIVE \in c1.status <=> Negative(value)
      /\ \A other \in Bit \ {FLAG_NEGATIVE} :
           other \in c1.status <=> other \in c.status
  BY <1>1, SetFlagTyped, SetFlagSets
<1> DEFINE zero  == value = 0
           after == set_flag(c1, FLAG_ZERO, zero)
<1>3. set_nz(c, value) = after
  BY DEF set_nz
<1>4. zero \in BOOLEAN
  OBVIOUS
<1> HIDE DEF c1, zero
<1>5. /\ FLAG_ZERO \in after.status <=> zero
      /\ \A other \in Bit \ {FLAG_ZERO} :
           other \in after.status <=> other \in c1.status
  BY <1>1, <1>2, <1>4, SetFlagSets
<1> HIDE DEF after
<1> QED BY <1>1, <1>2, <1>3, <1>5 DEF zero

\* A load of A leaves N and Z of the byte, and the other flags.
LEMMA LoadASets ==
  ASSUME NEW c \in RegisterFile, NEW value \in Byte
  PROVE  LET after == LoadA(c, value)
         IN  /\ after.A = value
             /\ FLAG_NEGATIVE \in after.status <=> Negative(value)
             /\ FLAG_ZERO \in after.status <=> value = 0
             /\ \A other \in Bit \ {FLAG_NEGATIVE, FLAG_ZERO} :
                  other \in after.status <=> other \in c.status
<1>1. /\ [c EXCEPT !.A = value] \in RegisterFile
      /\ [c EXCEPT !.A = value].status = c.status
  BY AssignTyped DEF RegisterFile
<1>2. LoadA(c, value).A = value
  BY LoadALoads
<1> QED BY <1>1, <1>2, SetNzSets DEF LoadA

\* A load of A after C and V were set, which is how a sum and a difference are
\* written back, leaves the four flags of its arguments.
LEMMA ResultSets ==
  ASSUME NEW c \in RegisterFile, NEW result \in Byte,
         NEW cy \in BOOLEAN, NEW ov \in BOOLEAN
  PROVE  LET flagged == set_flag(set_flag(c, FLAG_CARRY, cy), FLAG_OVERFLOW, ov)
             after   == LoadA(flagged, result)
         IN  after.A = result /\ HasFlags(after, result, cy, ov)
<1> DEFINE c1      == set_flag(c, FLAG_CARRY, cy)
           flagged == set_flag(c1, FLAG_OVERFLOW, ov)
           after   == LoadA(flagged, result)
<1>1. /\ FLAG_CARRY \in Bit \ {FLAG_OVERFLOW, FLAG_NEGATIVE, FLAG_ZERO}
      /\ FLAG_OVERFLOW \in Bit \ {FLAG_NEGATIVE, FLAG_ZERO}
  BY DEF Bit, FLAG_CARRY, FLAG_OVERFLOW, FLAG_NEGATIVE, FLAG_ZERO
<1>2. c1 \in RegisterFile /\ (FLAG_CARRY \in c1.status <=> cy)
  BY <1>1, SetFlagTyped, SetFlagSets
<1> HIDE DEF c1
<1>3. /\ flagged \in RegisterFile
      /\ FLAG_CARRY \in flagged.status <=> cy
      /\ FLAG_OVERFLOW \in flagged.status <=> ov
  BY <1>1, <1>2, SetFlagTyped, SetFlagSets
<1> HIDE DEF flagged
<1>4. /\ after.A = result
      /\ FLAG_NEGATIVE \in after.status <=> Negative(result)
      /\ FLAG_ZERO \in after.status <=> result = 0
      /\ FLAG_CARRY \in after.status <=> cy
      /\ FLAG_OVERFLOW \in after.status <=> ov
  BY <1>1, <1>3, LoadASets
<1> HIDE DEF after
<1>5. after.A = result /\ HasFlags(after, result, cy, ov)
  BY <1>4, SignIsBit7 DEF HasFlags
<1> QED BY <1>5 DEF after, flagged, c1

-----------------------------------------------------------------------------
(* The operators of module Alu *)

\* The binary sum, whatever the mode.
LEMMA AdcBinaryAdds ==
  ASSUME NEW c \in RegisterFile, NEW b \in Byte
  PROVE  LET k        == get_flag(c, FLAG_CARRY)
             after    == adc_binary(c, b)
             unsigned == c.A + b + k
         IN  /\ after.A = U8(unsigned)
             /\ HasFlags(after, after.A, unsigned > 255,
                         SignedOverflow(S8(c.A) + S8(b) + k))
<1> DEFINE k        == get_flag(c, FLAG_CARRY)
           unsigned == c.A + b + k
           overflow == /\ Negative(c.A) = Negative(b)
                       /\ Negative(c.A) # Negative(U8(unsigned))
           flagged  == set_flag(set_flag(c, FLAG_CARRY, unsigned > 255),
                                FLAG_OVERFLOW, overflow)
<1>1. c.A \in Byte /\ k \in {0, 1}
  BY RegistersTyped, GetFlagTyped
<1>2. adc_binary(c, b) = LoadA(flagged, U8(unsigned))
  BY DEF adc_binary
<1> HIDE DEF k
<1>3. U8(unsigned) \in Byte /\ (unsigned > 255) \in BOOLEAN
  <2>1. unsigned \in Int
    BY <1>1, Bounds
  <2> HIDE DEF unsigned
  <2> QED BY <2>1, ConversionsTyped
<1>4. overflow <=> SignedOverflow(S8(c.A) + S8(b) + k)
  BY <1>1, AdditionOverflows
<1>5. overflow \in BOOLEAN
  OBVIOUS
<1> DEFINE result == U8(unsigned)
           over   == unsigned > 255
<1> HIDE DEF overflow, unsigned, result, over
<1>6. LET after == LoadA(flagged, U8(unsigned))
      IN  after.A = U8(unsigned)
          /\ HasFlags(after, U8(unsigned), unsigned > 255, overflow)
  <2>1. result \in Byte /\ over \in BOOLEAN
    BY <1>3 DEF result, over
  <2>2. LET after == LoadA(set_flag(set_flag(c, FLAG_CARRY, over),
                                    FLAG_OVERFLOW, overflow), result)
        IN  after.A = result /\ HasFlags(after, result, over, overflow)
    BY <1>5, <2>1, ResultSets
  <2> QED BY <2>2 DEF result, over
<1> HIDE DEF flagged
<1>7. LET after == adc_binary(c, b)
      IN  /\ after.A = U8(unsigned)
          /\ HasFlags(after, after.A, unsigned > 255,
                      SignedOverflow(S8(c.A) + S8(b) + k))
  BY <1>2, <1>4, <1>6 DEF HasFlags
<1> QED BY <1>7 DEF unsigned, k

\* The binary difference, whatever the mode.
LEMMA SbcBinarySubtracts ==
  ASSUME NEW c \in RegisterFile, NEW b \in Byte
  PROVE  LET k        == get_flag(c, FLAG_CARRY)
             after    == sbc_binary(c, b)
             unsigned == c.A - b - (1 - k)
         IN  /\ after.A = U8(unsigned)
             /\ HasFlags(after, after.A, unsigned >= 0,
                         SignedOverflow(S8(c.A) - S8(b) - (1 - k)))
<1> DEFINE k        == get_flag(c, FLAG_CARRY)
           diff     == c.A + (255 - b) + k
           overflow == /\ Negative(c.A) # Negative(b)
                       /\ Negative(c.A) # Negative(U8(diff))
           flagged  == set_flag(set_flag(c, FLAG_CARRY, diff > 255),
                                FLAG_OVERFLOW, overflow)
<1>1. c.A \in Byte /\ k \in {0, 1}
  BY RegistersTyped, GetFlagTyped
<1>2. sbc_binary(c, b) = LoadA(flagged, U8(diff))
  BY DEF sbc_binary
<1> HIDE DEF k
<1>3. /\ U8(diff) \in Byte /\ (diff > 255) \in BOOLEAN
      /\ U8(diff) = U8(c.A - b - (1 - k))
      /\ diff > 255 <=> c.A - b - (1 - k) >= 0
  <2>1. /\ c.A \in Int /\ 0 <= c.A /\ c.A <= 255
        /\ b \in Int /\ 0 <= b /\ b <= 255 /\ k \in 0 .. 1
    BY <1>1, Bounds
  <2>2. diff \in Int /\ diff = (c.A - b - (1 - k)) + 256
    BY <2>1
  <2>3. c.A - b - (1 - k) \in Int
    BY <2>1
  <2> HIDE DEF diff
  <2>4. U8(diff) \in Byte
    BY <2>2, ConversionsTyped
  <2>5. U8(diff) = U8(c.A - b - (1 - k))
    BY <2>2, <2>3 DEF U8
  <2> QED BY <2>2, <2>3, <2>4, <2>5
<1>4. overflow <=> SignedOverflow(S8(c.A) - S8(b) - (1 - k))
  BY <1>1, SubtractionOverflows
<1>5. overflow \in BOOLEAN
  OBVIOUS
<1> HIDE DEF overflow, diff
<1> DEFINE result == U8(diff)
           over   == diff > 255
<1> HIDE DEF result, over
<1>6. LET after == LoadA(flagged, U8(diff))
      IN  after.A = U8(diff) /\ HasFlags(after, U8(diff), diff > 255, overflow)
  <2>1. result \in Byte /\ over \in BOOLEAN
    BY <1>3 DEF result, over
  <2>2. LET after == LoadA(set_flag(set_flag(c, FLAG_CARRY, over),
                                    FLAG_OVERFLOW, overflow), result)
        IN  after.A = result /\ HasFlags(after, result, over, overflow)
    BY <1>5, <2>1, ResultSets
  <2> QED BY <2>2 DEF result, over
<1> HIDE DEF flagged
<1>7. LET after    == sbc_binary(c, b)
          unsigned == c.A - b - (1 - k)
      IN  /\ after.A = U8(unsigned)
          /\ HasFlags(after, after.A, unsigned >= 0,
                      SignedOverflow(S8(c.A) - S8(b) - (1 - k)))
  BY <1>2, <1>3, <1>4, <1>6 DEF HasFlags
<1> QED BY <1>7 DEF k

\* The decimal sum of two-digit numbers, and its carry for the hundred.
LEMMA AdcDecimalAdds ==
  ASSUME NEW c \in RegisterFile, NEW b \in Byte, ValidBcd(c.A), ValidBcd(b)
  PROVE  LET after == adc_decimal(c, b)
             total == Digits(c.A) + Digits(b) + get_flag(c, FLAG_CARRY)
         IN  /\ ValidBcd(after.A) /\ Digits(after.A) = total % 100
             /\ FLAG_CARRY \in after.status <=> total > 99
<1> DEFINE k        == get_flag(c, FLAG_CARRY)
           al       == c.A % 16
           ah       == c.A \div 16
           bl       == b % 16
           bh       == b \div 16
           raw_low  == al + bl + k
           low      == IF raw_low > 9 THEN raw_low + 6 ELSE raw_low
           sum_high == ah + bh + ((low \div 16) % 2)
           raw_high == 16 * sum_high
           high     == IF raw_high > 159 THEN raw_high + 96 ELSE raw_high
           over     == high > 255
           flagged  == set_flag(c, FLAG_CARRY, over)
           digits   == 16 * ((high \div 16) % 16) + (low % 16)
<1>1. adc_decimal(c, b) = [flagged EXCEPT !.A = digits]
  BY DEF adc_decimal
<1>2. al \in 0 .. 9 /\ ah \in 0 .. 9 /\ bl \in 0 .. 9 /\ bh \in 0 .. 9 /\ k \in 0 .. 1
  BY RegistersTyped, GetFlagTyped, TwoDigits DEF ValidBcd
<1>3. Digits(c.A) = 10 * ah + al /\ Digits(b) = 10 * bh + bl
  BY DEF Digits
<1> HIDE DEF k, al, ah, bl, bh
<1>4. raw_low \in 0 .. 19
  BY <1>2
<1>5. /\ low % 16 = IF raw_low > 9 THEN raw_low - 10 ELSE raw_low
      /\ (low \div 16) % 2 = IF raw_low > 9 THEN 1 ELSE 0
  <2> HIDE DEF raw_low
  <2> QED BY <1>4, LowDigitAdjusted
<1> HIDE DEF low
<1>6. sum_high \in 0 .. 19
  BY <1>2, <1>5
<1>7. /\ (high \div 16) % 16 = IF sum_high > 9 THEN sum_high - 10 ELSE sum_high
      /\ over <=> sum_high > 9
  <2> HIDE DEF sum_high
  <2> QED BY <1>6, HighDigitAdjusted
<1>8. over \in BOOLEAN
  OBVIOUS
<1> HIDE DEF high, over
<1>9. (high \div 16) % 16 \in 0 .. 9 /\ low % 16 \in 0 .. 9
  BY <1>4, <1>5, <1>6, <1>7
<1>10. ValidBcd(digits) /\ Digits(digits) = 10 * ((high \div 16) % 16) + (low % 16)
  BY <1>9, DigitsFound
<1>11. LET total == Digits(c.A) + Digits(b) + k
       IN  /\ Digits(digits) = IF total > 99 THEN total - 100 ELSE total
           /\ total \in 0 .. 199
           /\ over <=> total > 99
  <2> HIDE DEF digits
  <2> QED BY <1>2, <1>3, <1>4, <1>5, <1>6, <1>7, <1>10
<1>12. LET total == Digits(c.A) + Digits(b) + k
       IN  Digits(digits) = total % 100
  <2> DEFINE total == Digits(c.A) + Digits(b) + k
  <2> HIDE DEF total, digits
  <2>1. /\ total \in 0 .. 199
        /\ Digits(digits) = IF total > 99 THEN total - 100 ELSE total
    BY <1>11 DEF total
  <2>2. Digits(digits) = total % 100
    BY <2>1
  <2> QED BY <2>2 DEF total
<1>13. /\ [flagged EXCEPT !.A = digits].A = digits
       /\ [flagged EXCEPT !.A = digits].status = flagged.status
       /\ FLAG_CARRY \in flagged.status <=> over
  <2>1. flagged \in RegisterFile /\ (FLAG_CARRY \in flagged.status <=> over)
    BY <1>8, FlagsAreBits, SetFlagTyped, SetFlagSets
  <2> HIDE DEF flagged, digits
  <2> QED BY <2>1 DEF RegisterFile
<1> HIDE DEF flagged, digits
<1> QED BY <1>1, <1>10, <1>11, <1>12, <1>13 DEF k

\* The decimal difference; with a borrow it is the complement to 100.  The
\* flags are those of the binary difference, and its carry is the decimal one.
LEMMA SbcDecimalSubtracts ==
  ASSUME NEW c \in RegisterFile, NEW b \in Byte, ValidBcd(c.A), ValidBcd(b)
  PROVE  LET after == sbc_decimal(c, b)
             total == Digits(c.A) - Digits(b) - (1 - get_flag(c, FLAG_CARRY))
         IN  /\ ValidBcd(after.A) /\ Digits(after.A) = total % 100
             /\ FLAG_CARRY \in after.status <=> total >= 0
<1> DEFINE k       == get_flag(c, FLAG_CARRY)
           al      == c.A % 16
           ah      == c.A \div 16
           bl      == b % 16
           bh      == b \div 16
           low     == al - bl - (1 - k)
           adj_low == IF low < 0 THEN low - 6 ELSE low
           high    == ah - bh - (IF low < 0 THEN 1 ELSE 0)
           adj_high == IF high < 0 THEN high - 6 ELSE high
           digits  == 16 * (adj_high % 16) + (adj_low % 16)
           binary  == sbc_binary(c, b)
<1>1. sbc_decimal(c, b) = [binary EXCEPT !.A = digits]
  BY DEF sbc_decimal
<1>2. al \in 0 .. 9 /\ ah \in 0 .. 9 /\ bl \in 0 .. 9 /\ bh \in 0 .. 9 /\ k \in 0 .. 1
  BY RegistersTyped, GetFlagTyped, TwoDigits DEF ValidBcd
<1>3. /\ Digits(c.A) = 10 * ah + al /\ Digits(b) = 10 * bh + bl
      /\ c.A = 16 * ah + al /\ b = 16 * bh + bl
  <2>1. Digits(c.A) = 10 * ah + al /\ Digits(b) = 10 * bh + bl
    BY DEF Digits
  <2>2. c.A = 16 * ah + al /\ b = 16 * bh + bl
    BY RegistersTyped, TwoDigits
  <2> QED BY <2>1, <2>2
<1>4. binary \in RegisterFile
  BY SbcBinaryTyped
<1>5. FLAG_CARRY \in binary.status <=> c.A - b - (1 - k) >= 0
  BY SbcBinarySubtracts DEF HasFlags
<1> HIDE DEF k, al, ah, bl, bh, binary
<1>6. low \in -10 .. 9 /\ high \in -10 .. 9
  BY <1>2
<1>7. /\ adj_low % 16 = IF low < 0 THEN low + 10 ELSE low
      /\ adj_high % 16 = IF high < 0 THEN high + 10 ELSE high
  <2> HIDE DEF low, high
  <2> QED BY <1>6, DigitBorrowed
<1> HIDE DEF adj_low, adj_high
<1>8. adj_high % 16 \in 0 .. 9 /\ adj_low % 16 \in 0 .. 9
  <2> HIDE DEF low, high
  <2> QED BY <1>6, <1>7
<1>9. ValidBcd(digits) /\ Digits(digits) = 10 * (adj_high % 16) + (adj_low % 16)
  BY <1>8, DigitsFound
<1>10. LET total == Digits(c.A) - Digits(b) - (1 - k)
       IN  /\ Digits(digits) = IF total < 0 THEN total + 100 ELSE total
           /\ total \in -100 .. 99
           /\ c.A - b - (1 - k) >= 0 <=> total >= 0
  <2> HIDE DEF digits, low, high
  <2>1. /\ low = al - bl - (1 - k)
        /\ high = ah - bh - (IF low < 0 THEN 1 ELSE 0)
        /\ Digits(c.A) - Digits(b) - (1 - k) = 10 * (ah - bh) + low
        /\ c.A - b - (1 - k) = 16 * (ah - bh) + low
    BY <1>2, <1>3 DEF low, high
  <2>2. high < 0 <=> 10 * (ah - bh) + low < 0
    BY <1>2, <1>6, <2>1
  <2>3. high < 0 <=> 16 * (ah - bh) + low < 0
    BY <1>2, <1>6, <2>1
  <2>4. Digits(digits) = 10 * (ah - bh) + low + (IF high < 0 THEN 100 ELSE 0)
    BY <1>2, <1>6, <1>7, <1>9, <2>1
  <2> QED BY <1>2, <1>6, <2>1, <2>2, <2>3, <2>4
<1>11. LET total == Digits(c.A) - Digits(b) - (1 - k)
       IN  Digits(digits) = total % 100
  <2> DEFINE total == Digits(c.A) - Digits(b) - (1 - k)
  <2> HIDE DEF total, digits
  <2>1. /\ total \in -100 .. 99
        /\ Digits(digits) = IF total < 0 THEN total + 100 ELSE total
    BY <1>10 DEF total
  <2>2. Digits(digits) = total % 100
    BY <2>1
  <2> QED BY <2>2 DEF total
<1>12. /\ [binary EXCEPT !.A = digits].A = digits
       /\ [binary EXCEPT !.A = digits].status = binary.status
  <2> HIDE DEF digits
  <2> QED BY <1>4 DEF RegisterFile
<1> HIDE DEF digits
<1> QED BY <1>1, <1>5, <1>9, <1>10, <1>11, <1>12 DEF k

\* A comparison changes three flags, as a binary subtraction without borrow
\* would.
LEMMA CompareCompares ==
  ASSUME NEW c \in RegisterFile, NEW register \in Byte, NEW b \in Byte
  PROVE  LET after == Compare(c, register, b)
         IN  /\ after.A = c.A
             /\ HasFlags(after, U8(register - b), register >= b,
                         FLAG_OVERFLOW \in c.status)
<1> DEFINE notless == register >= b
           c1      == set_flag(c, FLAG_CARRY, notless)
           result  == U8(register - b)
           after   == set_nz(c1, result)
<1>1. /\ FLAG_CARRY \in Bit \ {FLAG_OVERFLOW, FLAG_NEGATIVE, FLAG_ZERO}
      /\ FLAG_OVERFLOW \in Bit \ {FLAG_NEGATIVE, FLAG_ZERO}
  BY DEF Bit, FLAG_CARRY, FLAG_OVERFLOW, FLAG_NEGATIVE, FLAG_ZERO
<1>2. Compare(c, register, b) = after
  BY DEF Compare
<1>3. result \in Byte /\ notless \in BOOLEAN
  <2>1. register - b \in Int
    BY Bounds
  <2> QED BY <2>1, ConversionsTyped
<1> HIDE DEF notless, result
<1>4. /\ c1 \in RegisterFile /\ c1.A = c.A
      /\ FLAG_CARRY \in c1.status <=> notless
      /\ FLAG_OVERFLOW \in c1.status <=> FLAG_OVERFLOW \in c.status
  BY <1>1, <1>3, SetFlagTyped, SetFlagSets
<1> HIDE DEF c1
<1>5. /\ after.A = c.A
      /\ FLAG_NEGATIVE \in after.status <=> Negative(result)
      /\ FLAG_ZERO \in after.status <=> result = 0
      /\ FLAG_CARRY \in after.status <=> notless
      /\ FLAG_OVERFLOW \in after.status <=> FLAG_OVERFLOW \in c.status
  BY <1>1, <1>3, <1>4, SetNzTyped, SetNzSets
<1> HIDE DEF after
<1>6. HasFlags(after, result, notless, FLAG_OVERFLOW \in c.status)
  BY <1>3, <1>5, SignIsBit7 DEF HasFlags
<1> QED BY <1>2, <1>5, <1>6 DEF result, notless

-----------------------------------------------------------------------------
(* The reference state machine *)

\* What is known in every state: nothing is computed before the operand is
\* chosen, and afterwards each result is what its instruction makes of it.
Computed ==
  /\ cpu \in RegisterFile
  /\ Chosen =>
       /\ operand \in Byte
       /\ sum = alu_adc(cpu, operand)
       /\ difference = alu_sbc(cpu, operand)
       /\ comparison = Compare(cpu, cpu.A, operand)

\* Computed is inductive.
LEMMA ComputedInvariant == Spec => []Computed
<1>1. Init => Computed
  <2> SUFFICES ASSUME Init PROVE Computed
    OBVIOUS
  <2>1. PICK variant \in Variants, a \in Accumulators,
             cy \in {{}, {FLAG_CARRY}}, decimal \in {{}, {FLAG_DECIMAL_MODE}} :
          cpu = Registers(variant, a, cy \cup decimal \cup
                  {FLAG_ZERO, FLAG_OVERFLOW, FLAG_NEGATIVE, FLAG_UNUSED})
    BY DEF Init
  <2> DEFINE status == cy \cup decimal \cup
                  {FLAG_ZERO, FLAG_OVERFLOW, FLAG_NEGATIVE, FLAG_UNUSED}
  <2>2. status \in SUBSET Bit
    BY FlagsAreBits
  <2>3. a \in Byte /\ 0 \in Byte /\ 253 \in Byte /\ 1024 \in Word
    BY OperandsAreBytes, Bounds
  <2> HIDE DEF status
  <2>4. Registers(variant, a, status) \in RegisterFile
    BY <2>2, <2>3 DEF Registers, RegisterFile
  <2>5. ~Chosen
    BY DEF Init, Chosen
  <2> QED BY <2>1, <2>4, <2>5 DEF Computed, status
<1>2. Computed /\ [Next]_aluvars => Computed'
  <2> SUFFICES ASSUME Computed, [Next]_aluvars PROVE Computed'
    OBVIOUS
  <2>1. CASE Choose
    <3>1. operand' \in Byte
      BY <2>1, OperandsAreBytes DEF Choose
    <3>2. /\ Execute("adc", cpu, operand') = alu_adc(cpu, operand')
          /\ Execute("sbc", cpu, operand') = alu_sbc(cpu, operand')
          /\ Execute("cmp", cpu, operand') = Compare(cpu, cpu.A, operand')
      BY DEF Execute
    <3> QED BY <2>1, <3>1, <3>2 DEF Choose, Computed
  <2>2. CASE UNCHANGED aluvars
    BY <2>2 DEF aluvars, Computed, Chosen
  <2> QED BY <2>1, <2>2 DEF Next
<1> QED BY <1>1, <1>2, PTL DEF Spec

\* ADC in binary mode adds, and C and V tell the unsigned and the signed
\* overflow.
THEOREM BinaryAdcHolds == Spec => []BinaryAdc
<1>1. Computed => BinaryAdc
  <2> SUFFICES ASSUME Computed, Chosen, ~Decimal(cpu) PROVE BinaryAdc
    BY DEF BinaryAdc
  <2>1. sum = adc_binary(cpu, operand)
    BY DEF Computed, alu_adc
  <2> QED BY <2>1, AdcBinaryAdds DEF Computed, BinaryAdc, carry
<1> QED BY <1>1, ComputedInvariant, PTL

\* SBC in binary mode subtracts with borrow.
THEOREM BinarySbcHolds == Spec => []BinarySbc
<1>1. Computed => BinarySbc
  <2> SUFFICES ASSUME Computed, Chosen, ~Decimal(cpu) PROVE BinarySbc
    BY DEF BinarySbc
  <2>1. difference = sbc_binary(cpu, operand)
    BY DEF Computed, alu_sbc
  <2> QED BY <2>1, SbcBinarySubtracts DEF Computed, BinarySbc, carry
<1> QED BY <1>1, ComputedInvariant, PTL

\* ADC in decimal mode adds two-digit numbers.
THEOREM DecimalAdcHolds == Spec => []DecimalAdc
<1>1. Computed => DecimalAdc
  <2> SUFFICES ASSUME Computed, Chosen, DecimalOperands PROVE DecimalAdc
    BY DEF DecimalAdc
  <2>1. sum = adc_decimal(cpu, operand)
    BY DEF Computed, alu_adc, DecimalOperands
  <2> QED BY <2>1, AdcDecimalAdds DEF Computed, DecimalAdc, DecimalOperands, carry
<1> QED BY <1>1, ComputedInvariant, PTL

\* SBC in decimal mode subtracts them.
THEOREM DecimalSbcHolds == Spec => []DecimalSbc
<1>1. Computed => DecimalSbc
  <2> SUFFICES ASSUME Computed, Chosen, DecimalOperands PROVE DecimalSbc
    BY DEF DecimalSbc
  <2>1. difference = sbc_decimal(cpu, operand)
    BY DEF Computed, alu_sbc, DecimalOperands
  <2> QED BY <2>1, SbcDecimalSubtracts DEF Computed, DecimalSbc, DecimalOperands, carry
<1> QED BY <1>1, ComputedInvariant, PTL

\* CMP compares unsigned bytes in either mode.
THEOREM CmpComparesUnsignedHolds == Spec => []CmpComparesUnsigned
<1>1. Computed => CmpComparesUnsigned
  <2> SUFFICES ASSUME Computed, Chosen PROVE CmpComparesUnsigned
    BY DEF CmpComparesUnsigned
  <2>1. comparison = Compare(cpu, cpu.A, operand) /\ cpu.A \in Byte
    BY RegistersTyped DEF Computed
  <2> QED BY <2>1, CompareCompares DEF Computed, CmpComparesUnsigned
<1> QED BY <1>1, ComputedInvariant, PTL

=============================================================================
