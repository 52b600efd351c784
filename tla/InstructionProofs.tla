-------------------------- MODULE InstructionProofs --------------------------
(***************************************************************************)
(* The micro-programs against the instruction set: every entry of          *)
(* instruction_defs is the program that the bits of its opcode ask for;    *)
(* what its micro-operations leave in op on the way is the effective       *)
(* address of the operand; and so every instruction accesses memory where  *)
(* the instruction set does, and takes its cycles.                         *)
(***************************************************************************)
EXTENDS CpuImplementation, HandoverProofs

-----------------------------------------------------------------------------
(* Decoding.  The programs of an operation f in an addressing mode. *)

ReadProgram(mode, f, program) ==
  /\ f \in ReadFns
  /\ \/ mode = "imm"  /\ program = Immediate(f)
     \/ mode = "zp"   /\ program = ReadZp(f)
     \/ mode = "zpX"  /\ program = ReadZpX(f)
     \/ mode = "zpY"  /\ program = ReadZpY(f)
     \/ mode = "abs"  /\ program = ReadAbs(f)
     \/ mode = "absX" /\ program = ReadAbsX(f)
     \/ mode = "absX" /\ program = NopAbsX /\ f = "nop"
     \/ mode = "absY" /\ program = ReadAbsY(f)
     \/ mode = "indX" /\ program = ReadIndX(f)
     \/ mode = "indY" /\ program = ReadIndY(f)

StoreProgram(mode, f, program) ==
  \/ /\ f \in StoreFns
     /\ \/ mode = "zp"   /\ program = StoreZp(f)
        \/ mode = "zpX"  /\ program = StoreZpX(f)
        \/ mode = "zpY"  /\ program = StoreZpY(f)
        \/ mode = "abs"  /\ program = StoreAbs(f)
        \/ mode = "absX" /\ program = StoreAbsX(f)
        \/ mode = "absY" /\ program = StoreAbsY(f)
        \/ mode = "indX" /\ program = StoreIndX(f)
        \/ mode = "indY" /\ program = StoreIndY(f)
  \/ f = "tas" /\ mode = "absY" /\ program = TAS

ModifyProgram(mode, f, program) ==
  /\ f \in ModifyFns
  /\ \/ mode = "zp"   /\ program = ModifyZp(f)
     \/ mode = "zpX"  /\ program = ModifyZpX(f)
     \/ mode = "abs"  /\ program = ModifyAbs(f)
     \/ mode = "absX" /\ program = ModifyAbsX(f)
     \/ mode = "absY" /\ program = ModifyAbsY(f)
     \/ mode = "indX" /\ program = ModifyIndX(f)
     \/ mode = "indY" /\ program = ModifyIndY(f)

OtherProgram(mode, f, program) ==
  \/ /\ mode = "none"
     /\ \/ f \in AccumulatorFns /\ program = Accumulator(f)
        \/ f \in ImpliedFns /\ program = Implied(f)
        \/ f = "php" /\ program = PHP
        \/ f = "pha" /\ program = PHA
        \/ f = "plp" /\ program = PLP
        \/ f = "pla" /\ program = PLA
  \/ /\ mode = "control"
     /\ \/ f = "brk" /\ program = BRK
        \/ f = "jsr" /\ program = JSR
        \/ f = "rti" /\ program = RTI
        \/ f = "rts" /\ program = RTS
  \/ mode = "jump"    /\ f = "jmp" /\ program = JMP_abs
  \/ mode = "jumpInd" /\ f = "jmp" /\ program = JMP_ind
  \/ mode = "rel"     /\ f \in BranchFns /\ program = Branch(f)
  \/ mode = "jam"     /\ f = "kil" /\ program = KIL

Decoded(mode, f, program) ==
  \/ ReadProgram(mode, f, program)  \/ StoreProgram(mode, f, program)
  \/ ModifyProgram(mode, f, program) \/ OtherProgram(mode, f, program)

RowDecoded(first, row) ==
  \A i \in 0 .. 15 :
    Decoded(InstructionSet!Mode(first + i), InstructionSet!Operation(first + i),
            row[i + 1])

\* Row 0 of instruction_defs is the one of the opcode matrix.
LEMMA Row_0_Decoded == RowDecoded(0, Row_0)
<1>1. \A i \in 0 .. 15 : /\ InstructionSet!Aaa(0 + i) = 0
                        /\ InstructionSet!Bbb(0 + i) = 0 + i \div 4
                        /\ InstructionSet!Cc(0 + i) = i % 4
  BY DEF InstructionSet!Aaa, InstructionSet!Bbb, InstructionSet!Cc
<1> DEFINE modes ==
      <<"control", "indX", "jam", "indX", "zp", "zp", "zp", "zp", "none",
        "imm", "none", "imm", "abs", "abs", "abs", "abs">>
    operations ==
      <<"brk", "ora", "kil", "slo", "nop", "ora", "asl", "slo", "php",
        "ora", "asl", "anc", "nop", "ora", "asl", "slo">>
<1>2. \A i \in 0 .. 15 : InstructionSet!Mode(0 + i) = modes[i + 1]
  BY <1>1
     DEF InstructionSet!Mode, InstructionSet!MemoryMode, InstructionSet!IndexesX
<1>3. \A i \in 0 .. 15 : InstructionSet!Operation(0 + i) = operations[i + 1]
  BY <1>1, <1>2 DEF InstructionSet!Operation, InstructionSet!Irregular,
     InstructionSet!Column01, InstructionSet!Column11,
     InstructionSet!Column10, InstructionSet!Column00, InstructionSet!Imm11,
     InstructionSet!Stack00, InstructionSet!Flags00, InstructionSet!None10,
     InstructionSet!Control, InstructionSet!Branches
<1> QED BY <1>2, <1>3
           DEF RowDecoded, Row_0, Decoded, ReadProgram, ModifyProgram,
     StoreProgram, OtherProgram, ReadFns, ModifyFns, StoreFns, AccumulatorFns,
     ImpliedFns, BranchFns

\* Row 1 of instruction_defs is the one of the opcode matrix.
LEMMA Row_1_Decoded == RowDecoded(16, Row_1)
<1>1. \A i \in 0 .. 15 : /\ InstructionSet!Aaa(16 + i) = 0
                        /\ InstructionSet!Bbb(16 + i) = 4 + i \div 4
                        /\ InstructionSet!Cc(16 + i) = i % 4
  BY DEF InstructionSet!Aaa, InstructionSet!Bbb, InstructionSet!Cc
<1> DEFINE modes ==
      <<"rel", "indY", "jam", "indY", "zpX", "zpX", "zpX", "zpX", "none",
        "absY", "none", "absY", "absX", "absX", "absX", "absX">>
    operations ==
      <<"bpl", "ora", "kil", "slo", "nop", "ora", "asl", "slo", "clc",
        "ora", "nop", "slo", "nop", "ora", "asl", "slo">>
<1>2. \A i \in 0 .. 15 : InstructionSet!Mode(16 + i) = modes[i + 1]
  BY <1>1
     DEF InstructionSet!Mode, InstructionSet!MemoryMode, InstructionSet!IndexesX
<1>3. \A i \in 0 .. 15 : InstructionSet!Operation(16 + i) = operations[i + 1]
  BY <1>1, <1>2 DEF InstructionSet!Operation, InstructionSet!Irregular,
     InstructionSet!Column01, InstructionSet!Column11,
     InstructionSet!Column10, InstructionSet!Column00, InstructionSet!Imm11,
     InstructionSet!Stack00, InstructionSet!Flags00, InstructionSet!None10,
     InstructionSet!Control, InstructionSet!Branches
<1> QED BY <1>2, <1>3
           DEF RowDecoded, Row_1, Decoded, ReadProgram, ModifyProgram,
     StoreProgram, OtherProgram, ReadFns, ModifyFns, StoreFns, AccumulatorFns,
     ImpliedFns, BranchFns

\* Row 2 of instruction_defs is the one of the opcode matrix.
LEMMA Row_2_Decoded == RowDecoded(32, Row_2)
<1>1. \A i \in 0 .. 15 : /\ InstructionSet!Aaa(32 + i) = 1
                        /\ InstructionSet!Bbb(32 + i) = 0 + i \div 4
                        /\ InstructionSet!Cc(32 + i) = i % 4
  BY DEF InstructionSet!Aaa, InstructionSet!Bbb, InstructionSet!Cc
<1> DEFINE modes ==
      <<"control", "indX", "jam", "indX", "zp", "zp", "zp", "zp", "none",
        "imm", "none", "imm", "abs", "abs", "abs", "abs">>
    operations ==
      <<"jsr", "and", "kil", "rla", "bit", "and", "rol", "rla", "plp",
        "and", "rol", "anc", "bit", "and", "rol", "rla">>
<1>2. \A i \in 0 .. 15 : InstructionSet!Mode(32 + i) = modes[i + 1]
  BY <1>1
     DEF InstructionSet!Mode, InstructionSet!MemoryMode, InstructionSet!IndexesX
<1>3. \A i \in 0 .. 15 : InstructionSet!Operation(32 + i) = operations[i + 1]
  BY <1>1, <1>2 DEF InstructionSet!Operation, InstructionSet!Irregular,
     InstructionSet!Column01, InstructionSet!Column11,
     InstructionSet!Column10, InstructionSet!Column00, InstructionSet!Imm11,
     InstructionSet!Stack00, InstructionSet!Flags00, InstructionSet!None10,
     InstructionSet!Control, InstructionSet!Branches
<1> QED BY <1>2, <1>3
           DEF RowDecoded, Row_2, Decoded, ReadProgram, ModifyProgram,
     StoreProgram, OtherProgram, ReadFns, ModifyFns, StoreFns, AccumulatorFns,
     ImpliedFns, BranchFns

\* Row 3 of instruction_defs is the one of the opcode matrix.
LEMMA Row_3_Decoded == RowDecoded(48, Row_3)
<1>1. \A i \in 0 .. 15 : /\ InstructionSet!Aaa(48 + i) = 1
                        /\ InstructionSet!Bbb(48 + i) = 4 + i \div 4
                        /\ InstructionSet!Cc(48 + i) = i % 4
  BY DEF InstructionSet!Aaa, InstructionSet!Bbb, InstructionSet!Cc
<1> DEFINE modes ==
      <<"rel", "indY", "jam", "indY", "zpX", "zpX", "zpX", "zpX", "none",
        "absY", "none", "absY", "absX", "absX", "absX", "absX">>
    operations ==
      <<"bmi", "and", "kil", "rla", "nop", "and", "rol", "rla", "sec",
        "and", "nop", "rla", "nop", "and", "rol", "rla">>
<1>2. \A i \in 0 .. 15 : InstructionSet!Mode(48 + i) = modes[i + 1]
  BY <1>1
     DEF InstructionSet!Mode, InstructionSet!MemoryMode, InstructionSet!IndexesX
<1>3. \A i \in 0 .. 15 : InstructionSet!Operation(48 + i) = operations[i + 1]
  BY <1>1, <1>2 DEF InstructionSet!Operation, InstructionSet!Irregular,
     InstructionSet!Column01, InstructionSet!Column11,
     InstructionSet!Column10, InstructionSet!Column00, InstructionSet!Imm11,
     InstructionSet!Stack00, InstructionSet!Flags00, InstructionSet!None10,
     InstructionSet!Control, InstructionSet!Branches
<1> QED BY <1>2, <1>3
           DEF RowDecoded, Row_3, Decoded, ReadProgram, ModifyProgram,
     StoreProgram, OtherProgram, ReadFns, ModifyFns, StoreFns, AccumulatorFns,
     ImpliedFns, BranchFns

\* Row 4 of instruction_defs is the one of the opcode matrix.
LEMMA Row_4_Decoded == RowDecoded(64, Row_4)
<1>1. \A i \in 0 .. 15 : /\ InstructionSet!Aaa(64 + i) = 2
                        /\ InstructionSet!Bbb(64 + i) = 0 + i \div 4
                        /\ InstructionSet!Cc(64 + i) = i % 4
  BY DEF InstructionSet!Aaa, InstructionSet!Bbb, InstructionSet!Cc
<1> DEFINE modes ==
      <<"control", "indX", "jam", "indX", "zp", "zp", "zp", "zp", "none",
        "imm", "none", "imm", "jump", "abs", "abs", "abs">>
    operations ==
      <<"rti", "eor", "kil", "sre", "nop", "eor", "lsr", "sre", "pha",
        "eor", "lsr", "alr", "jmp", "eor", "lsr", "sre">>
<1>2. \A i \in 0 .. 15 : InstructionSet!Mode(64 + i) = modes[i + 1]
  BY <1>1
     DEF InstructionSet!Mode, InstructionSet!MemoryMode, InstructionSet!IndexesX
<1>3. \A i \in 0 .. 15 : InstructionSet!Operation(64 + i) = operations[i + 1]
  BY <1>1, <1>2 DEF InstructionSet!Operation, InstructionSet!Irregular,
     InstructionSet!Column01, InstructionSet!Column11,
     InstructionSet!Column10, InstructionSet!Column00, InstructionSet!Imm11,
     InstructionSet!Stack00, InstructionSet!Flags00, InstructionSet!None10,
     InstructionSet!Control, InstructionSet!Branches
<1> QED BY <1>2, <1>3
           DEF RowDecoded, Row_4, Decoded, ReadProgram, ModifyProgram,
     StoreProgram, OtherProgram, ReadFns, ModifyFns, StoreFns, AccumulatorFns,
     ImpliedFns, BranchFns

\* Row 5 of instruction_defs is the one of the opcode matrix.
LEMMA Row_5_Decoded == RowDecoded(80, Row_5)
<1>1. \A i \in 0 .. 15 : /\ InstructionSet!Aaa(80 + i) = 2
                        /\ InstructionSet!Bbb(80 + i) = 4 + i \div 4
                        /\ InstructionSet!Cc(80 + i) = i % 4
  BY DEF InstructionSet!Aaa, InstructionSet!Bbb, InstructionSet!Cc
<1> DEFINE modes ==
      <<"rel", "indY", "jam", "indY", "zpX", "zpX", "zpX", "zpX", "none",
        "absY", "none", "absY", "absX", "absX", "absX", "absX">>
    operations ==
      <<"bvc", "eor", "kil", "sre", "nop", "eor", "lsr", "sre", "cli",
        "eor", "nop", "sre", "nop", "eor", "lsr", "sre">>
<1>2. \A i \in 0 .. 15 : InstructionSet!Mode(80 + i) = modes[i + 1]
  BY <1>1
     DEF InstructionSet!Mode, InstructionSet!MemoryMode, InstructionSet!IndexesX
<1>3. \A i \in 0 .. 15 : InstructionSet!Operation(80 + i) = operations[i + 1]
  BY <1>1, <1>2 DEF InstructionSet!Operation, InstructionSet!Irregular,
     InstructionSet!Column01, InstructionSet!Column11,
     InstructionSet!Column10, InstructionSet!Column00, InstructionSet!Imm11,
     InstructionSet!Stack00, InstructionSet!Flags00, InstructionSet!None10,
     InstructionSet!Control, InstructionSet!Branches
<1> QED BY <1>2, <1>3
           DEF RowDecoded, Row_5, Decoded, ReadProgram, ModifyProgram,
     StoreProgram, OtherProgram, ReadFns, ModifyFns, StoreFns, AccumulatorFns,
     ImpliedFns, BranchFns

\* Row 6 of instruction_defs is the one of the opcode matrix.
LEMMA Row_6_Decoded == RowDecoded(96, Row_6)
<1>1. \A i \in 0 .. 15 : /\ InstructionSet!Aaa(96 + i) = 3
                        /\ InstructionSet!Bbb(96 + i) = 0 + i \div 4
                        /\ InstructionSet!Cc(96 + i) = i % 4
  BY DEF InstructionSet!Aaa, InstructionSet!Bbb, InstructionSet!Cc
<1> DEFINE modes ==
      <<"control", "indX", "jam", "indX", "zp", "zp", "zp", "zp", "none",
        "imm", "none", "imm", "jumpInd", "abs", "abs", "abs">>
    operations ==
      <<"rts", "adc", "kil", "rra", "nop", "adc", "ror", "rra", "pla",
        "adc", "ror", "arr", "jmp", "adc", "ror", "rra">>
<1>2. \A i \in 0 .. 15 : InstructionSet!Mode(96 + i) = modes[i + 1]
  BY <1>1
     DEF InstructionSet!Mode, InstructionSet!MemoryMode, InstructionSet!IndexesX
<1>3. \A i \in 0 .. 15 : InstructionSet!Operation(96 + i) = operations[i + 1]
  BY <1>1, <1>2 DEF InstructionSet!Operation, InstructionSet!Irregular,
     InstructionSet!Column01, InstructionSet!Column11,
     InstructionSet!Column10, InstructionSet!Column00, InstructionSet!Imm11,
     InstructionSet!Stack00, InstructionSet!Flags00, InstructionSet!None10,
     InstructionSet!Control, InstructionSet!Branches
<1> QED BY <1>2, <1>3
           DEF RowDecoded, Row_6, Decoded, ReadProgram, ModifyProgram,
     StoreProgram, OtherProgram, ReadFns, ModifyFns, StoreFns, AccumulatorFns,
     ImpliedFns, BranchFns

\* Row 7 of instruction_defs is the one of the opcode matrix.
LEMMA Row_7_Decoded == RowDecoded(112, Row_7)
<1>1. \A i \in 0 .. 15 : /\ InstructionSet!Aaa(112 + i) = 3
                        /\ InstructionSet!Bbb(112 + i) = 4 + i \div 4
                        /\ InstructionSet!Cc(112 + i) = i % 4
  BY DEF InstructionSet!Aaa, InstructionSet!Bbb, InstructionSet!Cc
<1> DEFINE modes ==
      <<"rel", "indY", "jam", "indY", "zpX", "zpX", "zpX", "zpX", "none",
        "absY", "none", "absY", "absX", "absX", "absX", "absX">>
    operations ==
      <<"bvs", "adc", "kil", "rra", "nop", "adc", "ror", "rra", "sei",
        "adc", "nop", "rra", "nop", "adc", "ror", "rra">>
<1>2. \A i \in 0 .. 15 : InstructionSet!Mode(112 + i) = modes[i + 1]
  BY <1>1
     DEF InstructionSet!Mode, InstructionSet!MemoryMode, InstructionSet!IndexesX
<1>3. \A i \in 0 .. 15 : InstructionSet!Operation(112 + i) = operations[i + 1]
  BY <1>1, <1>2 DEF InstructionSet!Operation, InstructionSet!Irregular,
     InstructionSet!Column01, InstructionSet!Column11,
     InstructionSet!Column10, InstructionSet!Column00, InstructionSet!Imm11,
     InstructionSet!Stack00, InstructionSet!Flags00, InstructionSet!None10,
     InstructionSet!Control, InstructionSet!Branches
<1> QED BY <1>2, <1>3
           DEF RowDecoded, Row_7, Decoded, ReadProgram, ModifyProgram,
     StoreProgram, OtherProgram, ReadFns, ModifyFns, StoreFns, AccumulatorFns,
     ImpliedFns, BranchFns

\* Row 8 of instruction_defs is the one of the opcode matrix.
LEMMA Row_8_Decoded == RowDecoded(128, Row_8)
<1>1. \A i \in 0 .. 15 : /\ InstructionSet!Aaa(128 + i) = 4
                        /\ InstructionSet!Bbb(128 + i) = 0 + i \div 4
                        /\ InstructionSet!Cc(128 + i) = i % 4
  BY DEF InstructionSet!Aaa, InstructionSet!Bbb, InstructionSet!Cc
<1> DEFINE modes ==
      <<"imm", "indX", "imm", "indX", "zp", "zp", "zp", "zp", "none", "imm",
        "none", "imm", "abs", "abs", "abs", "abs">>
    operations ==
      <<"nop", "sta", "nop", "sax", "sty", "sta", "stx", "sax", "dey",
        "nop", "txa", "xaa", "sty", "sta", "stx", "sax">>
<1>2. \A i \in 0 .. 15 : InstructionSet!Mode(128 + i) = modes[i + 1]
  BY <1>1
     DEF InstructionSet!Mode, InstructionSet!MemoryMode, InstructionSet!IndexesX
<1>3. \A i \in 0 .. 15 : InstructionSet!Operation(128 + i) = operations[i + 1]
  BY <1>1, <1>2 DEF InstructionSet!Operation, InstructionSet!Irregular,
     InstructionSet!Column01, InstructionSet!Column11,
     InstructionSet!Column10, InstructionSet!Column00, InstructionSet!Imm11,
     InstructionSet!Stack00, InstructionSet!Flags00, InstructionSet!None10,
     InstructionSet!Control, InstructionSet!Branches
<1> QED BY <1>2, <1>3
           DEF RowDecoded, Row_8, Decoded, ReadProgram, ModifyProgram,
     StoreProgram, OtherProgram, ReadFns, ModifyFns, StoreFns, AccumulatorFns,
     ImpliedFns, BranchFns

\* Row 9 of instruction_defs is the one of the opcode matrix.
LEMMA Row_9_Decoded == RowDecoded(144, Row_9)
<1>1. \A i \in 0 .. 15 : /\ InstructionSet!Aaa(144 + i) = 4
                        /\ InstructionSet!Bbb(144 + i) = 4 + i \div 4
                        /\ InstructionSet!Cc(144 + i) = i % 4
  BY DEF InstructionSet!Aaa, InstructionSet!Bbb, InstructionSet!Cc
<1> DEFINE modes ==
      <<"rel", "indY", "jam", "indY", "zpX", "zpX", "zpY", "zpY", "none",
        "absY", "none", "absY", "absX", "absX", "absY", "absY">>
    operations ==
      <<"bcc", "sta", "kil", "sha", "sty", "sta", "stx", "sax", "tya",
        "sta", "txs", "tas", "shy", "sta", "shx", "sha">>
<1>2. \A i \in 0 .. 15 : InstructionSet!Mode(144 + i) = modes[i + 1]
  BY <1>1
     DEF InstructionSet!Mode, InstructionSet!MemoryMode, InstructionSet!IndexesX
<1>3. \A i \in 0 .. 15 : InstructionSet!Operation(144 + i) = operations[i + 1]
  BY <1>1, <1>2 DEF InstructionSet!Operation, InstructionSet!Irregular,
     InstructionSet!Column01, InstructionSet!Column11,
     InstructionSet!Column10, InstructionSet!Column00, InstructionSet!Imm11,
     InstructionSet!Stack00, InstructionSet!Flags00, InstructionSet!None10,
     InstructionSet!Control, InstructionSet!Branches
<1> QED BY <1>2, <1>3
           DEF RowDecoded, Row_9, Decoded, ReadProgram, ModifyProgram,
     StoreProgram, OtherProgram, ReadFns, ModifyFns, StoreFns, AccumulatorFns,
     ImpliedFns, BranchFns

\* Row A of instruction_defs is the one of the opcode matrix.
LEMMA Row_A_Decoded == RowDecoded(160, Row_A)
<1>1. \A i \in 0 .. 15 : /\ InstructionSet!Aaa(160 + i) = 5
                        /\ InstructionSet!Bbb(160 + i) = 0 + i \div 4
                        /\ InstructionSet!Cc(160 + i) = i % 4
  BY DEF InstructionSet!Aaa, InstructionSet!Bbb, InstructionSet!Cc
<1> DEFINE modes ==
      <<"imm", "indX", "imm", "indX", "zp", "zp", "zp", "zp", "none", "imm",
        "none", "imm", "abs", "abs", "abs", "abs">>
    operations ==
      <<"ldy", "lda", "ldx", "lax", "ldy", "lda", "ldx", "lax", "tay",
        "lda", "tax", "lax_imm", "ldy", "lda", "ldx", "lax">>
<1>2. \A i \in 0 .. 15 : InstructionSet!Mode(160 + i) = modes[i + 1]
  BY <1>1
     DEF InstructionSet!Mode, InstructionSet!MemoryMode, InstructionSet!IndexesX
<1>3. \A i \in 0 .. 15 : InstructionSet!Operation(160 + i) = operations[i + 1]
  BY <1>1, <1>2 DEF InstructionSet!Operation, InstructionSet!Irregular,
     InstructionSet!Column01, InstructionSet!Column11,
     InstructionSet!Column10, InstructionSet!Column00, InstructionSet!Imm11,
     InstructionSet!Stack00, InstructionSet!Flags00, InstructionSet!None10,
     InstructionSet!Control, InstructionSet!Branches
<1> QED BY <1>2, <1>3
           DEF RowDecoded, Row_A, Decoded, ReadProgram, ModifyProgram,
     StoreProgram, OtherProgram, ReadFns, ModifyFns, StoreFns, AccumulatorFns,
     ImpliedFns, BranchFns

\* Row B of instruction_defs is the one of the opcode matrix.
LEMMA Row_B_Decoded == RowDecoded(176, Row_B)
<1>1. \A i \in 0 .. 15 : /\ InstructionSet!Aaa(176 + i) = 5
                        /\ InstructionSet!Bbb(176 + i) = 4 + i \div 4
                        /\ InstructionSet!Cc(176 + i) = i % 4
  BY DEF InstructionSet!Aaa, InstructionSet!Bbb, InstructionSet!Cc
<1> DEFINE modes ==
      <<"rel", "indY", "jam", "indY", "zpX", "zpX", "zpY", "zpY", "none",
        "absY", "none", "absY", "absX", "absX", "absY", "absY">>
    operations ==
      <<"bcs", "lda", "kil", "lax", "ldy", "lda", "ldx", "lax", "clv",
        "lda", "tsx", "las", "ldy", "lda", "ldx", "lax">>
<1>2. \A i \in 0 .. 15 : InstructionSet!Mode(176 + i) = modes[i + 1]
  BY <1>1
     DEF InstructionSet!Mode, InstructionSet!MemoryMode, InstructionSet!IndexesX
<1>3. \A i \in 0 .. 15 : InstructionSet!Operation(176 + i) = operations[i + 1]
  BY <1>1, <1>2 DEF InstructionSet!Operation, InstructionSet!Irregular,
     InstructionSet!Column01, InstructionSet!Column11,
     InstructionSet!Column10, InstructionSet!Column00, InstructionSet!Imm11,
     InstructionSet!Stack00, InstructionSet!Flags00, InstructionSet!None10,
     InstructionSet!Control, InstructionSet!Branches
<1> QED BY <1>2, <1>3
           DEF RowDecoded, Row_B, Decoded, ReadProgram, ModifyProgram,
     StoreProgram, OtherProgram, ReadFns, ModifyFns, StoreFns, AccumulatorFns,
     ImpliedFns, BranchFns

\* Row C of instruction_defs is the one of the opcode matrix.
LEMMA Row_C_Decoded == RowDecoded(192, Row_C)
<1>1. \A i \in 0 .. 15 : /\ InstructionSet!Aaa(192 + i) = 6
                        /\ InstructionSet!Bbb(192 + i) = 0 + i \div 4
                        /\ InstructionSet!Cc(192 + i) = i % 4
  BY DEF InstructionSet!Aaa, InstructionSet!Bbb, InstructionSet!Cc
<1> DEFINE modes ==
      <<"imm", "indX", "imm", "indX", "zp", "zp", "zp", "zp", "none", "imm",
        "none", "imm", "abs", "abs", "abs", "abs">>
    operations ==
      <<"cpy", "cmp", "nop", "dcp", "cpy", "cmp", "dec", "dcp", "iny",
        "cmp", "dex", "axs", "cpy", "cmp", "dec", "dcp">>
<1>2. \A i \in 0 .. 15 : InstructionSet!Mode(192 + i) = modes[i + 1]
  BY <1>1
     DEF InstructionSet!Mode, InstructionSet!MemoryMode, InstructionSet!IndexesX
<1>3. \A i \in 0 .. 15 : InstructionSet!Operation(192 + i) = operations[i + 1]
  BY <1>1, <1>2 DEF InstructionSet!Operation, InstructionSet!Irregular,
     InstructionSet!Column01, InstructionSet!Column11,
     InstructionSet!Column10, InstructionSet!Column00, InstructionSet!Imm11,
     InstructionSet!Stack00, InstructionSet!Flags00, InstructionSet!None10,
     InstructionSet!Control, InstructionSet!Branches
<1> QED BY <1>2, <1>3
           DEF RowDecoded, Row_C, Decoded, ReadProgram, ModifyProgram,
     StoreProgram, OtherProgram, ReadFns, ModifyFns, StoreFns, AccumulatorFns,
     ImpliedFns, BranchFns

\* Row D of instruction_defs is the one of the opcode matrix.
LEMMA Row_D_Decoded == RowDecoded(208, Row_D)
<1>1. \A i \in 0 .. 15 : /\ InstructionSet!Aaa(208 + i) = 6
                        /\ InstructionSet!Bbb(208 + i) = 4 + i \div 4
                        /\ InstructionSet!Cc(208 + i) = i % 4
  BY DEF InstructionSet!Aaa, InstructionSet!Bbb, InstructionSet!Cc
<1> DEFINE modes ==
      <<"rel", "indY", "jam", "indY", "zpX", "zpX", "zpX", "zpX", "none",
        "absY", "none", "absY", "absX", "absX", "absX", "absX">>
    operations ==
      <<"bne", "cmp", "kil", "dcp", "nop", "cmp", "dec", "dcp", "cld",
        "cmp", "nop", "dcp", "nop", "cmp", "dec", "dcp">>
<1>2. \A i \in 0 .. 15 : InstructionSet!Mode(208 + i) = modes[i + 1]
  BY <1>1
     DEF InstructionSet!Mode, InstructionSet!MemoryMode, InstructionSet!IndexesX
<1>3. \A i \in 0 .. 15 : InstructionSet!Operation(208 + i) = operations[i + 1]
  BY <1>1, <1>2 DEF InstructionSet!Operation, InstructionSet!Irregular,
     InstructionSet!Column01, InstructionSet!Column11,
     InstructionSet!Column10, InstructionSet!Column00, InstructionSet!Imm11,
     InstructionSet!Stack00, InstructionSet!Flags00, InstructionSet!None10,
     InstructionSet!Control, InstructionSet!Branches
<1> QED BY <1>2, <1>3
           DEF RowDecoded, Row_D, Decoded, ReadProgram, ModifyProgram,
     StoreProgram, OtherProgram, ReadFns, ModifyFns, StoreFns, AccumulatorFns,
     ImpliedFns, BranchFns

\* Row E of instruction_defs is the one of the opcode matrix.
LEMMA Row_E_Decoded == RowDecoded(224, Row_E)
<1>1. \A i \in 0 .. 15 : /\ InstructionSet!Aaa(224 + i) = 7
                        /\ InstructionSet!Bbb(224 + i) = 0 + i \div 4
                        /\ InstructionSet!Cc(224 + i) = i % 4
  BY DEF InstructionSet!Aaa, InstructionSet!Bbb, InstructionSet!Cc
<1> DEFINE modes ==
      <<"imm", "indX", "imm", "indX", "zp", "zp", "zp", "zp", "none", "imm",
        "none", "imm", "abs", "abs", "abs", "abs">>
    operations ==
      <<"cpx", "sbc", "nop", "isc", "cpx", "sbc", "inc", "isc", "inx",
        "sbc", "nop", "sbc", "cpx", "sbc", "inc", "isc">>
<1>2. \A i \in 0 .. 15 : InstructionSet!Mode(224 + i) = modes[i + 1]
  BY <1>1
     DEF InstructionSet!Mode, InstructionSet!MemoryMode, InstructionSet!IndexesX
<1>3. \A i \in 0 .. 15 : InstructionSet!Operation(224 + i) = operations[i + 1]
  BY <1>1, <1>2 DEF InstructionSet!Operation, InstructionSet!Irregular,
     InstructionSet!Column01, InstructionSet!Column11,
     InstructionSet!Column10, InstructionSet!Column00, InstructionSet!Imm11,
     InstructionSet!Stack00, InstructionSet!Flags00, InstructionSet!None10,
     InstructionSet!Control, InstructionSet!Branches
<1> QED BY <1>2, <1>3
           DEF RowDecoded, Row_E, Decoded, ReadProgram, ModifyProgram,
     StoreProgram, OtherProgram, ReadFns, ModifyFns, StoreFns, AccumulatorFns,
     ImpliedFns, BranchFns

\* Row F of instruction_defs is the one of the opcode matrix.
LEMMA Row_F_Decoded == RowDecoded(240, Row_F)
<1>1. \A i \in 0 .. 15 : /\ InstructionSet!Aaa(240 + i) = 7
                        /\ InstructionSet!Bbb(240 + i) = 4 + i \div 4
                        /\ InstructionSet!Cc(240 + i) = i % 4
  BY DEF InstructionSet!Aaa, InstructionSet!Bbb, InstructionSet!Cc
<1> DEFINE modes ==
      <<"rel", "indY", "jam", "indY", "zpX", "zpX", "zpX", "zpX", "none",
        "absY", "none", "absY", "absX", "absX", "absX", "absX">>
    operations ==
      <<"beq", "sbc", "kil", "isc", "nop", "sbc", "inc", "isc", "sed",
        "sbc", "nop", "isc", "nop", "sbc", "inc", "isc">>
<1>2. \A i \in 0 .. 15 : InstructionSet!Mode(240 + i) = modes[i + 1]
  BY <1>1
     DEF InstructionSet!Mode, InstructionSet!MemoryMode, InstructionSet!IndexesX
<1>3. \A i \in 0 .. 15 : InstructionSet!Operation(240 + i) = operations[i + 1]
  BY <1>1, <1>2 DEF InstructionSet!Operation, InstructionSet!Irregular,
     InstructionSet!Column01, InstructionSet!Column11,
     InstructionSet!Column10, InstructionSet!Column00, InstructionSet!Imm11,
     InstructionSet!Stack00, InstructionSet!Flags00, InstructionSet!None10,
     InstructionSet!Control, InstructionSet!Branches
<1> QED BY <1>2, <1>3
           DEF RowDecoded, Row_F, Decoded, ReadProgram, ModifyProgram,
     StoreProgram, OtherProgram, ReadFns, ModifyFns, StoreFns, AccumulatorFns,
     ImpliedFns, BranchFns

\* The operation and the mode of an opcode, and its micro-program.
Programmed(opcode) ==
  Decoded(InstructionSet!Mode(opcode), InstructionSet!Operation(opcode),
          micro_ops(opcode))

\* Every entry of instruction_defs is the micro-program that the bits of its
\* opcode ask for: that of its addressing mode, with its operation.
THEOREM ProgramsDecoded == \A opcode \in Opcode : Programmed(opcode)
<1> SUFFICES ASSUME NEW opcode \in Opcode PROVE Programmed(opcode)
  OBVIOUS
<1> DEFINE row == opcode \div 16
           i   == opcode % 16
<1>1. row \in 0 .. 15 /\ i \in 0 .. 15 /\ opcode = 16 * row + i
  BY DEF Opcode
<1>2. micro_ops(opcode) = instruction_defs[1 + row][1 + i]
  BY DEF micro_ops, Opcode, reset_sequence, nmi_sequence
<1> HIDE DEF row, i
<1>3. ASSUME NEW program, RowDecoded(16 * row, program),
             instruction_defs[1 + row] = program
      PROVE  Programmed(opcode)
  <2>1. micro_ops(opcode) = program[i + 1]
    BY <1>1, <1>2, <1>3
  <2> QED BY <1>1, <1>3, <2>1 DEF RowDecoded, Programmed
<1>4. CASE row = 0
  <2>1. 16 * row = 0 /\ instruction_defs[1 + row] = Row_0
    BY <1>4 DEF instruction_defs
  <2> QED BY <1>3, <2>1, Row_0_Decoded
<1>5. CASE row = 1
  <2>1. 16 * row = 16 /\ instruction_defs[1 + row] = Row_1
    BY <1>5 DEF instruction_defs
  <2> QED BY <1>3, <2>1, Row_1_Decoded
<1>6. CASE row = 2
  <2>1. 16 * row = 32 /\ instruction_defs[1 + row] = Row_2
    BY <1>6 DEF instruction_defs
  <2> QED BY <1>3, <2>1, Row_2_Decoded
<1>7. CASE row = 3
  <2>1. 16 * row = 48 /\ instruction_defs[1 + row] = Row_3
    BY <1>7 DEF instruction_defs
  <2> QED BY <1>3, <2>1, Row_3_Decoded
<1>8. CASE row = 4
  <2>1. 16 * row = 64 /\ instruction_defs[1 + row] = Row_4
    BY <1>8 DEF instruction_defs
  <2> QED BY <1>3, <2>1, Row_4_Decoded
<1>9. CASE row = 5
  <2>1. 16 * row = 80 /\ instruction_defs[1 + row] = Row_5
    BY <1>9 DEF instruction_defs
  <2> QED BY <1>3, <2>1, Row_5_Decoded
<1>10. CASE row = 6
  <2>1. 16 * row = 96 /\ instruction_defs[1 + row] = Row_6
    BY <1>10 DEF instruction_defs
  <2> QED BY <1>3, <2>1, Row_6_Decoded
<1>11. CASE row = 7
  <2>1. 16 * row = 112 /\ instruction_defs[1 + row] = Row_7
    BY <1>11 DEF instruction_defs
  <2> QED BY <1>3, <2>1, Row_7_Decoded
<1>12. CASE row = 8
  <2>1. 16 * row = 128 /\ instruction_defs[1 + row] = Row_8
    BY <1>12 DEF instruction_defs
  <2> QED BY <1>3, <2>1, Row_8_Decoded
<1>13. CASE row = 9
  <2>1. 16 * row = 144 /\ instruction_defs[1 + row] = Row_9
    BY <1>13 DEF instruction_defs
  <2> QED BY <1>3, <2>1, Row_9_Decoded
<1>14. CASE row = 10
  <2>1. 16 * row = 160 /\ instruction_defs[1 + row] = Row_A
    BY <1>14 DEF instruction_defs
  <2> QED BY <1>3, <2>1, Row_A_Decoded
<1>15. CASE row = 11
  <2>1. 16 * row = 176 /\ instruction_defs[1 + row] = Row_B
    BY <1>15 DEF instruction_defs
  <2> QED BY <1>3, <2>1, Row_B_Decoded
<1>16. CASE row = 12
  <2>1. 16 * row = 192 /\ instruction_defs[1 + row] = Row_C
    BY <1>16 DEF instruction_defs
  <2> QED BY <1>3, <2>1, Row_C_Decoded
<1>17. CASE row = 13
  <2>1. 16 * row = 208 /\ instruction_defs[1 + row] = Row_D
    BY <1>17 DEF instruction_defs
  <2> QED BY <1>3, <2>1, Row_D_Decoded
<1>18. CASE row = 14
  <2>1. 16 * row = 224 /\ instruction_defs[1 + row] = Row_E
    BY <1>18 DEF instruction_defs
  <2> QED BY <1>3, <2>1, Row_E_Decoded
<1>19. CASE row = 15
  <2>1. 16 * row = 240 /\ instruction_defs[1 + row] = Row_F
    BY <1>19 DEF instruction_defs
  <2> QED BY <1>3, <2>1, Row_F_Decoded
<1> QED BY <1>1, <1>4, <1>5, <1>6, <1>7, <1>8, <1>9, <1>10, <1>11, <1>12, <1>13,
           <1>14, <1>15, <1>16, <1>17, <1>18, <1>19

-----------------------------------------------------------------------------
(* The two parts of the program of an instruction with an operand in memory *)

\* The part that computes the address.
AddressProgram(mode) ==
  CASE mode = "zp"   -> <<"read_pc_addr_low">>
    [] mode = "zpX"  -> <<"read_pc_addr_low", "read_pc_addr_low_add_x">>
    [] mode = "zpY"  -> <<"read_pc_addr_low", "read_pc_addr_low_add_y">>
    [] mode = "abs"  -> <<"read_pc_addr_low", "read_pc_addr_high">>
    [] mode = "absX" -> <<"read_pc_addr_low", "read_pc_addr_high_add_x">>
    [] mode = "absY" -> <<"read_pc_addr_low", "read_pc_addr_high_add_y">>
    [] mode = "indX" -> <<"fetch_ptr", "read_ptr_add_x", "read_ptr_addr_low",
                          "read_ptr_addr_high">>
    [] mode = "indY" -> <<"fetch_ptr", "read_ptr_addr_low",
                          "read_ptr_addr_high_add_y">>

AddressTicks(mode) ==
  CASE mode = "zp"   -> 1
    [] mode = "indX" -> 4
    [] mode = "indY" -> 3
    [] mode \in {"zpX", "zpY", "abs", "absX", "absY"} -> 2

\* The part that uses it; the first micro-operation may be the last.
OperandKinds ==
  {"addr", "indexed_read_maybe_finish", "indexed_reread_fixed",
   "dummy_temp_addr_read", "read_addr_data", "dummy_write_and_compute",
   "write_data_and_finish", "store", "tas_indexed_read_maybe_finish",
   "tas_indexed_rewrite_fixed"}

MaybeKinds == {"indexed_read_maybe_finish", "tas_indexed_read_maybe_finish"}

MaybeFns == ReadFns \cup {"tas"}

OperandTicks(mode, f) ==
  (IF f \in ModifyFns THEN 3 ELSE 1)
    + (IF mode \in InstructionSet!IndexedModes THEN 1 ELSE 0)

\* A program of that form.
OnMemory(mode, f, program) ==
  LET ticks == AddressTicks(mode)
  IN  /\ f \in MaybeFns \cup StoreFns \cup ModifyFns
      /\ Len(program) = ticks + OperandTicks(mode, f)
      /\ \A i \in 1 .. ticks : program[i].kind = AddressProgram(mode)[i]
      /\ \A i \in ticks + 1 .. Len(program) : program[i].kind \in OperandKinds
      /\ \A i \in ticks + 1 .. Len(program) :
           program[i].kind \in MaybeKinds <=>
             /\ i = ticks + 1
             /\ mode \in InstructionSet!IndexedModes /\ f \in MaybeFns
      /\ \A i \in ticks + 1 .. Len(program) :
           program[i].kind \in FinishingKinds => i = Len(program)

\* Every program of an addressing mode that computes an address has it.
LEMMA MemoryProgram ==
  ASSUME NEW mode \in InstructionSet!MemoryModes, NEW f, NEW program,
         Decoded(mode, f, program)
  PROVE  OnMemory(mode, f, program)
<1> USE DEF OnMemory, AddressTicks, OperandTicks, AddressProgram, MaybeFns,
            MaybeKinds, OperandKinds, InstructionSet!IndexedModes,
            FinishingKinds,
            Do, Instruction, ReadFns, StoreFns, ModifyFns
<1>1. CASE ReadProgram(mode, f, program)
  <2> SUFFICES ASSUME f \in ReadFns, mode # "imm"
               PROVE OnMemory(mode, f, program)
    BY <1>1
       DEF ReadProgram, InstructionSet!MemoryModes, InstructionSet!ZeroPageModes
  <2>1. CASE mode = "zp" /\ program = ReadZp(f)
    BY <2>1 DEF ReadZp, Operand
  <2>2. CASE mode = "zpX" /\ program = ReadZpX(f)
    BY <2>2 DEF ReadZpX, Operand
  <2>3. CASE mode = "zpY" /\ program = ReadZpY(f)
    BY <2>3 DEF ReadZpY, Operand
  <2>4. CASE mode = "abs" /\ program = ReadAbs(f)
    BY <2>4 DEF ReadAbs, Operand
  <2>5. CASE mode = "absX" /\ program = ReadAbsX(f)
    BY <2>5 DEF ReadAbsX, OperandOrRetry, OperandRetried
  <2>6. CASE mode = "absX" /\ program = NopAbsX
    BY <2>6 DEF NopAbsX, OperandOrRetry, Operand
  <2>7. CASE mode = "absY" /\ program = ReadAbsY(f)
    BY <2>7 DEF ReadAbsY, OperandOrRetry, OperandRetried
  <2>8. CASE mode = "indX" /\ program = ReadIndX(f)
    BY <2>8 DEF ReadIndX, Operand
  <2>9. CASE mode = "indY" /\ program = ReadIndY(f)
    BY <2>9 DEF ReadIndY, OperandOrRetry, OperandRetried
  <2> QED BY <1>1, <2>1, <2>2, <2>3, <2>4, <2>5, <2>6, <2>7, <2>8, <2>9
          DEF ReadProgram
<1>2. CASE StoreProgram(mode, f, program)
  <2>1. f \in StoreFns \cup {"tas"}
    BY <1>2 DEF StoreProgram
  <2>2. CASE mode = "zp" /\ program = StoreZp(f)
    BY <2>1, <2>2 DEF StoreZp, Store
  <2>3. CASE mode = "zpX" /\ program = StoreZpX(f)
    BY <2>1, <2>3 DEF StoreZpX, Store
  <2>4. CASE mode = "zpY" /\ program = StoreZpY(f)
    BY <2>1, <2>4 DEF StoreZpY, Store
  <2>5. CASE mode = "abs" /\ program = StoreAbs(f)
    BY <2>1, <2>5 DEF StoreAbs, Store
  <2>6. CASE f \in StoreFns /\ mode = "absX" /\ program = StoreAbsX(f)
    BY <2>6 DEF StoreAbsX, Store
  <2>7. CASE f \in StoreFns /\ mode = "absY" /\ program = StoreAbsY(f)
    BY <2>7 DEF StoreAbsY, Store
  <2>8. CASE mode = "indX" /\ program = StoreIndX(f)
    BY <2>1, <2>8 DEF StoreIndX, Store
  <2>9. CASE f \in StoreFns /\ mode = "indY" /\ program = StoreIndY(f)
    BY <2>9 DEF StoreIndY, Store
  <2>10. CASE f = "tas" /\ mode = "absY" /\ program = TAS
    BY <2>10 DEF TAS
  <2> QED BY <1>2, <2>2, <2>3, <2>4, <2>5, <2>6, <2>7, <2>8, <2>9, <2>10
          DEF StoreProgram
<1>3. CASE ModifyProgram(mode, f, program)
  <2>1. f \in ModifyFns
    BY <1>3 DEF ModifyProgram
  <2> USE <2>1 DEF Compute
  <2>2. CASE mode = "zp" /\ program = ModifyZp(f)
    BY <2>2 DEF ModifyZp
  <2>3. CASE mode = "zpX" /\ program = ModifyZpX(f)
    BY <2>3 DEF ModifyZpX
  <2>4. CASE mode = "abs" /\ program = ModifyAbs(f)
    BY <2>4 DEF ModifyAbs
  <2>5. CASE mode = "absX" /\ program = ModifyAbsX(f)
    BY <2>5 DEF ModifyAbsX
  <2>6. CASE mode = "absY" /\ program = ModifyAbsY(f)
    BY <2>6 DEF ModifyAbsY
  <2>7. CASE mode = "indX" /\ program = ModifyIndX(f)
    BY <2>7 DEF ModifyIndX
  <2>8. CASE mode = "indY" /\ program = ModifyIndY(f)
    BY <2>8 DEF ModifyIndY
  <2> QED BY <1>3, <2>2, <2>3, <2>4, <2>5, <2>6, <2>7, <2>8 DEF ModifyProgram
<1>4. CASE OtherProgram(mode, f, program)
  BY <1>4
     DEF OtherProgram, InstructionSet!MemoryModes, InstructionSet!ZeroPageModes
<1> QED BY <1>1, <1>2, <1>3, <1>4 DEF Decoded

-----------------------------------------------------------------------------
(* The action of a micro-operation *)

\* An action is the one of its function.
LEMMA AddressActions ==
  /\ dummy_temp_addr_read => Executes("dummy_temp_addr_read")
  /\ read_pc_addr_low => Executes("read_pc_addr_low")
  /\ read_pc_addr_low_add_x => Executes("read_pc_addr_low_add_x")
  /\ read_pc_addr_low_add_y => Executes("read_pc_addr_low_add_y")
  /\ read_pc_addr_high => Executes("read_pc_addr_high")
  /\ read_pc_addr_high_add_x => Executes("read_pc_addr_high_add_x")
  /\ read_pc_addr_high_add_y => Executes("read_pc_addr_high_add_y")
  /\ fetch_ptr => Executes("fetch_ptr")
  /\ read_ptr_add_x => Executes("read_ptr_add_x")
  /\ read_ptr_addr_low => Executes("read_ptr_addr_low")
  /\ read_ptr_addr_high => Executes("read_ptr_addr_high")
  /\ read_ptr_addr_high_add_y => Executes("read_ptr_addr_high_add_y")
  /\ fetch_pointer_addr_low => Executes("fetch_pointer_addr_low")
  /\ dummy => Executes("dummy") 
  /\ dummy_pc_read => Executes("dummy_pc_read") 
  /\ dummy_pc_read_and_inc => Executes("dummy_pc_read_and_inc")
  /\ dummy_stack_read => Executes("dummy_stack_read")
BY
   DEF dummy, dummy_pc_read, dummy_pc_read_and_inc, dummy_stack_read,
       dummy_temp_addr_read,
     read_pc_addr_low, read_pc_addr_low_add_x, read_pc_addr_low_add_y,
     read_pc_addr_high, read_pc_addr_high_add_x, read_pc_addr_high_add_y,
     fetch_ptr, read_ptr_add_x, read_ptr_addr_low, read_ptr_addr_high,
     read_ptr_addr_high_add_y, fetch_pointer_addr_low

\* So is an action that uses the operand.
LEMMA InstructionActions ==
  /\ f_imm => Executes("imm")
  /\ f_addr => Executes("addr")
  /\ f_indexed_read_maybe_finish => Executes("indexed_read_maybe_finish")
  /\ f_indexed_reread_fixed => Executes("indexed_reread_fixed")
  /\ read_addr_data => Executes("read_addr_data")
  /\ f_dummy_write_and_compute => Executes("dummy_write_and_compute")
  /\ write_data_and_finish => Executes("write_data_and_finish")
  /\ f_store => Executes("store")
  /\ tas_indexed_read_maybe_finish => Executes("tas_indexed_read_maybe_finish")
  /\ tas_indexed_rewrite_fixed => Executes("tas_indexed_rewrite_fixed")
  /\ f_acc => Executes("acc")
  /\ f_imp => Executes("imp")
  /\ jmp_abs_finish => Executes("jmp_abs_finish")
  /\ jsr_abs => Executes("jsr_abs")
  /\ jmp_ind => Executes("jmp_ind")
  /\ rts_finish => Executes("rts_finish")
  /\ f_fetch_offset => Executes("fetch_offset")
  /\ branch_op => Executes("branch_op")
  /\ branch_page_fix => Executes("branch_page_fix")
BY DEF f_imm, f_addr, f_indexed_read_maybe_finish, f_indexed_reread_fixed,
  read_addr_data, f_dummy_write_and_compute, write_data_and_finish, f_store,
  tas_indexed_read_maybe_finish, tas_indexed_rewrite_fixed, f_acc, f_imp,
  jmp_abs_finish, jsr_abs, JumpAbsolute, jmp_ind, rts_finish, f_fetch_offset,
  branch_op, branch_page_fix

\* And the function of a tick has but that one.
LEMMA AddressActionOf ==
  ASSUME MicroStep, NEW kind \in AddressKinds, Executes(kind)
  PROVE  /\ kind = "dummy_temp_addr_read" => dummy_temp_addr_read
         /\ kind = "read_pc_addr_low" => read_pc_addr_low
         /\ kind = "read_pc_addr_low_add_x" => read_pc_addr_low_add_x
         /\ kind = "read_pc_addr_low_add_y" => read_pc_addr_low_add_y
         /\ kind = "read_pc_addr_high" => read_pc_addr_high
         /\ kind = "read_pc_addr_high_add_x" => read_pc_addr_high_add_x
         /\ kind = "read_pc_addr_high_add_y" => read_pc_addr_high_add_y
         /\ kind = "fetch_ptr" => fetch_ptr
         /\ kind = "read_ptr_add_x" => read_ptr_add_x
         /\ kind = "read_ptr_addr_low" => read_ptr_addr_low
         /\ kind = "read_ptr_addr_high" => read_ptr_addr_high
         /\ kind = "read_ptr_addr_high_add_y" => read_ptr_addr_high_add_y
<1>1. ASSUME NEW k, Executes(k)
      PROVE  k = kind
  BY <1>1, OneKind
<1>2. ~StackStep /\ ~InstructionStep
  BY <1>1, StepKinds DEF AddressKinds, StackKinds, InstructionKinds
<1> QED BY <1>1, <1>2, AddressActions DEF MicroStep, AddressStep

\* The same for the functions that use the operand.
LEMMA InstructionActionOf ==
  ASSUME MicroStep, NEW kind \in InstructionKinds, Executes(kind)
  PROVE  /\ kind = "addr" => f_addr
         /\ kind = "indexed_read_maybe_finish" => f_indexed_read_maybe_finish
         /\ kind = "indexed_reread_fixed" => f_indexed_reread_fixed
         /\ kind = "read_addr_data" => read_addr_data
         /\ kind = "dummy_write_and_compute" => f_dummy_write_and_compute
         /\ kind = "write_data_and_finish" => write_data_and_finish
         /\ kind = "store" => f_store
         /\ kind = "tas_indexed_read_maybe_finish" => tas_indexed_read_maybe_finish
         /\ kind = "tas_indexed_rewrite_fixed" => tas_indexed_rewrite_fixed
         /\ kind = "fetch_offset" => f_fetch_offset
         /\ kind = "branch_op" => branch_op
         /\ kind = "branch_page_fix" => branch_page_fix
<1>1. ASSUME NEW k, Executes(k)
      PROVE  k = kind
  BY <1>1, OneKind
<1>2. ~StackStep /\ ~AddressStep
  BY <1>1, StepKinds DEF AddressKinds, StackKinds, InstructionKinds
<1> QED BY <1>1, <1>2, InstructionActions DEF MicroStep, InstructionStep

-----------------------------------------------------------------------------
(* Memory as it was when the instruction began *)

BoundaryTyped == boundary \in [cpu : RegisterFile, mem : [Ram -> Byte]]

\* The two modules do the same with words.
LEMMA SameWords ==
  /\ \A n : InstructionSet!U8(n) = U8(n) /\ InstructionSet!U16(n) = U16(n)
  /\ \A b : InstructionSet!S8(b) = S8(b)
  /\ \A lo, hi : InstructionSet!Address(lo, hi) = Address(lo, hi)
  /\ \A v, w : InstructionSet!SamePage(v, w) = SamePage(v, w)
BY DEF InstructionSet!U8, U8, InstructionSet!U16, U16, InstructionSet!S8, S8,
       InstructionSet!Address, Address, InstructionSet!SamePage, SamePage,
       InstructionSet!HiByte, HiByte

\* The memory of the instruction set holds bytes.
LEMMA MemoryTyped ==
  ASSUME BoundaryTyped, NEW a \in Word
  PROVE  InstructionSet!M(a) \in Byte
BY RomAssumption DEF BoundaryTyped, InstructionSet!M, InstructionSet!Peek

\* As long as nothing was written, a read returns what the memory of the
\* instruction set holds.
LEMMA ReadsBoundary ==
  ASSUME mem = boundary.mem, NEW a \in Word, NEW value \in BusData(a)
  PROVE  value = InstructionSet!M(a)
BY RomAssumption DEF BusData, InstructionSet!M, InstructionSet!Peek

\* Modular sums: PC, and the pointer in the zero page.
LEMMA Sums ==
  /\ \A p \in Int, k \in Int : U16(U16(p + 1 + k) + 1) = U16(p + 1 + (k + 1))
  /\ \A p \in Int : U8(U8(p) + 1) = U8(p + 1)
  /\ \A b \in Byte : U8(b) = b
  /\ \A w \in Word : U16(w) = w
<1>1. \A p \in Int, k \in Int : U16(U16(p + 1 + k) + 1) = U16(p + 1 + (k + 1))
  BY DEF U16
<1>2. \A p \in Int : U8(U8(p) + 1) = U8(p + 1)
  BY DEF U8
<1>3. \A b \in Byte : U8(b) = b
  BY Bounds DEF U8
<1>4. \A w \in Word : U16(w) = w
  BY Bounds DEF U16
<1> QED BY <1>1, <1>2, <1>3, <1>4

-----------------------------------------------------------------------------
(* The address of an operand in memory *)

Start == boundary.cpu

\* The word after the opcode, or the pointer, that an index is added to.
Operand1 == InstructionSet!Byte1
Base(mode) == InstructionSet!BaseAddress(mode)

\* The operand bytes and the pointers are bytes.
LEMMA OperandsTyped ==
  ASSUME BoundaryTyped
  PROVE  /\ Start \in RegisterFile /\ Start.PC \in Int
         /\ Start.X \in Int /\ Start.Y \in Int
         /\ Operand1 \in Byte /\ Operand1 \in Int
         /\ Operand1 = InstructionSet!M(U16(Start.PC + 1))
<1>1. Start \in RegisterFile
  BY DEF BoundaryTyped, Start
<1>2. Start.PC \in Int /\ Start.X \in Int /\ Start.Y \in Int
  BY <1>1, RegistersTyped, WordsAreInt
<1>3. Operand1 = InstructionSet!M(U16(Start.PC + 1))
  BY SameWords DEF Operand1, InstructionSet!Byte1, Start
<1>4. U16(Start.PC + 1) \in Word
  BY <1>2, SumTyped
<1> QED BY <1>1, <1>2, <1>3, <1>4, MemoryTyped, WordsAreInt

\* The effective addresses.
LEMMA Effectives ==
  /\ InstructionSet!Effective("zp") = Operand1
  /\ InstructionSet!Effective("zpX") = U8(Operand1 + Start.X)
  /\ InstructionSet!Effective("zpY") = U8(Operand1 + Start.Y)
  /\ InstructionSet!Effective("abs") = Base("abs")
  /\ InstructionSet!Effective("absX") = U16(Base("absX") + Start.X)
  /\ InstructionSet!Effective("absY") = U16(Base("absY") + Start.Y)
  /\ InstructionSet!Effective("indX") =
       Address(InstructionSet!M(U8(Operand1 + Start.X)),
               InstructionSet!M(U8(Operand1 + Start.X + 1)))
  /\ InstructionSet!Effective("indY") = U16(Base("indY") + Start.Y)
  /\ \A mode \in {"abs", "absX", "absY"} :
       Base(mode) = Address(Operand1, InstructionSet!M(U16(Start.PC + 2)))
  /\ Base("indY") = Address(InstructionSet!M(U8(Operand1)),
                            InstructionSet!M(U8(Operand1 + 1)))
BY SameWords DEF InstructionSet!Effective, Operand1, Base, Start,
   InstructionSet!BaseAddress, InstructionSet!Word1, InstructionSet!Pointer

\* The carry of an index into the high byte.
LEMMA Carries ==
  ASSUME NEW mode \in InstructionSet!MemoryModes
  PROVE  InstructionSet!Crosses(mode) <=>
           /\ mode \in InstructionSet!IndexedModes
           /\ ~SamePage(Base(mode), InstructionSet!Effective(mode))
BY SameWords DEF InstructionSet!Crosses, Base

-----------------------------------------------------------------------------
(* The micro-operations that compute it *)

Pointed == {"indX", "indY"}

\* The bytes of the operand that n ticks have fetched.
Fetched(mode, n) ==
  IF mode \in {"abs", "absX", "absY"} \/ n = 0 THEN n ELSE 1

\* What the first n ticks leave in o, the last of them with the address.
Partial(mode, n, o) ==
  /\ ~o.page_crossed
  /\ mode \in InstructionSet!ZeroPageModes => o.addr_hi = 0
  /\ n = 1 =>
       IF mode \in Pointed THEN o.ptr = Operand1 ELSE o.addr_lo = Operand1
  /\ n > 1 => o.ptr = IF mode = "indX" THEN U8(Operand1 + Start.X) ELSE Operand1
  /\ n = AddressTicks(mode) - 1 /\ mode \in Pointed =>
       o.addr_lo = InstructionSet!M(o.ptr)

Complete(mode, o) ==
  /\ full_addr(o) = InstructionSet!Effective(mode)
  /\ o.page_crossed = InstructionSet!Crosses(mode)

Computed(mode, n, o) ==
  IF n < AddressTicks(mode) THEN Partial(mode, n, o) ELSE Complete(mode, o)

\* The registers and memory meanwhile.
Untouched(mode, n) ==
  /\ mem = boundary.mem
  /\ cpu = [Start EXCEPT !.PC = U16(Start.PC + 1 + Fetched(mode, n))]

\* An OpState with the address, its two halves in agreement.
LEMMA AddressSet ==
  ASSUME NEW o \in OpState, NEW w \in Word, NEW index \in Int
  PROVE  /\ SetAddress(o, w).page_crossed = o.page_crossed
         /\ full_addr(SetAddress(o, w)) = w
         /\ full_addr(Index(o, w, index)) = U16(w + index)
         /\ Index(o, w, index).page_crossed = ~SamePage(w, U16(w + index))
<1>1. ASSUME NEW a \in Int
      PROVE  full_addr(SetAddress(o, a)) = a
  <2>1. /\ SetAddress(o, a).addr_lo = LoByte(a)
        /\ SetAddress(o, a).addr_hi = HiByte(a)
    BY DEF SetAddress, OpState
  <2> QED BY <2>1, HalvesAddUp DEF full_addr
<1>2. SetAddress(o, w).page_crossed = o.page_crossed
  BY DEF SetAddress, OpState
<1> DEFINE a == U16(w + index)
<1>3. w \in Int /\ a \in Int
  BY WordsAreInt DEF U16
<1>4. Index(o, w, index) =
        [SetAddress(o, a) EXCEPT !.page_crossed = ~SamePage(w, a)]
  BY DEF Index
<1> HIDE DEF a
<1>5. /\ full_addr(Index(o, w, index)) = full_addr(SetAddress(o, a))
      /\ Index(o, w, index).page_crossed = ~SamePage(w, a)
  BY <1>4 DEF full_addr, SetAddress, OpState
<1> QED BY <1>1, <1>2, <1>3, <1>5 DEF a

\* The address of the first read is in a field of its own.
LEMMA TempApart ==
  ASSUME NEW o \in OpState, NEW w
  PROVE  /\ full_addr([o EXCEPT !.temp_addr = w]) = full_addr(o)
         /\ [o EXCEPT !.temp_addr = w].page_crossed = o.page_crossed
         /\ full_addr(TempFromSum(o, w)) = full_addr(o)
         /\ TempFromSum(o, w).page_crossed = o.page_crossed
BY DEF OpState, full_addr, TempFromSum

\* A micro-operation finds op with its cycle counted.
Counted(n) == [op EXCEPT !.cycle = n + 1]

\* A tick of an instruction is at one of the micro-operations of its program,
\* and finds the next cycle already counted.
LEMMA NowCounted ==
  ASSUME IInv, ~jammed, op.def \in Opcode, ~reset_requested
  PROVE  /\ Selected = op /\ Now = Counted(op.cycle) /\ op \in OpState
         /\ Now \in OpState
         /\ op.cycle \in 0 .. 6 /\ op.cycle + 1 \in 1 .. Len(micro_ops(op.def))
         /\ Executes(micro_ops(op.def)[op.cycle + 1].kind)
<1>1. op.def # NULL
  BY DEF Opcode, NULL
<1>2. /\ op.cycle \in 0 .. 6 /\ op.cycle < Len(micro_ops(op.def))
      /\ Len(micro_ops(op.def)) \in 1 .. 7
  BY <1>1, PlaceTyped
<1>3. Selected = op
  BY <1>1 DEF Selected, NmiTaken
<1>4. U8(op.cycle + 1) = op.cycle + 1
  BY <1>2 DEF U8
<1>5. Now = Counted(op.cycle)
  BY <1>3, <1>4 DEF Now, Counted
<1>6. op.cycle + 1 \in 1 .. Len(micro_ops(op.def))
  <2> DEFINE length == Len(micro_ops(op.def))
             cycle == op.cycle
  <2> HIDE DEF length, cycle
  <2>1. cycle \in 0 .. 6 /\ cycle < length /\ length \in 1 .. 7
    BY <1>2 DEF length, cycle
  <2>2. cycle + 1 \in 1 .. length
    BY <2>1
  <2> QED BY <2>2 DEF length, cycle
<1> QED BY <1>1, <1>2, <1>3, <1>5, <1>6, NowTyped DEF Executes, IInv, TypeOK

\* An access of the tick.
ReadOnly == \A i \in DOMAIN bus' : bus'[i].access = "read"
\* A read writes nothing.
LEMMA ReadsReadOnly ==
  ASSUME NEW a, NEW v, Reads(a, v)
  PROVE ReadOnly /\ mem' = mem
BY DEF Reads, CallsBack, Rd, ReadOnly

\* The bytes at PC are those of the instruction.
LEMMA FetchedByte ==
  ASSUME IInv, BoundaryTyped, NEW mode, NEW n \in {0, 1}, Untouched(mode, n),
         n = 1 => mode \in {"abs", "absX", "absY"}
  PROVE  /\ cpu.PC = U16(Start.PC + (n + 1)) /\ cpu.PC \in Word
         /\ \A v \in BusData(cpu.PC) :
              v = InstructionSet!M(U16(Start.PC + (n + 1))) /\ v \in Byte
         /\ mode \in {"abs", "absX", "absY"} \/ n = 0 =>
              Advance(cpu) =
                [Start EXCEPT !.PC = U16(Start.PC + 1 + Fetched(mode, n + 1))]
         /\ cpu.X = Start.X /\ cpu.Y = Start.Y
<1>1. Start \in RegisterFile /\ Start.PC \in Int
  BY OperandsTyped
<1>2. Fetched(mode, n) = n /\ Fetched(mode, n + 1) = n + 1
  BY DEF Fetched
<1>3. cpu = [Start EXCEPT !.PC = U16(Start.PC + 1 + n)]
  BY <1>2 DEF Untouched
<1>4. cpu.PC = U16(Start.PC + 1 + n) /\ cpu.X = Start.X /\ cpu.Y = Start.Y
  BY <1>1, <1>3 DEF RegisterFile
<1>5. Start.PC + 1 + n = Start.PC + (n + 1)
  BY <1>1
<1>6. Advance(cpu) = [Start EXCEPT !.PC = U16(U16(Start.PC + 1 + n) + 1)]
  BY <1>1, <1>3, <1>4 DEF Advance, RegisterFile
<1>7. U16(U16(Start.PC + 1 + n) + 1) = U16(Start.PC + 1 + (n + 1))
  BY <1>1, Sums
<1>8. cpu.PC \in Word
  BY WordsTyped
<1> QED BY <1>2, <1>4, <1>5, <1>6, <1>7, <1>8, ReadsBoundary, BusDataTyped
           DEF Untouched, IInv

\* An address tick: what it needs and what it leaves.
AddressTickOf(mode) ==
  /\ mode \in InstructionSet!MemoryModes
  /\ op.cycle < AddressTicks(mode)
  /\ Executes(AddressProgram(mode)[op.cycle + 1])
  /\ Untouched(mode, op.cycle)
  /\ Partial(mode, op.cycle, op)

AddressTickLeaves(mode) ==
  /\ Computed(mode, op.cycle + 1, op')
  /\ mem' = mem
  /\ cpu' =
       [Start EXCEPT !.PC = U16(Start.PC + 1 + Fetched(mode, op.cycle + 1))]
  /\ ReadOnly

\* Modes that start with the operand.
DirectModes == {"zp", "zpX", "zpY", "abs", "absX", "absY"}

\* The tick after the fetch reads the low byte of the address.
LEMMA LowByteTick ==
  ASSUME IInv, BoundaryTyped, ~jammed, op.def \in Opcode, ~reset_requested,
         MicroStep,
         NEW mode \in DirectModes, AddressTickOf(mode), op.cycle = 0
  PROVE  AddressTickLeaves(mode)
<1>1. read_pc_addr_low
  <2>1. AddressProgram(mode)[1] = "read_pc_addr_low"
    BY DEF DirectModes, AddressProgram
  <2> QED BY <2>1, AddressActionOf DEF AddressTickOf, AddressKinds
<1>2. PICK v \in BusData(cpu.PC) :
        /\ Reads(cpu.PC, v) /\ op' = [Now EXCEPT !.addr_lo = v, !.addr = v]
        /\ cpu' = Advance(cpu)
  BY <1>1 DEF read_pc_addr_low
<1>3. /\ v = Operand1 /\ v \in Int
      /\ cpu' = [Start EXCEPT !.PC = U16(Start.PC + 1 + Fetched(mode, 1))]
  BY <1>2, FetchedByte, OperandsTyped DEF AddressTickOf
<1>4. mem' = mem /\ ReadOnly
  BY <1>2, ReadsReadOnly
<1>5. /\ op'.addr_lo = Operand1 /\ op'.addr_hi = op.addr_hi
      /\ op'.page_crossed = op.page_crossed
  BY <1>2, <1>3, NowCounted DEF Counted, OpState
<1>6. /\ ~op.page_crossed
      /\ mode \in InstructionSet!ZeroPageModes => op.addr_hi = 0
  BY DEF AddressTickOf, Partial
<1>7. Computed(mode, 1, op')
  <2>1. CASE mode = "zp"
    <3>1. full_addr(op') = Operand1
      BY <1>3, <1>5, <1>6, <2>1
         DEF full_addr, Address, InstructionSet!ZeroPageModes
    <3>2. InstructionSet!Crosses(mode) = FALSE
      BY <2>1 DEF InstructionSet!Crosses, InstructionSet!IndexedModes
    <3>3. op'.page_crossed = FALSE
      BY <1>5, <1>6 DEF TypeOK, IInv, OpState
    <3>4. full_addr(op') = InstructionSet!Effective(mode)
      BY <2>1, <3>1, Effectives
    <3>5. op'.page_crossed = InstructionSet!Crosses(mode)
      BY <3>2, <3>3
    <3>6. Complete(mode, op')
      BY <3>4, <3>5 DEF Complete
    <3> QED BY <2>1, <3>6 DEF Computed, AddressTicks
  <2>2. CASE mode # "zp"
    <3>1. Partial(mode, 1, op')
      BY <1>5, <1>6, <2>2 DEF Partial, DirectModes, Pointed
    <3> QED BY <2>2, <3>1 DEF Computed, AddressTicks, DirectModes
  <2> QED BY <2>1, <2>2
<1> QED BY <1>3, <1>4, <1>7 DEF AddressTickLeaves

\* The index of a zero-page mode is added in the next one, without a carry.
LEMMA ZeroPageIndexTick ==
  ASSUME IInv, BoundaryTyped, ~jammed, op.def \in Opcode, ~reset_requested,
         MicroStep,
         NEW mode \in {"zpX", "zpY"}, AddressTickOf(mode), op.cycle = 1
  PROVE  AddressTickLeaves(mode)
<1>1. /\ mode = "zpX" => read_pc_addr_low_add_x
      /\ mode = "zpY" => read_pc_addr_low_add_y
  <2>1. /\ mode = "zpX" => AddressProgram(mode)[2] = "read_pc_addr_low_add_x"
        /\ mode = "zpY" => AddressProgram(mode)[2] = "read_pc_addr_low_add_y"
    BY DEF AddressProgram
  <2> QED BY <2>1, AddressActionOf DEF AddressTickOf, AddressKinds
<1>2. op.addr_lo = Operand1 /\ op.addr_hi = 0 /\ ~op.page_crossed
  BY DEF AddressTickOf, Partial, Pointed, InstructionSet!ZeroPageModes
<1>3. mem' = mem /\ ReadOnly /\ cpu' = cpu
  BY <1>1, ReadsReadOnly DEF read_pc_addr_low_add_x, read_pc_addr_low_add_y
<1>4. /\ cpu.X = Start.X /\ cpu.Y = Start.Y
      /\ Fetched(mode, 1) = 1 /\ Fetched(mode, 2) = 1
      /\ cpu = [Start EXCEPT !.PC = U16(Start.PC + 1 + Fetched(mode, 1))]
  BY OperandsTyped DEF AddressTickOf, Untouched, RegisterFile, Fetched
<1> DEFINE index == IF mode = "zpX" THEN Start.X ELSE Start.Y
<1>5. /\ op'.addr_lo = U8(Operand1 + index) /\ op'.addr_hi = 0
      /\ ~op'.page_crossed
  <2>1. CASE mode = "zpX"
    BY <1>1, <1>2, <1>4, <2>1, NowCounted
       DEF Counted, OpState, read_pc_addr_low_add_x
  <2>2. CASE mode = "zpY"
    BY <1>1, <1>2, <1>4, <2>2, NowCounted
       DEF Counted, OpState, read_pc_addr_low_add_y
  <2> QED BY <2>1, <2>2
<1>6. index \in Int /\ Operand1 \in Int
  BY OperandsTyped
<1>7. full_addr(op') = InstructionSet!Effective(mode)
  <2>1. InstructionSet!Effective(mode) = U8(Operand1 + index)
    BY Effectives
  <2>2. full_addr(op') = U8(Operand1 + index)
    BY <1>5, <1>6 DEF full_addr, Address, U8
  <2> QED BY <2>1, <2>2
<1>8. InstructionSet!Crosses(mode) = FALSE
  BY DEF InstructionSet!Crosses, InstructionSet!IndexedModes
<1>9. op'.page_crossed = FALSE
  <2>1. op'.page_crossed = op.page_crossed 
    <3>1. CASE mode = "zpX"
      BY <1>1, <3>1, NowCounted DEF Counted, OpState, read_pc_addr_low_add_x
    <3>2. CASE mode = "zpY"
      BY <1>1, <3>2, NowCounted DEF Counted, OpState, read_pc_addr_low_add_y
    <3> QED BY <3>1, <3>2
  <2> QED BY <1>2, <2>1 DEF IInv, TypeOK, OpState
<1>10. Computed(mode, 2, op')
  <2>1. AddressTicks(mode) = 2
    BY DEF AddressTicks
  <2>2. op'.page_crossed = InstructionSet!Crosses(mode)
    BY <1>8, <1>9
  <2>3. Complete(mode, op')
    BY <1>7, <2>2 DEF Complete
  <2> QED BY <2>1, <2>3 DEF Computed
<1> QED BY <1>3, <1>4, <1>10 DEF AddressTickLeaves

\* The high byte of an absolute address is read, and the index added.
LEMMA HighByteTick ==
  ASSUME IInv, BoundaryTyped, ~jammed, op.def \in Opcode, ~reset_requested,
         MicroStep,
         NEW mode \in {"abs", "absX", "absY"}, AddressTickOf(mode), op.cycle = 1
  PROVE  AddressTickLeaves(mode)
<1>1. /\ mode = "abs" => read_pc_addr_high
      /\ mode = "absX" => read_pc_addr_high_add_x
      /\ mode = "absY" => read_pc_addr_high_add_y
  <2>1. /\ mode = "abs" => AddressProgram(mode)[2] = "read_pc_addr_high"
        /\ mode = "absX" => AddressProgram(mode)[2] = "read_pc_addr_high_add_x"
        /\ mode = "absY" => AddressProgram(mode)[2] = "read_pc_addr_high_add_y"
    BY DEF AddressProgram
  <2> QED BY <2>1, AddressActionOf DEF AddressTickOf, AddressKinds
<1>2. op.addr_lo = Operand1 /\ ~op.page_crossed
  BY DEF AddressTickOf, Partial, Pointed, AddressTicks
<1>3. PICK high \in BusData(cpu.PC) :
        LET base == Address(op.addr_lo, high)
        IN /\ Reads(cpu.PC, high)
           /\ cpu' = Advance(cpu)
           /\ mode = "abs" => op' = AbsoluteAddress(high)
           /\ mode = "absX" =>
                op' = TempFromSum(Index(AbsoluteAddress(high), base, cpu.X), cpu.X)
           /\ mode = "absY" =>
                op' = [Index(AbsoluteAddress(high), base, cpu.Y) EXCEPT
                         !.temp_addr = Address(U8(op.addr_lo + cpu.Y), high)]
  <2>1. CASE mode = "abs"
    BY <1>1, <2>1 DEF read_pc_addr_high
  <2>2. CASE mode = "absX"
    BY <1>1, <2>2 DEF read_pc_addr_high_add_x
  <2>3. CASE mode = "absY"
    BY <1>1, <2>3 DEF read_pc_addr_high_add_y
  <2> QED BY <2>1, <2>2, <2>3
<1>4. /\ high = InstructionSet!M(U16(Start.PC + 2)) /\ high \in Byte
      /\ cpu' = [Start EXCEPT !.PC = U16(Start.PC + 1 + Fetched(mode, 2))]
      /\ cpu.X = Start.X /\ cpu.Y = Start.Y
  BY <1>3, FetchedByte DEF AddressTickOf
<1>5. mem' = mem /\ ReadOnly
  BY <1>3, ReadsReadOnly
<1> DEFINE base == Address(op.addr_lo, high)
           whole == AbsoluteAddress(high)
<1>6. base = Base(mode) /\ base \in Word
  BY <1>2, <1>4, Effectives, OperandsTyped, AddressTyped
<1>7. whole \in OpState /\ full_addr(whole) = base /\ whole.page_crossed = FALSE
  <2>1. whole = SetAddress(Now, base)
    BY DEF AbsoluteAddress
  <2>2. Now \in OpState /\ Now.page_crossed = FALSE
    BY <1>2, NowCounted DEF Counted, OpState
  <2>3. 0 \in Int
    OBVIOUS
  <2>4. whole \in OpState
    BY <1>4, AbsoluteAddressGoesOn DEF GoesOn, IInv
  <2> HIDE DEF base, whole
  <2> QED BY <1>6, <2>1, <2>2, <2>3, <2>4, AddressSet
<1>8. full_addr(op') = InstructionSet!Effective(mode)
      /\ op'.page_crossed = InstructionSet!Crosses(mode)
  <2> HIDE DEF base, whole
  <2>1. CASE mode = "abs"
    <3>1. op' = whole
      BY <1>3, <2>1 DEF whole
    <3>2. InstructionSet!Crosses(mode) = FALSE
      BY <2>1 DEF InstructionSet!Crosses, InstructionSet!IndexedModes
    <3> QED BY <1>6, <1>7, <2>1, <3>1, <3>2, Effectives
  <2>2. CASE mode # "abs"
    <3> DEFINE index == IF mode = "absX" THEN Start.X ELSE Start.Y
               indexed == Index(whole, base, index)
    <3>1. index \in Int /\ index \in Byte
      BY OperandsTyped, RegistersTyped
    <3>2. indexed \in OpState
      BY <1>4, <1>6, <3>1, AbsoluteAddressGoesOn, IndexGoesOn DEF whole, IInv
    <3>3. /\ full_addr(indexed) = U16(base + index)
          /\ indexed.page_crossed = ~SamePage(base, U16(base + index))
      BY <1>6, <1>7, <3>1, AddressSet
    <3>4. /\ full_addr(op') = full_addr(indexed)
          /\ op'.page_crossed = indexed.page_crossed
      <4> HIDE DEF indexed
      <4>1. \E w : op' = TempFromSum(indexed, w) \/ op' = [indexed EXCEPT !.temp_addr = w]
        BY <1>3, <1>4, <2>2 DEF indexed, whole, base
      <4> QED BY <3>2, <4>1, TempApart
    <3>5. InstructionSet!Effective(mode) = U16(base + index)
      BY <1>6, <2>2, Effectives
    <3>6. InstructionSet!Crosses(mode) <=> ~SamePage(base, U16(base + index))
      BY <1>6, <2>2, <3>5, Carries
         DEF InstructionSet!IndexedModes, InstructionSet!MemoryModes
    <3>7. InstructionSet!Crosses(mode) \in BOOLEAN
      BY DEF InstructionSet!Crosses
    <3> HIDE DEF index, indexed
    <3> QED BY <3>3, <3>4, <3>5, <3>6, <3>7
  <2> QED BY <2>1, <2>2
<1> QED BY <1>4, <1>5, <1>8
           DEF AddressTickLeaves, Computed, Complete, AddressTicks

\* The pointer of an indirect mode is read.
LEMMA PointerTick ==
  ASSUME IInv, BoundaryTyped, ~jammed, op.def \in Opcode, ~reset_requested,
         MicroStep,
         NEW mode \in Pointed, AddressTickOf(mode), op.cycle = 0
  PROVE  AddressTickLeaves(mode)
<1>1. fetch_ptr
  <2>1. AddressProgram(mode)[1] = "fetch_ptr"
    BY DEF Pointed, AddressProgram
  <2> QED BY <2>1, AddressActionOf DEF AddressTickOf, AddressKinds
<1>2. PICK v \in BusData(cpu.PC) :
        /\ Reads(cpu.PC, v) /\ op' = [Now EXCEPT !.ptr = v]
        /\ cpu' = Advance(cpu)
  BY <1>1 DEF fetch_ptr
<1>3. /\ v = Operand1
      /\ cpu' = [Start EXCEPT !.PC = U16(Start.PC + 1 + Fetched(mode, 1))]
  BY <1>2, FetchedByte, OperandsTyped DEF AddressTickOf
<1>4. mem' = mem /\ ReadOnly
  BY <1>2, ReadsReadOnly
<1>5. op'.ptr = Operand1 /\ op'.page_crossed = op.page_crossed
  BY <1>2, <1>3, NowCounted DEF Counted, OpState
<1>6. ~op.page_crossed
  BY DEF AddressTickOf, Partial
<1>7. Computed(mode, 1, op')
  BY <1>5, <1>6
     DEF Computed, Partial, AddressTicks, Pointed, InstructionSet!ZeroPageModes
<1> QED BY <1>3, <1>4, <1>7 DEF AddressTickLeaves

\* PC stays after the pointer.
LEMMA PointerFetched ==
  ASSUME BoundaryTyped, NEW mode \in Pointed, AddressTickOf(mode),
         op.cycle \in 1 .. 3
  PROVE  /\ cpu =
              [Start EXCEPT !.PC = U16(Start.PC + 1 + Fetched(mode, op.cycle + 1))]
         /\ cpu.X = Start.X /\ cpu.Y = Start.Y
         /\ mem = boundary.mem
<1>1. Fetched(mode, op.cycle) = 1 /\ Fetched(mode, op.cycle + 1) = 1
  BY DEF Fetched, Pointed
<1> QED BY <1>1, OperandsTyped DEF AddressTickOf, Untouched, RegisterFile

\* X is added to the pointer, in the zero page.
LEMMA PointerIndexTick ==
  ASSUME IInv, BoundaryTyped, ~jammed, op.def \in Opcode, ~reset_requested,
         MicroStep,
         AddressTickOf("indX"), op.cycle = 1
  PROVE  AddressTickLeaves("indX")
<1>1. read_ptr_add_x
  <2>1. AddressProgram("indX")[2] = "read_ptr_add_x"
    BY DEF AddressProgram
  <2> QED BY <2>1, AddressActionOf DEF AddressTickOf, AddressKinds
<1>2. /\ mem' = mem /\ ReadOnly /\ cpu' = cpu
      /\ op' = [Now EXCEPT !.ptr = U8(@ + cpu.X)]
  BY <1>1, ReadsReadOnly DEF read_ptr_add_x
<1>3. op.ptr = Operand1 /\ ~op.page_crossed
  BY DEF AddressTickOf, Partial, Pointed
<1>4. op'.ptr = U8(Operand1 + Start.X) /\ op'.page_crossed = op.page_crossed
  BY <1>2, <1>3, NowCounted, PointerFetched DEF Counted, OpState, Pointed
<1>5. Computed("indX", 2, op')
  BY <1>3, <1>4
     DEF Computed, Partial, AddressTicks, InstructionSet!ZeroPageModes
<1> QED BY <1>2, <1>5, PointerFetched DEF AddressTickLeaves, Pointed

\* The low byte of the address is read from the pointer.
LEMMA PointerLowTick ==
  ASSUME IInv, BoundaryTyped, ~jammed, op.def \in Opcode, ~reset_requested,
         MicroStep,
         NEW mode \in Pointed, AddressTickOf(mode),
         op.cycle = AddressTicks(mode) - 2
  PROVE  AddressTickLeaves(mode)
<1>1. op.cycle \in {1, 2} /\ (mode = "indX" <=> op.cycle = 2)
  BY DEF AddressTicks, Pointed
<1>2. read_ptr_addr_low
  <2>1. AddressProgram(mode)[op.cycle + 1] = "read_ptr_addr_low"
    BY <1>1 DEF AddressProgram, Pointed
  <2> QED BY <2>1, AddressActionOf DEF AddressTickOf, AddressKinds
<1>3. PICK v \in BusData(op.ptr) :
        Reads(op.ptr, v) /\ op' = [Now EXCEPT !.addr_lo = v] /\ cpu' = cpu
  BY <1>2 DEF read_ptr_addr_low
<1>4. mem' = mem /\ ReadOnly
  BY <1>3, ReadsReadOnly
<1>5. /\ ~op.page_crossed
      /\ op.ptr = IF mode = "indX" THEN U8(Operand1 + Start.X) ELSE Operand1
  BY <1>1 DEF AddressTickOf, Partial, Pointed
<1>6. v = InstructionSet!M(op.ptr)
  BY <1>1, <1>3, PointerFetched, OpTyped, ReadsBoundary DEF IInv
<1>7. /\ op'.ptr = op.ptr /\ op'.addr_lo = InstructionSet!M(op.ptr)
      /\ op'.page_crossed = op.page_crossed
  BY <1>3, <1>6, NowCounted DEF Counted, OpState
<1>8. Computed(mode, op.cycle + 1, op')
  <2>1. op.cycle + 1 < AddressTicks(mode) /\ op.cycle + 1 # 1
    BY <1>1 DEF AddressTicks, Pointed
  <2>2. mode \notin InstructionSet!ZeroPageModes
    BY DEF Pointed, InstructionSet!ZeroPageModes
  <2> QED BY <1>5, <1>7, <2>1, <2>2 DEF Computed, Partial
<1> QED BY <1>1, <1>3, <1>4, <1>8, PointerFetched DEF AddressTickLeaves

\* Its high byte is read from the next cell of the zero page, and Y added.
LEMMA PointerHighTick ==
  ASSUME IInv, BoundaryTyped, ~jammed, op.def \in Opcode, ~reset_requested,
         MicroStep,
         NEW mode \in Pointed, AddressTickOf(mode),
         op.cycle = AddressTicks(mode) - 1
  PROVE  AddressTickLeaves(mode)
<1>1. /\ op.cycle \in {2, 3} /\ (mode = "indX" <=> op.cycle = 3)
      /\ op.cycle \in 1 .. 3
  BY DEF AddressTicks, Pointed
<1>2. /\ mode = "indX" => read_ptr_addr_high
      /\ mode = "indY" => read_ptr_addr_high_add_y
  <2>1. /\ mode = "indX" =>
             AddressProgram(mode)[op.cycle + 1] = "read_ptr_addr_high"
        /\ mode = "indY" =>
             AddressProgram(mode)[op.cycle + 1] = "read_ptr_addr_high_add_y"
    BY <1>1 DEF AddressProgram, Pointed
  <2> QED BY <2>1, AddressActionOf DEF AddressTickOf, AddressKinds
<1>3. PICK high \in BusData(U8(op.ptr + 1)) :
        /\ Reads(U8(op.ptr + 1), high) /\ cpu' = cpu
        /\ mode = "indX" => op' = AbsoluteAddress(high)
        /\ mode = "indY" =>
             op' = TempFromSum(Index(Now, Address(op.addr_lo, high), cpu.Y), cpu.Y)
  BY <1>2 DEF Pointed, read_ptr_addr_high, read_ptr_addr_high_add_y
<1>4. mem' = mem /\ ReadOnly
  BY <1>3, ReadsReadOnly
<1>5. /\ op.page_crossed = FALSE /\ op.addr_lo = InstructionSet!M(op.ptr)
      /\ op.ptr = IF mode = "indX" THEN U8(Operand1 + Start.X) ELSE Operand1
  <2>1. op.page_crossed \in BOOLEAN
    BY DEF IInv, TypeOK, OpState
  <2> QED BY <1>1, <2>1 DEF AddressTickOf, Partial, Pointed
<1>6. high = InstructionSet!M(U8(op.ptr + 1)) /\ high \in Byte
  <2>1. U8(op.ptr + 1) \in Word
    BY WordsTyped
  <2> QED BY <1>1, <1>3, <2>1, PointerFetched, ReadsBoundary, BusDataTyped
             DEF IInv
<1> DEFINE base == Address(op.addr_lo, high)
<1>7. base \in Word
  BY <1>6, OpTyped, AddressTyped DEF IInv
<1>8. /\ cpu.Y = Start.Y /\ Start.Y \in Byte /\ Start.Y \in Int
      /\ Operand1 \in Int /\ Operand1 \in Byte /\ Start.X \in Int
  BY <1>1, PointerFetched, OperandsTyped, RegistersTyped
<1>9. Now \in OpState /\ Now.page_crossed = FALSE
  BY <1>5, NowCounted DEF Counted, OpState
<1>10. full_addr(op') = InstructionSet!Effective(mode)
       /\ op'.page_crossed = InstructionSet!Crosses(mode)
  <2>1. CASE mode = "indX"
    <3>1. base = InstructionSet!Effective(mode)
      <4>1. U8(op.ptr + 1) = U8(Operand1 + Start.X + 1)
        BY <1>5, <1>8, <2>1, Sums
      <4> QED BY <1>5, <1>6, <2>1, <4>1, Effectives
    <3>2. op' = SetAddress(Now, base)
      BY <1>3, <2>1 DEF AbsoluteAddress
    <3>3. 0 \in Int
      OBVIOUS
    <3>4. InstructionSet!Crosses(mode) = FALSE
      BY <2>1 DEF InstructionSet!Crosses, InstructionSet!IndexedModes
    <3> HIDE DEF base
    <3> QED BY <1>7, <1>9, <3>1, <3>2, <3>3, <3>4, AddressSet
  <2>2. CASE mode = "indY"
    <3>1. base = Base(mode)
      <4>1. U8(Operand1) = Operand1
        BY <1>8, Sums
      <4> QED BY <1>5, <1>6, <2>2, <4>1, Effectives
    <3> DEFINE indexed == Index(Now, base, Start.Y)
    <3> HIDE DEF base
    <3>2. indexed \in OpState
      BY <1>7, <1>8, NowGoesOn, IndexGoesOn DEF IInv
    <3>3. /\ full_addr(indexed) = U16(base + Start.Y)
          /\ indexed.page_crossed = ~SamePage(base, U16(base + Start.Y))
      BY <1>7, <1>8, <1>9, AddressSet
    <3>4. /\ full_addr(op') = full_addr(indexed)
          /\ op'.page_crossed = indexed.page_crossed
      <4>1. op' = TempFromSum(indexed, Start.Y)
        BY <1>3, <1>8, <2>2 DEF base
      <4> HIDE DEF indexed
      <4> QED BY <3>2, <4>1, TempApart
    <3>5. InstructionSet!Effective(mode) = U16(base + Start.Y)
      BY <2>2, <3>1, Effectives
    <3>6. InstructionSet!Crosses(mode) <=> ~SamePage(base, U16(base + Start.Y))
      BY <2>2, <3>1, <3>5, Carries
         DEF InstructionSet!IndexedModes, InstructionSet!MemoryModes
    <3>7. InstructionSet!Crosses(mode) \in BOOLEAN
      BY DEF InstructionSet!Crosses
    <3> HIDE DEF indexed
    <3> QED BY <3>3, <3>4, <3>5, <3>6, <3>7
  <2> QED BY <2>1, <2>2 DEF Pointed
<1>11. Computed(mode, op.cycle + 1, op')
  <2>1. ~(op.cycle + 1 < AddressTicks(mode))
    BY <1>1 DEF AddressTicks, Pointed
  <2> QED BY <1>10, <2>1 DEF Computed, Complete
<1> QED BY <1>1, <1>3, <1>4, <1>11, PointerFetched DEF AddressTickLeaves

\* Every address tick.
LEMMA AddressTick ==
  ASSUME IInv, BoundaryTyped, ~jammed, op.def \in Opcode, ~reset_requested,
         MicroStep,
         NEW mode, AddressTickOf(mode)
  PROVE  AddressTickLeaves(mode)
<1>1. op.cycle \in 0 .. 6 /\ op.cycle < AddressTicks(mode)
  BY NowCounted DEF AddressTickOf
<1>2. mode \in DirectModes \cup Pointed
  BY
     DEF AddressTickOf, DirectModes, Pointed, InstructionSet!MemoryModes,
         InstructionSet!ZeroPageModes, InstructionSet!IndexedModes
<1>3. CASE mode \in DirectModes
  <2>1. \/ op.cycle = 0
        \/ op.cycle = 1 /\ mode \in {"zpX", "zpY", "abs", "absX", "absY"}
    BY <1>1, <1>3 DEF DirectModes, AddressTicks
  <2> QED BY <1>3, <2>1, LowByteTick, ZeroPageIndexTick, HighByteTick
<1>4. CASE mode \in Pointed
  <2>1. \/ op.cycle = 0 
        \/ op.cycle = 1 /\ mode = "indX"
        \/ op.cycle = AddressTicks(mode) - 2 \/ op.cycle = AddressTicks(mode) - 1
    BY <1>1, <1>4 DEF Pointed, AddressTicks
  <2> QED BY <1>4, <2>1, PointerTick, PointerIndexTick, PointerLowTick,
             PointerHighTick
<1> QED BY <1>2, <1>3, <1>4

-----------------------------------------------------------------------------
(* The micro-operations that use it *)

\* Writes, and the accesses of the tick that ends the instruction.
AccessesAt(addr) ==
  \A i \in DOMAIN bus' :
    bus'[i].access = "write" \/ op'.def = NULL => bus'[i].addr = addr

\* The address is kept, and nothing else is written or read last.
LEMMA OperandTick ==
  ASSUME IInv, AddressesAgree, ~jammed, op.def \in Opcode, ~reset_requested,
         MicroStep,
         NEW mode, Complete(mode, op), NEW kind \in OperandKinds, Executes(kind)
  PROVE  /\ op'.def # NULL => Complete(mode, op')
         /\ AccessesAt(InstructionSet!Effective(mode))
         /\ kind \in MaybeKinds /\ op'.def # NULL => op'.page_crossed
         /\ kind \in MaybeKinds /\ op'.def = NULL => ~op.page_crossed
<1> DEFINE ea == InstructionSet!Effective(mode)
<1>1. /\ Selected = op /\ Now = Counted(op.cycle) /\ op \in OpState
      /\ op.def # NULL
  <2>1. op.def # NULL
    BY DEF Opcode, NULL
  <2> QED BY <2>1, NowCounted
<1>2. /\ full_addr(op) = ea
      /\ UsesAddr(NextOp) => op.addr = ea
  <2>1. op.cycle < Len(micro_ops(op.def))
    BY PlaceTyped, <1>1
  <2> QED BY <1>1, <2>1 DEF Complete, AddressesAgree, InProgress
<1>3. NextOp.kind = kind /\ NextOp.fn = Mnemonic
  BY <1>1 DEF NextOp, Mnemonic, Executes
<1>4. /\ Now.def # NULL /\ Complete(mode, Now)
      /\ \A v : Complete(mode, [Now EXCEPT !.data = v])
      /\ Now.page_crossed = op.page_crossed
  BY <1>1 DEF Counted, Complete, full_addr, OpState
<1>5. ASSUME NEW a, NEW v, Reads(a, v)
      PROVE  bus' = <<Rd(a, v)>>
  BY <1>5 DEF Reads, CallsBack
<1>6. ASSUME NEW a, NEW v, Writes(a, v)
      PROVE  bus' = <<Wr(a, v)>>
  BY <1>6 DEF Writes, CallsBack
<1>7. ASSUME NEW v, bus' = <<Rd(ea, v)>> \/ bus' = <<Wr(ea, v)>>
      PROVE  AccessesAt(ea)
  BY <1>7 DEF AccessesAt, Rd, Wr
<1>8. ASSUME NEW a, NEW v, bus' = <<Rd(a, v)>>, op'.def # NULL
      PROVE  AccessesAt(ea)
  BY <1>8 DEF AccessesAt, Rd
<1>9. CASE kind = "addr"
  <2>1. f_addr
    BY <1>9, InstructionActionOf DEF InstructionKinds
  <2> QED BY <1>2, <1>5, <1>7, <1>9, <2>1, FinishClears DEF f_addr, MaybeKinds
<1>10. CASE kind = "indexed_read_maybe_finish"
  <2>1. f_indexed_read_maybe_finish /\ UsesAddr(NextOp)
    BY <1>3, <1>10, InstructionActionOf DEF InstructionKinds, UsesAddr
  <2>2. CASE op.page_crossed /\ Continue /\ \E value : Reads(op.temp_addr, value)
    BY <1>4, <1>5, <1>8, <2>2 DEF Continue
  <2>3. CASE ~op.page_crossed /\ Finish /\ \E value : Reads(op.addr, value)
    BY <1>2, <1>5, <1>7, <2>1, <2>3, FinishClears
  <2> QED BY <2>1, <2>2, <2>3 DEF f_indexed_read_maybe_finish
<1>11. CASE kind = "indexed_reread_fixed"
  <2>1. f_indexed_reread_fixed /\ UsesAddr(NextOp)
    BY <1>3, <1>11, InstructionActionOf DEF InstructionKinds, UsesAddr
  <2> QED BY <1>2, <1>5, <1>7, <1>11, <2>1, FinishClears
          DEF f_indexed_reread_fixed, MaybeKinds
<1>12. CASE kind = "dummy_temp_addr_read"
  <2>1. dummy_temp_addr_read
    BY <1>12, AddressActionOf DEF AddressKinds
  <2> QED BY <1>4, <1>5, <1>8, <1>12, <2>1
          DEF dummy_temp_addr_read, Continue, MaybeKinds
<1>13. CASE kind = "read_addr_data"
  <2>1. read_addr_data
    BY <1>13, InstructionActionOf DEF InstructionKinds
  <2>2. PICK v : Reads(full_addr(op), v) /\ op' = [Now EXCEPT !.data = v]
    BY <2>1 DEF read_addr_data
  <2>3. Complete(mode, op')
    BY <1>4, <2>2
  <2> QED BY <1>2, <1>5, <1>7, <1>13, <2>2, <2>3 DEF MaybeKinds
<1>14. CASE kind = "dummy_write_and_compute"
  <2>1. f_dummy_write_and_compute /\ UsesAddr(NextOp)
    BY <1>3, <1>14, InstructionActionOf DEF InstructionKinds, UsesAddr
  <2>2. Complete(mode, op')
    BY <1>4, <2>1 DEF f_dummy_write_and_compute
  <2>3. CASE NoAccess
    BY <1>14, <2>2, <2>3 DEF NoAccess, AccessesAt, MaybeKinds
  <2>4. CASE Writes(op.addr, op.data)
    BY <1>2, <1>6, <1>7, <1>14, <2>1, <2>2, <2>4 DEF MaybeKinds
  <2> QED BY <2>1, <2>3, <2>4 DEF f_dummy_write_and_compute
<1>15. CASE kind = "write_data_and_finish"
  <2>1. write_data_and_finish
    BY <1>15, InstructionActionOf DEF InstructionKinds
  <2> QED BY <1>2, <1>6, <1>7, <1>15, <2>1, FinishClears
          DEF write_data_and_finish, MaybeKinds
<1>16. CASE kind = "store"
  <2>1. f_store
    BY <1>16, InstructionActionOf DEF InstructionKinds
  <2>2. Mnemonic \in {"shx", "shy"} => op.addr = ea
    BY <1>2, <1>3, <1>16 DEF UsesAddr
  <2>3. \E v : Writes(ea, v)
    BY <1>2, <2>1, <2>2 DEF f_store
  <2> QED BY <1>6, <1>7, <1>16, <2>1, <2>3, FinishClears DEF f_store, MaybeKinds
<1>17. CASE kind = "tas_indexed_read_maybe_finish"
  <2>1. tas_indexed_read_maybe_finish /\ UsesAddr(NextOp)
    BY <1>3, <1>17, InstructionActionOf DEF InstructionKinds, UsesAddr
  <2>2. CASE op.page_crossed /\ Continue /\ \E value : Reads(op.temp_addr, value)
    BY <1>4, <1>5, <1>8, <2>2 DEF Continue
  <2>3. CASE /\ ~op.page_crossed /\ Finish
             /\ \E v, w : CallsBack(<<Rd(op.addr, v), Wr(op.addr, w)>>)
    <3>1. \E v, w : bus' = <<Rd(op.addr, v), Wr(op.addr, w)>>
      BY <2>3 DEF CallsBack
    <3>2. AccessesAt(ea)
      BY <1>2, <2>1, <3>1 DEF AccessesAt, Rd, Wr
    <3> QED BY <2>3, <3>2, FinishClears
  <2> QED BY <2>1, <2>2, <2>3 DEF tas_indexed_read_maybe_finish
<1>18. CASE kind = "tas_indexed_rewrite_fixed"
  <2>1. tas_indexed_rewrite_fixed /\ UsesAddr(NextOp)
    BY <1>3, <1>18, InstructionActionOf DEF InstructionKinds, UsesAddr
  <2> QED BY <1>2, <1>6, <1>7, <1>18, <2>1, FinishClears
          DEF tas_indexed_rewrite_fixed, MaybeKinds
<1> QED BY <1>9, <1>10, <1>11, <1>12, <1>13, <1>14, <1>15, <1>16, <1>17, <1>18
        DEF OperandKinds

-----------------------------------------------------------------------------
(* Branches *)

\* What n ticks of a branch have found out.
Branching(f, n) ==
  /\ n < 2 => Untouched("rel", n)
  /\ n > 0 => InstructionSet!Takes(f)
  /\ n = 1 => op.offset = S8(Operand1)
  /\ n = 2 => ~SamePage(U16(Start.PC + 2), InstructionSet!BranchTarget)

\* The target of a branch and its condition are those of the instruction set.
LEMMA Targets ==
  ASSUME BoundaryTyped
  PROVE  /\ InstructionSet!BranchTarget = U16(U16(Start.PC + 2) + S8(Operand1))
         /\ \A f \in BranchFns :
              InstructionSet!Takes(f) <=> BranchTaken(f, Start.status)
<1>1. InstructionSet!BranchTarget = U16(Start.PC + 2 + S8(Operand1))
  BY SameWords DEF InstructionSet!BranchTarget, Start, Operand1
<1>2. S8(Operand1) \in Int /\ Start.PC \in Int
  BY OperandsTyped DEF S8
<1>3. \A p \in Int, d \in Int : U16(U16(p + 2) + d) = U16(p + 2 + d)
  BY DEF U16
<1>4. \A f \in BranchFns :
        InstructionSet!Takes(f) <=> BranchTaken(f, Start.status)
  BY DEF BranchFns, InstructionSet!Takes, BranchTaken, Start, FLAG_NEGATIVE,
     FLAG_OVERFLOW, FLAG_CARRY, FLAG_ZERO, InstructionSet!FLAG_NEGATIVE,
     InstructionSet!FLAG_OVERFLOW, InstructionSet!FLAG_CARRY,
     InstructionSet!FLAG_ZERO
<1> QED BY <1>1, <1>2, <1>3, <1>4

\* Each of its ticks ends it or finds out the next thing.
LEMMA BranchTick ==
  ASSUME IInv, BoundaryTyped, ~jammed, op.def \in Opcode, ~reset_requested,
         MicroStep,
         NEW f \in BranchFns, micro_ops(op.def) = Branch(f),
         Branching(f, op.cycle)
  PROVE  /\ op.cycle \in 0 .. 2
         /\ op.cycle = 0 /\ op'.def = NULL => ~InstructionSet!Takes(f)
         /\ op.cycle = 0 /\ op'.def # NULL =>
              /\ InstructionSet!Takes(f) /\ op'.offset = S8(Operand1)
              /\ mem' = boundary.mem
              /\ cpu' = [Start EXCEPT !.PC = U16(Start.PC + 1 + Fetched("rel", 1))]
         /\ op.cycle = 1 =>
              (op'.def = NULL <=>
                 SamePage(U16(Start.PC + 2), InstructionSet!BranchTarget))
         /\ op.cycle = 2 => op'.def = NULL
<1>1. /\ op.cycle \in 0 .. 2
      /\ Executes(Branch(f)[op.cycle + 1].kind)
      /\ Mnemonic = Branch(f)[op.cycle + 1].fn
  <2>1. Len(Branch(f)) = 3
    BY DEF Branch
  <2>2. op.cycle \in 0 .. 6 /\ op.cycle + 1 \in 1 .. 3
    BY <2>1, NowCounted
  <2>3. op.cycle \in 0 .. 2
    BY <2>2
  <2> QED BY <2>3, NowCounted DEF Mnemonic
<1>2. Now = Counted(op.cycle) /\ op \in OpState /\ op.def # NULL
  <2>1. op.def # NULL
    BY DEF Opcode, NULL
  <2> QED BY <2>1, NowCounted
<1>3. Now.def # NULL /\ \A v : /\ [Now EXCEPT !.offset = v].offset = v
                               /\ [Now EXCEPT !.offset = v].def # NULL
                               /\ [Now EXCEPT !.old_pc = v].def # NULL
  BY <1>2 DEF Counted, OpState
<1>4. ZeroOp.def = NULL /\ \A v : [ZeroOp EXCEPT !.old_pc = v].def = NULL
  BY DEF ZeroOp
<1>5. CASE op.cycle = 0
  <2>1. f_fetch_offset /\ Mnemonic = f
    BY <1>1, <1>5, InstructionActionOf DEF InstructionKinds, Branch, Instruction
  <2>2. PICK v \in BusData(cpu.PC) :
          /\ Reads(cpu.PC, v) /\ cpu' = Advance(cpu)
          /\ op' = IF BranchTaken(f, cpu.status)
                   THEN [Now EXCEPT !.offset = S8(v)] ELSE ZeroOp
    BY <2>1 DEF f_fetch_offset
  <2>3. Untouched("rel", 0)
    BY <1>5 DEF Branching
  <2>4. /\ v = Operand1
        /\ cpu' = [Start EXCEPT !.PC = U16(Start.PC + 1 + Fetched("rel", 1))]
        /\ cpu.status = Start.status
    <3>1. /\ v = InstructionSet!M(U16(Start.PC + (0 + 1)))
          /\ Advance(cpu) =
               [Start EXCEPT !.PC = U16(Start.PC + 1 + Fetched("rel", 0 + 1))]
      BY <2>2, <2>3, FetchedByte
    <3>2. cpu.status = Start.status
      BY <2>3, OperandsTyped DEF Untouched, RegisterFile
    <3> QED BY <2>2, <3>1, <3>2, OperandsTyped
  <2>5. mem' = boundary.mem
    BY <2>2, <2>3, ReadsReadOnly DEF Untouched
  <2> QED BY <1>3, <1>4, <1>5, <2>2, <2>4, <2>5, Targets
<1>6. CASE op.cycle = 1
  <2>1. branch_op
    BY <1>1, <1>6, InstructionActionOf DEF InstructionKinds, Branch, Do
  <2>2. cpu.PC = U16(Start.PC + 2) /\ op.offset = S8(Operand1)
    <3>1. cpu = [Start EXCEPT !.PC = U16(Start.PC + 1 + 1)]
      BY <1>6 DEF Branching, Untouched, Fetched
    <3>2. Start.PC + 1 + 1 = Start.PC + 2
      BY OperandsTyped
    <3> QED BY <1>6, <3>1, <3>2, OperandsTyped DEF Branching, RegisterFile
  <2>3. op' = [(IF SamePage(cpu.PC, U16(cpu.PC + op.offset)) THEN ZeroOp ELSE Now)
                 EXCEPT !.old_pc = cpu.PC]
    BY <2>1 DEF branch_op
  <2>4. op'.def = NULL <=> SamePage(cpu.PC, U16(cpu.PC + op.offset))
    BY <1>3, <1>4, <2>3
  <2>5. InstructionSet!BranchTarget = U16(cpu.PC + op.offset)
    BY <2>2, Targets
  <2> QED BY <1>6, <2>2, <2>4, <2>5
<1>7. CASE op.cycle = 2
  <2>1. branch_page_fix
    BY <1>1, <1>7, InstructionActionOf DEF InstructionKinds, Branch, Do
  <2> QED BY <1>7, <2>1, FinishClears DEF branch_page_fix
<1> QED BY <1>1, <1>5, <1>6, <1>7

-----------------------------------------------------------------------------
(* The invariant *)

\* What the instruction set says of the instruction that began at the boundary
\* does not change until the next one begins.
LEMMA Frozen ==
  ASSUME boundary' = boundary
  PROVE  /\ Start' = Start /\ Operand1' = Operand1
         /\ \A a : InstructionSet!M(a)' = InstructionSet!M(a)
         /\ \A mode :
              InstructionSet!Effective(mode)' = InstructionSet!Effective(mode)
         /\ \A mode :
              InstructionSet!Crosses(mode)' = InstructionSet!Crosses(mode)
         /\ \A f : InstructionSet!Takes(f)' = InstructionSet!Takes(f)
         /\ InstructionSet!BranchTarget' = InstructionSet!BranchTarget
<1>1. \A a : InstructionSet!M(a)' = InstructionSet!M(a)
  BY DEF InstructionSet!M, InstructionSet!Peek
<1>2. Start' = Start /\ boundary.cpu' = boundary.cpu
  BY DEF Start
<1>3. /\ InstructionSet!Byte1' = InstructionSet!Byte1
      /\ InstructionSet!Word1' = InstructionSet!Word1
  BY <1>1, <1>2 DEF InstructionSet!Byte1, InstructionSet!Word1
<1>4. \A p : InstructionSet!Pointer(p)' = InstructionSet!Pointer(p)
  BY <1>1 DEF InstructionSet!Pointer
<1>5. \A mode : InstructionSet!Effective(mode)' = InstructionSet!Effective(mode)
  BY <1>2, <1>3, <1>4 DEF InstructionSet!Effective
<1>6. \A mode : InstructionSet!BaseAddress(mode)' = InstructionSet!BaseAddress(mode)
  BY <1>3, <1>4 DEF InstructionSet!BaseAddress
<1>7. \A mode : InstructionSet!Crosses(mode)' = InstructionSet!Crosses(mode)
  BY <1>5, <1>6 DEF InstructionSet!Crosses
<1>8. \A f : InstructionSet!Takes(f)' = InstructionSet!Takes(f)
  BY <1>2 DEF InstructionSet!Takes
<1>9. InstructionSet!BranchTarget' = InstructionSet!BranchTarget
  BY <1>2, <1>3 DEF InstructionSet!BranchTarget
<1> QED BY <1>1, <1>2, <1>3, <1>5, <1>7, <1>8, <1>9 DEF Operand1

\* The address of the operand as far as the ticks of the program have come.
OnOperand(mode) ==
  LET n == op.cycle
  IN  /\ n <= AddressTicks(mode) => Untouched(mode, n)
      /\ Computed(mode, n, op)
      /\ n > AddressTicks(mode) /\ micro_ops(op.def)[n].kind \in MaybeKinds =>
           op.page_crossed

\* The inductive invariant: the CPU in the middle of an instruction is where
\* the instruction set says that it gets from the boundary.
OnTrack(opcode) ==
  LET mode == InstructionSet!Mode(opcode)
  IN  /\ mode \in InstructionSet!MemoryModes => OnOperand(mode)
      /\ mode = "rel" => Branching(InstructionSet!Operation(opcode), op.cycle)

Aligned ==
  /\ BoundaryTyped
  /\ ~jammed /\ op.def = NULL => boundary = Boundary
  /\ ~jammed /\ op.def \in Opcode => OnTrack(op.def)

\* The boundary moves with the CPU or stays.
LEMMA BoundaryStays ==
  ASSUME IInv', BoundaryTyped, BoundaryKept
  PROVE  /\ BoundaryTyped'
         /\ op'.def = NULL => (boundary = Boundary)'
         /\ op'.def # NULL => boundary' = boundary
<1>1. op'.def = NULL => boundary' = [cpu |-> cpu', mem |-> mem']
  BY DEF BoundaryKept, Boundary
<1>2. op'.def # NULL => boundary' = boundary
  BY DEF BoundaryKept
<1>3. cpu' \in RegisterFile /\ mem' \in [Ram -> Byte]
  BY DEF IInv, TypeOK
<1> QED BY <1>1, <1>2, <1>3 DEF BoundaryTyped, Boundary

\* A step that changes nothing of the instruction leaves it on track.
LEMMA NothingMoves ==
  ASSUME Aligned, boundary' = boundary, cpu' = cpu, op' = op, mem' = mem,
         ~jammed,
         op.def \in Opcode
  PROVE  OnTrack(op.def)'
<1> PICK mode : mode = InstructionSet!Mode(op.def)
  OBVIOUS
<1> PICK f : f = InstructionSet!Operation(op.def)
  OBVIOUS
<1>1. /\ InstructionSet!Mode(op.def)' = mode
      /\ InstructionSet!Operation(op.def)' = f
  OBVIOUS
<1>2. OnTrack(op.def)
  BY DEF Aligned
<1>3. mode \in InstructionSet!MemoryModes => OnOperand(mode)'
  BY <1>2, Frozen DEF OnTrack, OnOperand, Untouched, Computed, Partial, Complete
<1>4. mode = "rel" => Branching(f, op.cycle)'
  BY <1>2, Frozen DEF OnTrack, Branching, Untouched
<1> QED BY <1>1, <1>3, <1>4 DEF OnTrack

\* An instruction begins on track.
LEMMA FetchOnTrack ==
  ASSUME IInv, IInv', Aligned, Fetch, UNCHANGED jammed, BoundaryKept
  PROVE  op'.def \in Opcode /\ OnTrack(op.def)'
<1>1. ~jammed /\ op.def = NULL
  BY DEF Fetch, Selected, NmiTaken, ZeroOp, NULL, reset_sequence, nmi_sequence,
         IInv, TypeOK, OpState
<1>2. op = [ZeroOp EXCEPT !.old_pc = op.old_pc] /\ boundary = Boundary
  BY <1>1 DEF IInv, CleanBoundary, Aligned
<1>3. PICK opcode \in BusData(cpu.PC) :
        Reads(cpu.PC, opcode) /\ op' = [op EXCEPT !.def = opcode]
  BY DEF Fetch
<1>4. /\ op'.def = opcode /\ op'.cycle = 0 /\ op'.page_crossed = FALSE
      /\ op'.addr_hi = 0
  BY <1>2, <1>3 DEF ZeroOp
<1>5. opcode \in Opcode /\ opcode # NULL
  <2>1. opcode \in Byte
    BY <1>3, WordsTyped, BusDataTyped DEF IInv
  <2> QED BY <2>1, Bounds DEF Opcode, NULL
<1>6. boundary' = boundary /\ Start' = cpu /\ boundary.mem = mem /\ mem' = mem
      /\ Start = cpu
  BY <1>2, <1>3, <1>4, <1>5, ReadsReadOnly DEF BoundaryKept, Start, Boundary
<1>7. cpu' = [Start EXCEPT !.PC = U16(Start.PC + 1)] /\ Start.PC \in Int
  BY <1>6, OperandsTyped DEF Fetch, Advance, Aligned
<1>8. ASSUME NEW mode
      PROVE  Untouched(mode, 0)'
  <2>1. Fetched(mode, 0) = 0 /\ Start.PC + 1 + 0 = Start.PC + 1
    BY <1>7 DEF Fetched
  <2>2. Untouched(mode, 0)' =
          (mem' = boundary'.mem /\
           cpu' = [Start' EXCEPT !.PC = U16(Start'.PC + 1 + Fetched(mode, 0))])
    BY DEF Untouched
  <2> QED BY <1>6, <1>7, <2>1, <2>2
<1>9. ASSUME NEW mode \in InstructionSet!MemoryModes
      PROVE  OnOperand(mode)'
  <2>1. /\ AddressTicks(mode) \in 1 .. 4
        /\ (mode \in Pointed => AddressTicks(mode) > 1)
    BY <1>9
       DEF AddressTicks, InstructionSet!MemoryModes,
           InstructionSet!ZeroPageModes,
       InstructionSet!IndexedModes, Pointed
  <2>2. Partial(mode, 0, op)'
    BY <1>4, <2>1 DEF Partial
  <2>3. 0 < AddressTicks(mode) /\ ~(0 > AddressTicks(mode))
    BY <2>1
  <2>4. Computed(mode, 0, op)'
    BY <2>2, <2>3 DEF Computed
  <2> QED BY <1>4, <1>8, <2>3, <2>4 DEF OnOperand
<1>10. Branching(InstructionSet!Operation(op.def), op.cycle)'
  BY <1>4, <1>8 DEF Branching
<1> QED BY <1>4, <1>5, <1>9, <1>10 DEF OnTrack

\* Where an instruction with an operand in memory is.
LEMMA OperandPlace ==
  ASSUME IInv, Aligned, ~jammed, op.def \in Opcode, ~reset_requested, MicroStep,
         NEW mode \in InstructionSet!MemoryModes,
         mode = InstructionSet!Mode(op.def)
  PROVE  /\ OnMemory(mode, InstructionSet!Operation(op.def), micro_ops(op.def))
         /\ OnOperand(mode)
         /\ AddressTicks(mode) \in 1 .. 4 /\ op.cycle \in 0 .. 6
         /\ op.cycle < AddressTicks(mode) =>
              AddressTickOf(mode) /\ AddressProgram(mode)[op.cycle + 1] \in AddressKinds
         /\ op.cycle >= AddressTicks(mode) =>
              /\ Complete(mode, op)
              /\ op.cycle + 1 \in AddressTicks(mode) + 1 .. Len(micro_ops(op.def))
              /\ Executes(micro_ops(op.def)[op.cycle + 1].kind)
              /\ micro_ops(op.def)[op.cycle + 1].kind \in OperandKinds
<1> DEFINE program == micro_ops(op.def)
           t       == AddressTicks(mode)
           n       == op.cycle
<1>1. /\ OnMemory(mode, InstructionSet!Operation(op.def), program)
      /\ OnOperand(mode)
  BY ProgramsDecoded, MemoryProgram DEF Programmed, Aligned, OnTrack
<1>2. t \in 1 .. 4 /\ \A i \in 1 .. t : AddressProgram(mode)[i] \in AddressKinds
  BY DEF AddressTicks, AddressProgram, AddressKinds, InstructionSet!MemoryModes,
         InstructionSet!ZeroPageModes, InstructionSet!IndexedModes
<1>3. /\ n \in 0 .. 6 /\ n + 1 \in 1 .. Len(program)
      /\ Executes(program[n + 1].kind)
  BY NowCounted
<1>4. ASSUME n < t
      PROVE  AddressTickOf(mode) /\ AddressProgram(mode)[n + 1] \in AddressKinds
  <2>1. n + 1 \in 1 .. t /\ n <= t
    BY <1>2, <1>3, <1>4
  <2>2. program[n + 1].kind = AddressProgram(mode)[n + 1]
    BY <1>1, <2>1 DEF OnMemory
  <2>3. Untouched(mode, n) /\ Partial(mode, n, op)
    BY <1>1, <1>4, <2>1 DEF OnOperand, Computed
  <2> QED BY <1>2, <1>3, <1>4, <2>1, <2>2, <2>3 DEF AddressTickOf
<1>5. ASSUME n >= t
      PROVE  /\ Complete(mode, op)
             /\ n + 1 \in t + 1 .. Len(program)
             /\ program[n + 1].kind \in OperandKinds
  <2>1. ~(n < t)
    BY <1>2, <1>3, <1>5
  <2>2. Len(program) \in Int
    BY <1>3, PlaceTyped DEF Opcode, NULL
  <2>3. n + 1 \in t + 1 .. Len(program)
    <3> HIDE DEF n, t, program
    <3> QED BY <1>2, <1>3, <1>5, <2>2
  <2> QED BY <1>1, <2>1, <2>3 DEF OnOperand, Computed, OnMemory
<1> QED BY <1>1, <1>2, <1>3, <1>4, <1>5

\* The instruction that goes on, goes on at the next cycle.
LEMMA NextCycle ==
  ASSUME IInv, ~jammed, op.def \in Opcode, ~reset_requested, MicroStep,
         op'.def # NULL
  PROVE  op'.def = op.def /\ op'.cycle = op.cycle + 1
BY NowCounted, StepKeepsOrEnds
   DEF IInv, MicroStep, Keeps, Ends, Counted, OpState

\* An instruction with its operand in memory goes on on track.
LEMMA OperandGoesOn ==
  ASSUME IInv, AddressesAgree, Aligned, ~jammed, op.def \in Opcode,
         ~reset_requested,
         MicroStep, op'.def # NULL, boundary' = boundary,
         NEW mode \in InstructionSet!MemoryModes,
         mode = InstructionSet!Mode(op.def)
  PROVE  OnOperand(mode)'
<1> DEFINE t == AddressTicks(mode)
           n == op.cycle
<1>1. t \in 1 .. 4 /\ n \in 0 .. 6 /\ OnOperand(mode)
  BY OperandPlace
<1>2. op'.def = op.def /\ op'.cycle = n + 1
  BY NextCycle
<1>3. CASE n < t
  <2>1. AddressTickLeaves(mode) /\ Untouched(mode, n)
    BY <1>3, OperandPlace, AddressTick DEF Aligned, AddressTickOf
  <2>2. Computed(mode, n + 1, op')
    BY <2>1 DEF AddressTickLeaves
  <2>3. Computed(mode, op.cycle, op)'
    BY <1>2, <2>2, Frozen DEF Computed, Partial, Complete
  <2>4. mem' = boundary.mem
    BY <2>1 DEF AddressTickLeaves, Untouched
  <2>5. cpu' = [Start EXCEPT !.PC = U16(Start.PC + 1 + Fetched(mode, n + 1))]
    BY <2>1 DEF AddressTickLeaves
  <2>6. Untouched(mode, op.cycle)'
    BY <1>2, <2>4, <2>5, Frozen DEF Untouched
  <2>7. ~(n + 1 > t)
    BY <1>1, <1>3
  <2> QED BY <1>2, <2>3, <2>6, <2>7 DEF OnOperand
<1>4. CASE n >= t
  <2> DEFINE kind == micro_ops(op.def)[n + 1].kind
  <2>1. /\ Complete(mode, op')
        /\ kind \in MaybeKinds => op'.page_crossed
    BY <1>2, <1>4, OperandPlace, OperandTick DEF Opcode, NULL
  <2>2. ~(n + 1 < t) /\ ~(n + 1 <= t)
    BY <1>1, <1>4
  <2>3. Complete(mode, op)'
    BY <2>1, Frozen DEF Complete
  <2> QED BY <1>2, <2>1, <2>2, <2>3 DEF OnOperand, Computed
<1> QED BY <1>1, <1>3, <1>4

\* The program of a branch.
LEMMA BranchProgram ==
  ASSUME NEW opcode \in Opcode, InstructionSet!Mode(opcode) = "rel"
  PROVE  /\ InstructionSet!Operation(opcode) \in BranchFns
         /\ micro_ops(opcode) = Branch(InstructionSet!Operation(opcode))
BY ProgramsDecoded
   DEF Programmed, Decoded, ReadProgram, StoreProgram, ModifyProgram,
       OtherProgram

\* A branch goes on on track.
LEMMA BranchGoesOn ==
  ASSUME IInv, Aligned, ~jammed, op.def \in Opcode, ~reset_requested,
         MicroStep, op'.def # NULL, boundary' = boundary,
         InstructionSet!Mode(op.def) = "rel", NEW f,
         f = InstructionSet!Operation(op.def)
  PROVE  Branching(f, op.cycle)'
<1>1. f \in BranchFns /\ micro_ops(op.def) = Branch(f) /\ Branching(f, op.cycle)
  BY BranchProgram DEF Aligned, OnTrack
<1>2. op'.def = op.def /\ op'.cycle = op.cycle + 1
  BY NextCycle
<1>3. CASE op.cycle = 0
  <2>1. /\ InstructionSet!Takes(f) /\ op'.offset = S8(Operand1)
        /\ mem' = boundary.mem
        /\ cpu' = [Start EXCEPT !.PC = U16(Start.PC + 1 + Fetched("rel", 1))]
    BY <1>1, <1>3, BranchTick DEF Aligned
  <2>2. Untouched("rel", op.cycle)'
    BY <1>2, <1>3, <2>1, Frozen DEF Untouched
  <2> QED BY <1>2, <1>3, <2>1, <2>2, Frozen DEF Branching
<1>4. CASE op.cycle = 1
  <2>1. InstructionSet!Takes(f)
    BY <1>1, <1>4 DEF Branching
  <2>2. ~SamePage(U16(Start.PC + 2), InstructionSet!BranchTarget)
    BY <1>1, <1>4, BranchTick DEF Aligned
  <2> QED BY <1>2, <1>4, <2>1, <2>2, Frozen DEF Branching
<1>5. op.cycle # 2 /\ op.cycle \in 0 .. 2
  BY <1>1, BranchTick DEF Aligned
<1> QED BY <1>3, <1>4, <1>5

\* Every instruction does.
LEMMA StepOnTrack ==
  ASSUME IInv, AddressesAgree, Aligned, ~jammed, op.def \in Opcode,
         ~reset_requested,
         MicroStep, op'.def # NULL, boundary' = boundary
  PROVE  OnTrack(op.def)'
<1> PICK mode : mode = InstructionSet!Mode(op.def)
  OBVIOUS
<1> PICK f : f = InstructionSet!Operation(op.def)
  OBVIOUS
<1>1. /\ InstructionSet!Mode(op.def)' = mode
      /\ InstructionSet!Operation(op.def)' = f
  BY NextCycle
<1> QED BY <1>1, OperandGoesOn, BranchGoesOn DEF OnTrack

\* A step of the library that is not one of an instruction of the program: an
\* NMI or a reset that begins, goes on or ends, begins no instruction.
LEMMA SequenceStaysApart ==
  ASSUME IInv, MicroStep, reset_requested \/ op.def \notin Opcode
  PROVE  op'.def \notin Opcode
<1>1. Selected.def # NULL
  <2>1. PICK kind : Executes(kind)
    BY StepKinds DEF MicroStep
  <2> QED BY <2>1 DEF Executes
<1>2. Selected.def \notin Opcode
  <2>1. CASE reset_requested
    BY <2>1, OpDefsDistinct DEF Selected, ZeroOp
  <2>2. CASE NmiTaken
    BY <2>2, OpDefsDistinct DEF Selected, NmiTaken, ZeroOp
  <2>3. CASE ~reset_requested /\ ~NmiTaken
    BY <2>3 DEF Selected
  <2> QED BY <2>1, <2>2, <2>3
<1>3. CASE Keeps(op')
  BY <1>2, <1>3, NowTyped DEF Keeps, IInv
<1>4. CASE Ends
  BY <1>4 DEF Ends, Opcode, NULL
<1> QED BY <1>3, <1>4, StepKeepsOrEnds DEF MicroStep, IInv

\* What the host does between two ticks, and the ticks of a jammed CPU.
LEMMA HostAligned ==
  ASSUME IInv, IInv', Aligned, BoundaryKept,
         \/ cpu6502_reset \/ cpu6502_nmi \/ TickJammed
         \/ ~Running /\ cpu6502_set_pc
  PROVE  Aligned'
<1>1. op' = op /\ jammed' = jammed /\ mem' = mem
  BY DEF cpu6502_reset, cpu6502_nmi, TickJammed, cpu6502_set_pc
<1>2. /\ BoundaryTyped'
      /\ op'.def = NULL => (boundary = Boundary)'
      /\ op'.def # NULL => boundary' = boundary
  BY BoundaryStays DEF Aligned
<1>3. op.def # NULL => cpu' = cpu
  BY DEF cpu6502_reset, cpu6502_nmi, TickJammed, Running
<1>4. op.def \in Opcode => op.def # NULL
  BY DEF Opcode, NULL
<1> QED BY <1>1, <1>2, <1>3, <1>4, NothingMoves DEF Aligned

\* Every step.
LEMMA StepAligned ==
  ASSUME IInv, IInv', AddressesAgree, Aligned,
         [ImplementationNext]_<<vars, boundary>>
  PROVE  Aligned'
<1>1. CASE UNCHANGED <<vars, boundary>>
  <2>1. UNCHANGED <<cpu, op, mem, jammed, boundary>>
    BY <1>1 DEF vars
  <2>2. BoundaryTyped' /\ (boundary = Boundary => (boundary = Boundary)')
    BY <2>1 DEF BoundaryTyped, Boundary, Aligned
  <2> QED BY <2>1, <2>2, NothingMoves DEF Aligned
<1>2. CASE ImplementationNext
  <2>1. BoundaryKept
    BY <1>2 DEF ImplementationNext
  <2>2. /\ BoundaryTyped'
        /\ op'.def = NULL => (boundary = Boundary)'
        /\ op'.def # NULL => boundary' = boundary
    BY <2>1, BoundaryStays DEF Aligned
  <2>3. CASE kil_imp
    BY <2>2, <2>3 DEF kil_imp, Aligned
  <2>4. CASE Fetch /\ UNCHANGED jammed
    <3>1. op'.def \in Opcode /\ OnTrack(op.def)'
      BY <2>1, <2>4, FetchOnTrack
    <3> QED BY <2>2, <3>1 DEF Aligned
  <2>5. CASE MicroStep /\ UNCHANGED jammed
    <3>1. CASE reset_requested \/ op.def \notin Opcode
      BY <2>2, <2>5, <3>1, SequenceStaysApart DEF Aligned
    <3>2. CASE ~reset_requested /\ op.def \in Opcode
      <4>1. ~jammed' /\ op'.def \in Opcode => OnTrack(op.def)'
        <5>1. op'.def \in Opcode => op'.def # NULL
          BY DEF Opcode, NULL
        <5> QED BY <2>2, <2>5, <3>2, <5>1, StepOnTrack
      <4> QED BY <2>2, <4>1 DEF Aligned
    <3> QED BY <3>1, <3>2
  <2> QED BY <1>2, <2>1, <2>3, <2>4, <2>5, HostAligned
          DEF ImplementationNext, cpu6502_tick, MicroStep
<1> QED BY <1>1, <1>2

\* The CPU starts between two instructions.
LEMMA InitAligned ==
  ASSUME cpu6502_init, boundary = Boundary
  PROVE  Aligned
<1>1. IInv /\ op.def = NULL
  BY InitTyped DEF cpu6502_init, ZeroOp
<1>2. op.def \notin Opcode
  BY <1>1 DEF Opcode, NULL
<1>3. BoundaryTyped
  BY <1>1 DEF BoundaryTyped, Boundary, IInv, TypeOK
<1> QED BY <1>2, <1>3 DEF Aligned

\* The invariants of the CPU and its place in the instruction.
LEMMA ImplementationInvariant ==
  ImplementationSpec => [](IInv /\ AddressesAgree /\ Aligned)
<1>1. ImplementationNext => Next
  BY DEF ImplementationNext, Next
<1>2. [ImplementationNext]_<<vars, boundary>> => [Next]_vars
  BY <1>1 DEF vars
<1>3. ImplementationSpec => Spec
  BY <1>2, PTL DEF ImplementationSpec, Spec
<1>4. cpu6502_init /\ boundary = Boundary => Aligned
  BY InitAligned
<1>5. /\ IInv /\ IInv' /\ AddressesAgree /\ Aligned
      /\ [ImplementationNext]_<<vars, boundary>>
      => Aligned'
  BY StepAligned
<1> QED BY <1>3, <1>4, <1>5, Invariant, AddressCopiesAgree, PTL
        DEF ImplementationSpec

-----------------------------------------------------------------------------
(* The accesses of an instruction *)

\* A tick that computes the address does not end the instruction.
LEMMA AddressTickGoesOn ==
  ASSUME IInv, ~jammed, op.def \in Opcode, ~reset_requested, MicroStep,
         NEW kind \in AddressKinds, Executes(kind)
  PROVE  op'.def # NULL
<1>1. ASSUME NEW k, Executes(k)
      PROVE  k = kind
  BY <1>1, OneKind
<1>2. AddressStep
  BY <1>1, StepKinds DEF MicroStep, AddressKinds, StackKinds, InstructionKinds
<1>3. Selected = op /\ TypeOK
  BY NowCounted DEF IInv
<1>4. Now.def = op.def
  BY <1>3, NowTyped
<1>5. op.def # NULL
  BY DEF Opcode, NULL
<1> QED BY <1>2, <1>3, <1>4, <1>5, AddressStepKeeps DEF Keeps

\* The tick of an instruction with its operand in memory.
LEMMA AccessesOfTick ==
  ASSUME IInv, AddressesAgree, Aligned, ~jammed, op.def \in Opcode,
         ~reset_requested,
         MicroStep, NEW mode \in InstructionSet!MemoryModes,
         mode = InstructionSet!Mode(op.def)
  PROVE  AccessesAt(InstructionSet!Effective(mode))
<1>1. CASE op.cycle < AddressTicks(mode)
  <2>1. AddressTickLeaves(mode)
    BY <1>1, OperandPlace, AddressTick DEF Aligned, AddressTickOf
  <2>2. op'.def # NULL
    BY <1>1, OperandPlace, AddressTickGoesOn DEF AddressTickOf
  <2> QED BY <2>1, <2>2 DEF AddressTickLeaves, ReadOnly, AccessesAt
<1>2. CASE op.cycle >= AddressTicks(mode)
  BY <1>2, OperandPlace, OperandTick
<1>3. op.cycle < AddressTicks(mode) \/ op.cycle >= AddressTicks(mode)
  BY OperandPlace
<1> QED BY <1>1, <1>2, <1>3

\* No instruction writes anywhere but at the effective address of its operand,
\* nor ends with an access elsewhere, for any memory and any requests,
\* whichever copy of the address its micro-operations use.
THEOREM OperandAddressed == ImplementationSpec => AccessesAtEffectiveAddress
<1> DEFINE mode == InstructionSet!Mode(op.def)
           OneStep ==
             op.def \in Opcode /\ mode \in InstructionSet!MemoryModes =>
               \A i \in DOMAIN bus' :
                 bus'[i].access = "write" \/ Finishes =>
                   bus'[i].addr = InstructionSet!Effective(mode)
<1>1. /\ IInv /\ AddressesAgree /\ Aligned
      /\ [ImplementationNext]_<<vars, boundary>>
      => [OneStep]_<<vars, boundary>>
  <2> SUFFICES ASSUME IInv, AddressesAgree, Aligned, ImplementationNext,
                      op.def \in Opcode, mode \in InstructionSet!MemoryModes,
                      NEW i \in DOMAIN bus',
                      bus'[i].access = "write" \/ Finishes
               PROVE  bus'[i].addr = InstructionSet!Effective(mode)
    OBVIOUS
  <2>1. bus' # <<>>
    OBVIOUS
  <2>2. /\ ~kil_imp /\ ~TickJammed /\ ~cpu6502_reset /\ ~cpu6502_nmi
        /\ ~cpu6502_set_pc
    BY <2>1
       DEF kil_imp, NoAccess, TickJammed, cpu6502_reset, cpu6502_nmi,
           cpu6502_set_pc
  <2>3. ~Fetch
    BY DEF Fetch, Selected, Opcode, NULL, reset_sequence, nmi_sequence, NmiTaken
  <2>4. MicroStep /\ UNCHANGED jammed
    BY <2>2, <2>3 DEF ImplementationNext, cpu6502_tick, MicroStep
  <2>5. ~reset_requested
    BY <2>1, <2>4, ResetStarts DEF NoAccess
  <2>6. ~jammed
    BY <2>4, StepKinds DEF MicroStep, Executes
  <2> QED BY <2>4, <2>5, <2>6, AccessesOfTick DEF AccessesAt, Finishes
<1> QED BY <1>1, ImplementationInvariant, PTL
        DEF ImplementationSpec, AccessesAtEffectiveAddress

-----------------------------------------------------------------------------
(* Cycles *)

\* The cycles of an instruction with its operand in memory.
LEMMA MemoryCycles ==
  ASSUME NEW opcode, NEW mode \in InstructionSet!MemoryModes, NEW f,
         mode = InstructionSet!Mode(opcode),
         f = InstructionSet!Operation(opcode),
         f \in MaybeFns \cup StoreFns \cup ModifyFns,
         f = "tas" => mode = "absY"
  PROVE  CyclesOf(opcode) =
           AddressTicks(mode) + OperandTicks(mode, f) + 1
             + (IF f \in MaybeFns /\ mode \in InstructionSet!IndexedModes
                   /\ ~InstructionSet!Crosses(mode)
                THEN -1 ELSE 0)
<1> USE DEF InstructionSet!IndexedModes, InstructionSet!ZeroPageModes,
            InstructionSet!MemoryModes
<1> DEFINE indexed == mode \in InstructionSet!IndexedModes
<1>1. f \notin {"brk", "jsr", "rti", "rts", "plp", "pla", "php", "pha"}
  BY DEF MaybeFns, ReadFns, StoreFns, ModifyFns
<1>2. CASE f \in ReadFns
  <2>1. f \in InstructionSet!ReadFns /\ f \notin InstructionSet!StoreFns \cup {"tas"}
        /\ f \notin InstructionSet!ModifyFns /\ f \in MaybeFns
        /\ f \notin ModifyFns
    BY <1>2 DEF MaybeFns, ReadFns, ModifyFns, InstructionSet!ReadFns,
       InstructionSet!StoreFns, InstructionSet!ModifyFns
  <2>2. CASE InstructionSet!Crosses(mode)
    <3>1. indexed
      BY <2>2 DEF InstructionSet!Crosses
    <3> QED BY <1>1, <2>1, <2>2, <3>1
               DEF CyclesOf, InstructionSet!Cycles, AddressTicks, OperandTicks
  <2>3. CASE ~InstructionSet!Crosses(mode)
    BY <1>1, <2>1, <2>3
       DEF CyclesOf, InstructionSet!Cycles, AddressTicks, OperandTicks
  <2> QED BY <2>2, <2>3
<1>3. CASE f \in StoreFns
  <2>1. f \notin InstructionSet!ReadFns /\ f \in InstructionSet!StoreFns /\ f # "tas"
        /\ f \notin InstructionSet!ModifyFns /\ f \notin MaybeFns
        /\ f \notin ModifyFns
    BY <1>3 DEF MaybeFns, ReadFns, StoreFns, ModifyFns, InstructionSet!ReadFns,
       InstructionSet!StoreFns, InstructionSet!ModifyFns
  <2> QED BY <1>1, <2>1
             DEF CyclesOf, InstructionSet!Cycles, AddressTicks, OperandTicks
<1>4. CASE f \in ModifyFns
  <2>1. f \notin InstructionSet!ReadFns /\ f \notin InstructionSet!StoreFns \cup {"tas"}
        /\ f \in InstructionSet!ModifyFns /\ f \notin MaybeFns /\ f # "tas"
    BY <1>4 DEF MaybeFns, ReadFns, ModifyFns, InstructionSet!ReadFns,
       InstructionSet!StoreFns, InstructionSet!ModifyFns
  <2> QED BY <1>1, <1>4, <2>1
             DEF CyclesOf, InstructionSet!Cycles, AddressTicks, OperandTicks
<1>5. CASE f = "tas"
  <2>1. f \notin InstructionSet!ReadFns /\ f \notin InstructionSet!ModifyFns
        /\ f \in MaybeFns /\ f \notin ModifyFns
    BY <1>5
       DEF MaybeFns, ModifyFns, InstructionSet!ReadFns, InstructionSet!ModifyFns
  <2> QED BY <1>1, <1>5, <2>1
             DEF CyclesOf, InstructionSet!Cycles, AddressTicks, OperandTicks
<1> QED BY <1>2, <1>3, <1>4, <1>5 DEF MaybeFns

\* A program of this many micro-operations, only the last of which ends it.
Straight(program, length) ==
  /\ Len(program) = length
  /\ \A i \in 1 .. length : program[i].kind \in EndingKinds => i = length

\* The programs that have no operand in memory and do not branch.
LEMMA StraightPrograms ==
  /\ \A f : /\ Straight(Immediate(f), 1) /\ Straight(Implied(f), 1)
            /\ Straight(Accumulator(f), 1)
  /\ Straight(PHP, 2) /\ Straight(PHA, 2) /\ Straight(PLP, 3)
  /\ Straight(PLA, 3)
  /\ Straight(BRK, 6) /\ Straight(JSR, 5) /\ Straight(RTI, 5)
  /\ Straight(RTS, 5)
  /\ Straight(JMP_abs, 2) /\ Straight(JMP_ind, 4) /\ Straight(KIL, 1)
<1> USE DEF Straight, EndingKinds, FinishingKinds, Do, Instruction
<1>1. \A f : /\ Straight(Immediate(f), 1) /\ Straight(Implied(f), 1)
             /\ Straight(Accumulator(f), 1)
  BY DEF Immediate, Implied, Accumulator
<1>2. Straight(PHP, 2) /\ Straight(PHA, 2)
  BY DEF PHP, PHA
<1>3. Straight(PLP, 3) /\ Straight(PLA, 3)
  BY DEF PLP, PLA
<1>4. Straight(BRK, 6)
  BY DEF BRK
<1>5. Straight(JSR, 5)
  BY DEF JSR
<1>6. Straight(RTI, 5)
  BY DEF RTI
<1>7. Straight(RTS, 5)
  BY DEF RTS
<1>8. Straight(JMP_abs, 2)
  BY DEF JMP_abs
<1>9. Straight(JMP_ind, 4)
  BY DEF JMP_ind
<1>10. Straight(KIL, 1)
  BY DEF KIL
<1> QED BY <1>1, <1>2, <1>3, <1>4, <1>5, <1>6, <1>7, <1>8, <1>9, <1>10

\* Such an instruction runs to the end of its program, and that takes the
\* cycles of the 6502.
LEMMA StraightCycles ==
  ASSUME NEW opcode, NEW mode, NEW f, NEW program, Decoded(mode, f, program),
         mode = InstructionSet!Mode(opcode),
         f = InstructionSet!Operation(opcode),
         mode \notin InstructionSet!MemoryModes \cup {"rel"}
  PROVE  CyclesOf(opcode) \in Int /\ Straight(program, CyclesOf(opcode) - 1)
<1> DEFINE Pushing == {"php", "pha"}
           Pulling == {"plp", "pla"}
           Calling == {"jsr", "rti", "rts"}
<1>1. mode \in {"imm", "none", "control", "jump", "jumpInd", "jam"}
  BY DEF Decoded, ReadProgram, StoreProgram, ModifyProgram, OtherProgram,
     InstructionSet!IndexedModes, InstructionSet!ZeroPageModes,
     InstructionSet!MemoryModes
<1>2. /\ f = "brk" /\ mode = "control" => CyclesOf(opcode) = 7
      /\ f \in Calling /\ mode = "control" => CyclesOf(opcode) = 6
      /\ f \in Pulling /\ mode = "none" => CyclesOf(opcode) = 4
      /\ f \in Pushing /\ mode = "none" => CyclesOf(opcode) = 3
      /\ f = "jmp" /\ mode = "jump" => CyclesOf(opcode) = 3
      /\ f = "jmp" /\ mode = "jumpInd" => CyclesOf(opcode) = 5
      /\ mode \in {"imm", "none", "jam"} /\ f # "tas"
         /\ f \notin {"brk"} \cup Calling \cup Pulling \cup Pushing =>
           CyclesOf(opcode) = 2
  BY <1>1 DEF CyclesOf, InstructionSet!Cycles
<1>3. CASE mode = "imm"
  <2>1. f \in ReadFns /\ program = Immediate(f)
    BY <1>3 DEF Decoded, ReadProgram, StoreProgram, ModifyProgram, OtherProgram
  <2>2. CyclesOf(opcode) = 2
    BY <1>2, <1>3, <2>1 DEF ReadFns
  <2> QED BY <2>1, <2>2, StraightPrograms
<1>4. CASE mode = "none"
  <2>1. OtherProgram(mode, f, program)
    BY <1>4 DEF Decoded, ReadProgram, StoreProgram, ModifyProgram
  <2>2. CASE \/ f \in AccumulatorFns /\ program = Accumulator(f)
             \/ f \in ImpliedFns /\ program = Implied(f)
    <3>1. CyclesOf(opcode) = 2
      BY <1>2, <1>4, <2>2 DEF AccumulatorFns, ImpliedFns
    <3> QED BY <2>2, <3>1, StraightPrograms
  <2>3. CASE f \in Pushing /\ program \in {PHP, PHA}
    <3>1. CyclesOf(opcode) = 3
      BY <1>2, <1>4, <2>3
    <3> QED BY <2>3, <3>1, StraightPrograms
  <2>4. CASE f \in Pulling /\ program \in {PLP, PLA}
    <3>1. CyclesOf(opcode) = 4
      BY <1>2, <1>4, <2>4
    <3> QED BY <2>4, <3>1, StraightPrograms
  <2> QED BY <1>4, <2>1, <2>2, <2>3, <2>4 DEF OtherProgram
<1>5. CASE mode = "control"
  <2>1. OtherProgram(mode, f, program)
    BY <1>5 DEF Decoded, ReadProgram, StoreProgram, ModifyProgram
  <2>2. CASE f = "brk" /\ program = BRK
    <3>1. CyclesOf(opcode) = 7
      BY <1>2, <1>5, <2>2
    <3> QED BY <2>2, <3>1, StraightPrograms
  <2>3. CASE f \in Calling /\ program \in {JSR, RTI, RTS}
    <3>1. CyclesOf(opcode) = 6
      BY <1>2, <1>5, <2>3
    <3> QED BY <2>3, <3>1, StraightPrograms
  <2> QED BY <1>5, <2>1, <2>2, <2>3 DEF OtherProgram
<1>6. CASE mode \in {"jump", "jumpInd", "jam"}
  <2>1. OtherProgram(mode, f, program)
    BY <1>6 DEF Decoded, ReadProgram, StoreProgram, ModifyProgram
  <2>2. \/ program = JMP_abs /\ CyclesOf(opcode) = 3
        \/ program = JMP_ind /\ CyclesOf(opcode) = 5
        \/ program = KIL /\ CyclesOf(opcode) = 2
    BY <1>2, <1>6, <2>1 DEF OtherProgram
  <2> QED BY <2>2, StraightPrograms
<1> QED BY <1>1, <1>3, <1>4, <1>5, <1>6

\* A branch.
LEMMA BranchCycles ==
  ASSUME NEW opcode \in Opcode, InstructionSet!Mode(opcode) = "rel", NEW f,
         f = InstructionSet!Operation(opcode)
  PROVE  CyclesOf(opcode) =
           IF ~InstructionSet!Takes(f) THEN 2
           ELSE IF SamePage(U16(Start.PC + 2), InstructionSet!BranchTarget)
           THEN 3 ELSE 4
<1>1. f \in BranchFns
  BY BranchProgram
<1>2. CyclesOf(opcode) = InstructionSet!Cycles(opcode)
  BY <1>1 DEF CyclesOf, BranchFns
<1>3. InstructionSet!SamePage(InstructionSet!U16(boundary.cpu.PC + 2),
                              InstructionSet!BranchTarget)
      <=> SamePage(U16(Start.PC + 2), InstructionSet!BranchTarget)
  BY SameWords DEF Start
<1> HIDE DEF BranchFns
<1>4. f \notin {"brk", "jsr", "rti", "rts", "plp", "pla", "php", "pha"}
  BY <1>1 DEF BranchFns
<1> QED BY <1>2, <1>3, <1>4
           DEF InstructionSet!Cycles, InstructionSet!MemoryModes,
           InstructionSet!ZeroPageModes, InstructionSet!IndexedModes

\* The step that ends an instruction of the program.
LEMMA FinishingStep ==
  ASSUME IInv, ImplementationNext, Finishes
  PROVE  /\ MicroStep /\ ~jammed /\ ~reset_requested
         /\ \E kind \in EndingKinds : Executes(kind)
<1>1. op.def \in Opcode /\ op.def # NULL /\ op'.def = NULL
  BY DEF Finishes, Opcode, NULL
<1>2. /\ ~TickJammed /\ ~cpu6502_reset /\ ~cpu6502_nmi /\ ~cpu6502_set_pc
  BY <1>1 DEF TickJammed, cpu6502_reset, cpu6502_nmi, cpu6502_set_pc
<1>3. ~Fetch
  BY <1>1 DEF Fetch, Selected, NULL, reset_sequence, nmi_sequence, NmiTaken
<1>4. ~kil_imp
  <2>1. kil_imp => op'.def = Selected.def
    BY NowTyped DEF kil_imp, Continue, IInv
  <2>2. kil_imp => Selected.def # NULL
    BY DEF kil_imp, Executes
  <2> QED BY <1>1, <2>1, <2>2
<1>5. MicroStep
  BY <1>2, <1>3, <1>4 DEF ImplementationNext, cpu6502_tick, MicroStep
<1>6. ~reset_requested
  BY <1>1, <1>5, ResetStarts, OpDefsDistinct
<1>7. ~jammed
  BY <1>5, StepKinds DEF MicroStep, Executes
<1>8. Now.def # NULL
  <2>1. Selected = op
    BY <1>1, <1>6, <1>7, NowCounted
  <2> QED BY <1>1, <2>1, NowTyped DEF IInv
<1>9. Ends
  BY <1>1, <1>5, <1>8, StepKeepsOrEnds DEF Keeps, MicroStep, IInv
<1> QED BY <1>5, <1>6, <1>7, <1>9 DEF Ends

\* An instruction with its operand in memory takes its cycles.
LEMMA MemoryInTime ==
  ASSUME IInv, AddressesAgree, Aligned, ImplementationNext, Finishes,
         NEW mode \in InstructionSet!MemoryModes,
         mode = InstructionSet!Mode(op.def)
  PROVE  op.cycle + 2 = CyclesOf(op.def)
<1> DEFINE f == InstructionSet!Operation(op.def)
           program == micro_ops(op.def)
           t == AddressTicks(mode)
           n == op.cycle
           indexed == mode \in InstructionSet!IndexedModes
<1>1. /\ MicroStep /\ ~jammed /\ ~reset_requested
      /\ op.def \in Opcode /\ op'.def = NULL
  BY FinishingStep DEF Finishes
<1>2. PICK kind \in EndingKinds : Executes(kind)
  BY FinishingStep
<1>3. /\ OnMemory(mode, f, program) /\ OnOperand(mode)
      /\ t \in 1 .. 4 /\ n \in 0 .. 6
      /\ n < t => AddressTickOf(mode) /\ AddressProgram(mode)[n + 1] \in AddressKinds
      /\ n >= t => /\ Complete(mode, op) /\ n + 1 \in t + 1 .. Len(program)
                   /\ Executes(program[n + 1].kind)
                   /\ program[n + 1].kind \in OperandKinds
  BY <1>1, OperandPlace
<1>4. n >= t
  <2>1. ~(n < t)
    BY <1>1, <1>3, AddressTickGoesOn DEF AddressTickOf
  <2> QED BY <1>3, <2>1
<1>5. program[n + 1].kind = kind
  BY <1>2, <1>3, <1>4, OneKind
<1>6. Decoded(mode, f, program)
  BY <1>1, ProgramsDecoded DEF Programmed
<1>7. f = "tas" => mode = "absY"
  BY <1>6 DEF Decoded, ReadProgram, StoreProgram, ModifyProgram, OtherProgram,
     ReadFns, StoreFns, ModifyFns, InstructionSet!MemoryModes,
     InstructionSet!IndexedModes, InstructionSet!ZeroPageModes
<1>8. CyclesOf(op.def) =
        t + OperandTicks(mode, f) + 1
          + (IF f \in MaybeFns /\ indexed /\ ~InstructionSet!Crosses(mode)
             THEN -1 ELSE 0)
  BY <1>3, <1>7, MemoryCycles DEF OnMemory
<1>9. f \in MaybeFns /\ indexed => OperandTicks(mode, f) = 2
  BY DEF OperandTicks, MaybeFns, ReadFns, ModifyFns
<1>10. CASE kind \in MaybeKinds
  <2>1. n + 1 = t + 1 /\ indexed /\ f \in MaybeFns
    BY <1>3, <1>4, <1>5, <1>10 DEF OnMemory
  <2>2. ~InstructionSet!Crosses(mode)
    <3>1. ~op.page_crossed
      BY <1>1, <1>2, <1>3, <1>4, <1>5, <1>10, OperandTick
    <3> QED BY <1>3, <1>4, <3>1 DEF Complete
  <2> QED BY <1>3, <1>8, <1>9, <2>1, <2>2
<1>11. CASE kind \notin MaybeKinds
  <2>1. kind \in FinishingKinds
    BY <1>3, <1>4, <1>5, <1>11 DEF EndingKinds, MaybeKinds, OperandKinds
  <2>2. n + 1 = t + OperandTicks(mode, f)
    BY <1>3, <1>4, <1>5, <2>1 DEF OnMemory
  <2>3. f \in MaybeFns /\ indexed => InstructionSet!Crosses(mode)
    <3> SUFFICES ASSUME f \in MaybeFns, indexed
                 PROVE InstructionSet!Crosses(mode)
      OBVIOUS
    <3>1. n = t + 1
      BY <1>3, <1>9, <2>2
    <3>2. n \in t + 1 .. Len(program)
      BY <1>3, <1>9, <2>2, <3>1 DEF OnMemory
    <3>3. program[n].kind \in MaybeKinds
      BY <1>3, <3>1, <3>2 DEF OnMemory
    <3>4. op.page_crossed
      BY <1>3, <3>1, <3>3 DEF OnOperand
    <3> QED BY <1>3, <1>4, <3>4 DEF Complete
  <2>4. OperandTicks(mode, f) \in Int
    BY DEF OperandTicks
  <2> QED BY <1>3, <1>8, <2>2, <2>3, <2>4
<1> QED BY <1>10, <1>11

\* A branch takes its cycles.
LEMMA BranchInTime ==
  ASSUME IInv, Aligned, ImplementationNext, Finishes,
         InstructionSet!Mode(op.def) = "rel"
  PROVE  op.cycle + 2 = CyclesOf(op.def)
<1> PICK f : f = InstructionSet!Operation(op.def)
  OBVIOUS
<1>1. /\ MicroStep /\ ~jammed /\ ~reset_requested
      /\ op.def \in Opcode /\ op'.def = NULL
  BY FinishingStep DEF Finishes
<1>2. f \in BranchFns /\ micro_ops(op.def) = Branch(f) /\ Branching(f, op.cycle)
  BY <1>1, BranchProgram DEF Aligned, OnTrack
<1>3. /\ op.cycle \in 0 .. 2
      /\ op.cycle = 0 => ~InstructionSet!Takes(f)
      /\ op.cycle = 1 => SamePage(U16(Start.PC + 2), InstructionSet!BranchTarget)
  BY <1>1, <1>2, BranchTick DEF Aligned
<1>4. /\ op.cycle > 0 => InstructionSet!Takes(f)
      /\ op.cycle = 2 => ~SamePage(U16(Start.PC + 2), InstructionSet!BranchTarget)
  BY <1>2 DEF Branching
<1> QED BY <1>1, <1>3, <1>4, BranchCycles

\* Any other instruction takes its cycles.
LEMMA StraightInTime ==
  ASSUME IInv, ImplementationNext, Finishes,
         InstructionSet!Mode(op.def) \notin InstructionSet!MemoryModes \cup {"rel"}
  PROVE  op.cycle + 2 = CyclesOf(op.def)
<1> DEFINE length == CyclesOf(op.def) - 1
<1>1. /\ MicroStep /\ ~jammed /\ ~reset_requested /\ op.def \in Opcode
  BY FinishingStep DEF Finishes
<1>2. PICK kind \in EndingKinds : Executes(kind)
  BY FinishingStep
<1>3. CyclesOf(op.def) \in Int /\ Straight(micro_ops(op.def), length)
  BY <1>1, ProgramsDecoded, StraightCycles DEF Programmed
<1>4. op.cycle \in 0 .. 6 /\ op.cycle + 1 \in 1 .. length
  BY <1>1, <1>3, NowCounted DEF Straight
<1>5. micro_ops(op.def)[op.cycle + 1].kind = kind
  BY <1>1, <1>2, NowCounted, OneKind
<1>6. op.cycle + 1 = length
  BY <1>3, <1>4, <1>5 DEF Straight
<1> QED BY <1>3, <1>4, <1>6

\* Any instruction takes its cycles.
LEMMA FinishesInTime ==
  ASSUME IInv, AddressesAgree, Aligned, ImplementationNext, Finishes
  PROVE  op.cycle + 2 = CyclesOf(op.def)
BY MemoryInTime, BranchInTime, StraightInTime

\* Every opcode takes the cycles that the instruction set gives it, but for TAS
\* without a carry, which takes four instead of five: whatever its operand, the
\* contents of memory and the requests.
THEOREM CyclesKept == ImplementationSpec => CyclesButForTas
<1>1. /\ IInv /\ AddressesAgree /\ Aligned
      /\ [ImplementationNext]_<<vars, boundary>>
      => [Finishes => op.cycle + 2 = CyclesOf(op.def)]_<<vars, boundary>>
  BY FinishesInTime
<1> QED BY <1>1, ImplementationInvariant, PTL
        DEF ImplementationSpec, CyclesButForTas

=============================================================================
