------------------------------ MODULE OpDefs ------------------------------
(***************************************************************************)
(* The micro-programs of src/micro_ops.c: the table instruction_defs with  *)
(* one OpDef per opcode, and the two sequences that no opcode selects,     *)
(* reset_sequence and nmi_sequence.                                        *)
(*                                                                         *)
(* A micro-operation is a record.  Its kind names the C function, or, for  *)
(* the functions that differ only in the instruction they belong to, the   *)
(* suffix they share; fn is then the instruction: lda_imm is the record    *)
(* [kind |-> "imm", fn |-> "lda"].  An instruction is written as its       *)
(* addressing mode applied to its name; the mode is the part of the        *)
(* micro-program that computes the address.                                *)
(***************************************************************************)
EXTENDS Integers, Sequences

\* An OpDef* is a number: an opcode, one of the two sequences, or NULL.
Opcode         == 0 .. 255
reset_sequence == 256
nmi_sequence   == 257
NULL           == 258

OpDef == Opcode \cup {reset_sequence, nmi_sequence}

Do(function)         == [kind |-> function, fn |-> "none"]
Instruction(kind, f) == [kind |-> kind, fn |-> f]

-----------------------------------------------------------------------------
(* Instructions without a memory address *)

Immediate(f)   == <<Instruction("imm", f)>>
Implied(f)     == <<Instruction("imp", f)>>
Accumulator(f) == <<Instruction("acc", f)>>
Branch(f)      == <<Instruction("fetch_offset", f),
                    Do("branch_op"), Do("branch_page_fix")>>

-----------------------------------------------------------------------------
(* Instructions that read their operand from memory.  With an index that   *)
(* may carry into the high byte of the address the operand is read twice,  *)
(* unless the first read was already at the right address.                 *)

Operand(f)        == Instruction("addr", f)
OperandOrRetry(f) == Instruction("indexed_read_maybe_finish", f)
OperandRetried(f) == Instruction("indexed_reread_fixed", f)

ReadZp(f)   == <<Do("read_pc_addr_low"), Operand(f)>>
ReadZpX(f)  == <<Do("read_pc_addr_low"), Do("read_pc_addr_low_add_x"), Operand(f)>>
ReadZpY(f)  == <<Do("read_pc_addr_low"), Do("read_pc_addr_low_add_y"), Operand(f)>>
ReadAbs(f)  == <<Do("read_pc_addr_low"), Do("read_pc_addr_high"), Operand(f)>>
ReadAbsX(f) == <<Do("read_pc_addr_low"), Do("read_pc_addr_high_add_x"),
                 OperandOrRetry(f), OperandRetried(f)>>
ReadAbsY(f) == <<Do("read_pc_addr_low"), Do("read_pc_addr_high_add_y"),
                 OperandOrRetry(f), OperandRetried(f)>>
ReadIndX(f) == <<Do("fetch_ptr"), Do("read_ptr_add_x"), Do("read_ptr_addr_low"),
                 Do("read_ptr_addr_high"), Operand(f)>>
ReadIndY(f) == <<Do("fetch_ptr"), Do("read_ptr_addr_low"),
                 Do("read_ptr_addr_high_add_y"),
                 OperandOrRetry(f), OperandRetried(f)>>

\* The abs,X forms of NOP retry with nop_addr.
NopAbsX == <<Do("read_pc_addr_low"), Do("read_pc_addr_high_add_x"),
             OperandOrRetry("nop"), Operand("nop")>>

-----------------------------------------------------------------------------
(* Instructions that store a register.  With such an index there is a read *)
(* at the unfixed address first, whatever the carry.                       *)

Store(f) == Instruction("store", f)

StoreZp(f)   == <<Do("read_pc_addr_low"), Store(f)>>
StoreZpX(f)  == <<Do("read_pc_addr_low"), Do("read_pc_addr_low_add_x"), Store(f)>>
StoreZpY(f)  == <<Do("read_pc_addr_low"), Do("read_pc_addr_low_add_y"), Store(f)>>
StoreAbs(f)  == <<Do("read_pc_addr_low"), Do("read_pc_addr_high"), Store(f)>>
StoreAbsX(f) == <<Do("read_pc_addr_low"), Do("read_pc_addr_high_add_x"),
                  Do("dummy_temp_addr_read"), Store(f)>>
StoreAbsY(f) == <<Do("read_pc_addr_low"), Do("read_pc_addr_high_add_y"),
                  Do("dummy_temp_addr_read"), Store(f)>>
StoreIndX(f) == <<Do("fetch_ptr"), Do("read_ptr_add_x"), Do("read_ptr_addr_low"),
                  Do("read_ptr_addr_high"), Store(f)>>
StoreIndY(f) == <<Do("fetch_ptr"), Do("read_ptr_addr_low"),
                  Do("read_ptr_addr_high_add_y"),
                  Do("dummy_temp_addr_read"), Store(f)>>

TAS == <<Do("read_pc_addr_low"), Do("read_pc_addr_high_add_y"),
         Do("tas_indexed_read_maybe_finish"), Do("tas_indexed_rewrite_fixed")>>

-----------------------------------------------------------------------------
(* Read-modify-write instructions *)

Compute(f) == Instruction("dummy_write_and_compute", f)

ModifyZp(f)   == <<Do("read_pc_addr_low"),
                   Do("read_addr_data"), Compute(f), Do("write_data_and_finish")>>
ModifyZpX(f)  == <<Do("read_pc_addr_low"), Do("read_pc_addr_low_add_x"),
                   Do("read_addr_data"), Compute(f), Do("write_data_and_finish")>>
ModifyAbs(f)  == <<Do("read_pc_addr_low"), Do("read_pc_addr_high"),
                   Do("read_addr_data"), Compute(f), Do("write_data_and_finish")>>
ModifyAbsX(f) == <<Do("read_pc_addr_low"), Do("read_pc_addr_high_add_x"),
                   Do("dummy_temp_addr_read"),
                   Do("read_addr_data"), Compute(f), Do("write_data_and_finish")>>
ModifyAbsY(f) == <<Do("read_pc_addr_low"), Do("read_pc_addr_high_add_y"),
                   Do("dummy_temp_addr_read"),
                   Do("read_addr_data"), Compute(f), Do("write_data_and_finish")>>
ModifyIndX(f) == <<Do("fetch_ptr"), Do("read_ptr_add_x"), Do("read_ptr_addr_low"),
                   Do("read_ptr_addr_high"),
                   Do("read_addr_data"), Compute(f), Do("write_data_and_finish")>>
ModifyIndY(f) == <<Do("fetch_ptr"), Do("read_ptr_addr_low"),
                   Do("read_ptr_addr_high_add_y"), Do("dummy_temp_addr_read"),
                   Do("read_addr_data"), Compute(f), Do("write_data_and_finish")>>

-----------------------------------------------------------------------------
(* Control transfers, the stack, and the instruction that stops the CPU *)

BRK == <<Do("dummy_pc_read_and_inc"), Do("push_pc_high"), Do("push_pc_low"),
         Do("push_p_with_break"), Do("read_irq_low"), Do("read_irq_high_finish")>>
RTI == <<Do("dummy_pc_read_and_inc"), Do("inc_sp"), Do("pull_p"),
         Do("pull_pc_low"), Do("pull_pc_high_finish")>>
JSR == <<Do("read_pc_addr_low"), Do("dummy_stack_read"), Do("push_pc_high"),
         Do("push_pc_low"), Do("jsr_abs")>>
RTS == <<Do("dummy_pc_read"), Do("inc_sp"), Do("pull_pc_low"),
         Do("pull_pc_high_no_inc"), Do("rts_finish")>>
PHP == <<Do("dummy_pc_read"), Do("php_imp")>>
PHA == <<Do("dummy_pc_read"), Do("pha_imp")>>
PLP == <<Do("dummy_pc_read"), Do("inc_sp"), Do("plp_imp")>>
PLA == <<Do("dummy_pc_read"), Do("inc_sp"), Do("pla_imp")>>
JMP_abs == <<Do("read_pc_addr_low"), Do("jmp_abs_finish")>>
JMP_ind == <<Do("read_pc_addr_low"), Do("read_pc_addr_high"),
             Do("fetch_pointer_addr_low"), Do("jmp_ind")>>
KIL == <<Do("kil_imp")>>

ResetSequence ==
  <<Do("dummy"), Do("dummy"), Do("dec_sp"), Do("dec_sp"), Do("dec_sp"),
    Do("read_reset_low"), Do("read_reset_high_finish")>>
NmiSequence ==
  <<Do("dummy_pc_read"), Do("push_pc_high"), Do("push_pc_low"),
    Do("push_p_without_break"), Do("read_nmi_low"), Do("read_nmi_high_finish")>>

-----------------------------------------------------------------------------

\* The micro-operations that use op.addr where others of their instruction
\* use full_addr.
UsesAddr(m) ==
  \/ m.kind \in {"dummy_write_and_compute", "indexed_read_maybe_finish",
                  "indexed_reread_fixed", "tas_indexed_read_maybe_finish",
                  "tas_indexed_rewrite_fixed"}
  \/ m.kind = "store" /\ m.fn \in {"shx", "shy"}

-----------------------------------------------------------------------------
(* instruction_defs, one row for each high digit of the opcode *)

Row_0 ==
  <<BRK, ReadIndX("ora"), KIL, ModifyIndX("slo"),
    ReadZp("nop"), ReadZp("ora"), ModifyZp("asl"), ModifyZp("slo"),
    PHP, Immediate("ora"), Accumulator("asl"), Immediate("anc"),
    ReadAbs("nop"), ReadAbs("ora"), ModifyAbs("asl"), ModifyAbs("slo")>>

Row_1 ==
  <<Branch("bpl"), ReadIndY("ora"), KIL, ModifyIndY("slo"),
    ReadZpX("nop"), ReadZpX("ora"), ModifyZpX("asl"), ModifyZpX("slo"),
    Implied("clc"), ReadAbsY("ora"), Implied("nop"), ModifyAbsY("slo"),
    NopAbsX, ReadAbsX("ora"), ModifyAbsX("asl"), ModifyAbsX("slo")>>

Row_2 ==
  <<JSR, ReadIndX("and"), KIL, ModifyIndX("rla"),
    ReadZp("bit"), ReadZp("and"), ModifyZp("rol"), ModifyZp("rla"),
    PLP, Immediate("and"), Accumulator("rol"), Immediate("anc"),
    ReadAbs("bit"), ReadAbs("and"), ModifyAbs("rol"), ModifyAbs("rla")>>

Row_3 ==
  <<Branch("bmi"), ReadIndY("and"), KIL, ModifyIndY("rla"),
    ReadZpX("nop"), ReadZpX("and"), ModifyZpX("rol"), ModifyZpX("rla"),
    Implied("sec"), ReadAbsY("and"), Implied("nop"), ModifyAbsY("rla"),
    NopAbsX, ReadAbsX("and"), ModifyAbsX("rol"), ModifyAbsX("rla")>>

Row_4 ==
  <<RTI, ReadIndX("eor"), KIL, ModifyIndX("sre"),
    ReadZp("nop"), ReadZp("eor"), ModifyZp("lsr"), ModifyZp("sre"),
    PHA, Immediate("eor"), Accumulator("lsr"), Immediate("alr"),
    JMP_abs, ReadAbs("eor"), ModifyAbs("lsr"), ModifyAbs("sre")>>

Row_5 ==
  <<Branch("bvc"), ReadIndY("eor"), KIL, ModifyIndY("sre"),
    ReadZpX("nop"), ReadZpX("eor"), ModifyZpX("lsr"), ModifyZpX("sre"),
    Implied("cli"), ReadAbsY("eor"), Implied("nop"), ModifyAbsY("sre"),
    NopAbsX, ReadAbsX("eor"), ModifyAbsX("lsr"), ModifyAbsX("sre")>>

Row_6 ==
  <<RTS, ReadIndX("adc"), KIL, ModifyIndX("rra"),
    ReadZp("nop"), ReadZp("adc"), ModifyZp("ror"), ModifyZp("rra"),
    PLA, Immediate("adc"), Accumulator("ror"), Immediate("arr"),
    JMP_ind, ReadAbs("adc"), ModifyAbs("ror"), ModifyAbs("rra")>>

Row_7 ==
  <<Branch("bvs"), ReadIndY("adc"), KIL, ModifyIndY("rra"),
    ReadZpX("nop"), ReadZpX("adc"), ModifyZpX("ror"), ModifyZpX("rra"),
    Implied("sei"), ReadAbsY("adc"), Implied("nop"), ModifyAbsY("rra"),
    NopAbsX, ReadAbsX("adc"), ModifyAbsX("ror"), ModifyAbsX("rra")>>

Row_8 ==
  <<Immediate("nop"), StoreIndX("sta"), Immediate("nop"), StoreIndX("sax"),
    StoreZp("sty"), StoreZp("sta"), StoreZp("stx"), StoreZp("sax"),
    Implied("dey"), Immediate("nop"), Implied("txa"), Immediate("xaa"),
    StoreAbs("sty"), StoreAbs("sta"), StoreAbs("stx"), StoreAbs("sax")>>

Row_9 ==
  <<Branch("bcc"), StoreIndY("sta"), KIL, StoreIndY("sha"),
    StoreZpX("sty"), StoreZpX("sta"), StoreZpY("stx"), StoreZpY("sax"),
    Implied("tya"), StoreAbsY("sta"), Implied("txs"), TAS,
    StoreAbsX("shy"), StoreAbsX("sta"), StoreAbsY("shx"), StoreAbsY("sha")>>

Row_A ==
  <<Immediate("ldy"), ReadIndX("lda"), Immediate("ldx"), ReadIndX("lax"),
    ReadZp("ldy"), ReadZp("lda"), ReadZp("ldx"), ReadZp("lax"),
    Implied("tay"), Immediate("lda"), Implied("tax"), Immediate("lax_imm"),
    ReadAbs("ldy"), ReadAbs("lda"), ReadAbs("ldx"), ReadAbs("lax")>>

Row_B ==
  <<Branch("bcs"), ReadIndY("lda"), KIL, ReadIndY("lax"),
    ReadZpX("ldy"), ReadZpX("lda"), ReadZpY("ldx"), ReadZpY("lax"),
    Implied("clv"), ReadAbsY("lda"), Implied("tsx"), ReadAbsY("las"),
    ReadAbsX("ldy"), ReadAbsX("lda"), ReadAbsY("ldx"), ReadAbsY("lax")>>

Row_C ==
  <<Immediate("cpy"), ReadIndX("cmp"), Immediate("nop"), ModifyIndX("dcp"),
    ReadZp("cpy"), ReadZp("cmp"), ModifyZp("dec"), ModifyZp("dcp"),
    Implied("iny"), Immediate("cmp"), Implied("dex"), Immediate("axs"),
    ReadAbs("cpy"), ReadAbs("cmp"), ModifyAbs("dec"), ModifyAbs("dcp")>>

Row_D ==
  <<Branch("bne"), ReadIndY("cmp"), KIL, ModifyIndY("dcp"),
    ReadZpX("nop"), ReadZpX("cmp"), ModifyZpX("dec"), ModifyZpX("dcp"),
    Implied("cld"), ReadAbsY("cmp"), Implied("nop"), ModifyAbsY("dcp"),
    NopAbsX, ReadAbsX("cmp"), ModifyAbsX("dec"), ModifyAbsX("dcp")>>

Row_E ==
  <<Immediate("cpx"), ReadIndX("sbc"), Immediate("nop"), ModifyIndX("isc"),
    ReadZp("cpx"), ReadZp("sbc"), ModifyZp("inc"), ModifyZp("isc"),
    Implied("inx"), Immediate("sbc"), Implied("nop"), Immediate("sbc"),
    ReadAbs("cpx"), ReadAbs("sbc"), ModifyAbs("inc"), ModifyAbs("isc")>>

Row_F ==
  <<Branch("beq"), ReadIndY("sbc"), KIL, ModifyIndY("isc"),
    ReadZpX("nop"), ReadZpX("sbc"), ModifyZpX("inc"), ModifyZpX("isc"),
    Implied("sed"), ReadAbsY("sbc"), Implied("nop"), ModifyAbsY("isc"),
    NopAbsX, ReadAbsX("sbc"), ModifyAbsX("inc"), ModifyAbsX("isc")>>

-----------------------------------------------------------------------------

instruction_defs ==
  <<Row_0, Row_1, Row_2, Row_3, Row_4, Row_5, Row_6, Row_7,
    Row_8, Row_9, Row_A, Row_B, Row_C, Row_D, Row_E, Row_F>>

micro_ops(def) ==
  IF def = reset_sequence THEN ResetSequence
  ELSE IF def = nmi_sequence THEN NmiSequence
  ELSE instruction_defs[1 + def \div 16][1 + (def % 16)]

=============================================================================
