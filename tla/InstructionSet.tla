-------------------------- MODULE InstructionSet --------------------------
(***************************************************************************)
(* What the CPU promises, one instruction at a time: the instruction set   *)
(* of the NMOS 6502 as its opcode matrix lays it out.  An instruction, an  *)
(* NMI and a reset are single steps here; module Cpu6502 takes one step    *)
(* per clock cycle.                                                        *)
(*                                                                         *)
(* The addressing mode and the operation are decoded from the bits of the  *)
(* opcode, aaabbbcc, and not looked up in the table of micro-programs.     *)
(***************************************************************************)
EXTENDS Alu

CONSTANTS
  Ram,          \* addresses of memory
  Rom(_)        \* the byte at any other address

VARIABLES regs, memory, stopped

\* The byte at a when the memory is m, and m with a byte written.
Peek(m, a) == IF a \in Ram THEN m[a] ELSE Rom(a)
M(a)       == Peek(memory, a)

Write(m, a, value) == IF a \in Ram THEN [m EXCEPT ![a] = value] ELSE m

-----------------------------------------------------------------------------
(* Decoding *)

Aaa(opcode) == opcode \div 32
Bbb(opcode) == (opcode \div 4) % 8
Cc(opcode)  == opcode % 4

\* Columns 16, 17, 1E, 1F of rows 8 to B index with Y, for they load or store X.
IndexesX(opcode) == ~(Aaa(opcode) \in {4, 5} /\ Cc(opcode) \in {2, 3})

MemoryMode(opcode) ==
  CASE Bbb(opcode) = 0 -> "indX"
    [] Bbb(opcode) = 1 -> "zp"
    [] Bbb(opcode) = 2 -> "imm"
    [] Bbb(opcode) = 3 -> "abs"
    [] Bbb(opcode) = 4 -> "indY"
    [] Bbb(opcode) = 5 -> IF IndexesX(opcode) THEN "zpX" ELSE "zpY"
    [] Bbb(opcode) = 6 -> "absY"
    [] Bbb(opcode) = 7 -> IF IndexesX(opcode) THEN "absX" ELSE "absY"

Mode(opcode) ==
  IF Cc(opcode) \in {1, 3} THEN MemoryMode(opcode)
  ELSE CASE opcode \in {0, 32, 64, 96} -> "control"
         [] opcode = 76                -> "jump"
         [] opcode = 108               -> "jumpInd"
         [] Bbb(opcode) = 0 /\ Aaa(opcode) > 3 -> "imm"
         [] Bbb(opcode) = 0 /\ Aaa(opcode) < 4 /\ Cc(opcode) = 2 -> "jam"
         [] Bbb(opcode) = 4 /\ Cc(opcode) = 2  -> "jam"
         [] Bbb(opcode) = 4 /\ Cc(opcode) = 0  -> "rel"
         [] Bbb(opcode) \in {2, 6}     -> "none"
         [] OTHER                      -> MemoryMode(opcode)

Column01 == <<"ora", "and", "eor", "adc", "sta", "lda", "cmp", "sbc">>
Column11 == <<"slo", "rla", "sre", "rra", "sax", "lax", "dcp", "isc">>
Column10 == <<"asl", "rol", "lsr", "ror", "stx", "ldx", "dec", "inc">>
Column00 == <<"nop", "bit", "nop", "nop", "sty", "ldy", "cpy", "cpx">>
Imm11    == <<"anc", "anc", "alr", "arr", "xaa", "lax_imm", "axs", "sbc">>
Stack00  == <<"php", "plp", "pha", "pla", "dey", "tay", "iny", "inx">>
Flags00  == <<"clc", "sec", "cli", "sei", "tya", "clv", "cld", "sed">>
None10   == <<"asl", "rol", "lsr", "ror", "txa", "tax", "dex", "nop">>
Control  == <<"brk", "jsr", "rti", "rts">>
Branches == <<"bpl", "bmi", "bvc", "bvs", "bcc", "bcs", "bne", "beq">>

\* Opcodes that do not do what their column says.
Irregular ==
  [opcode \in {137, 147, 155, 159, 187, 154, 186, 156, 158} |->
     CASE opcode = 137           -> "nop"   \* 89: there is no STA #
       [] opcode \in {147, 159}  -> "sha"   \* 93, 9F
       [] opcode = 155           -> "tas"   \* 9B
       [] opcode = 187           -> "las"   \* BB
       [] opcode = 154           -> "txs"   \* 9A
       [] opcode = 186           -> "tsx"   \* BA
       [] opcode = 156           -> "shy"   \* 9C
       [] opcode = 158           -> "shx"]  \* 9E

Operation(opcode) ==
  LET row == Aaa(opcode) + 1
      col == Bbb(opcode)
  IN  IF opcode \in DOMAIN Irregular THEN Irregular[opcode]
      ELSE CASE Cc(opcode) = 1 -> Column01[row]
             [] Cc(opcode) = 3 -> IF col = 2 THEN Imm11[row] ELSE Column11[row]
             [] Cc(opcode) = 2 ->
                  CASE Mode(opcode) = "jam" -> "kil"
                    [] col = 2 -> None10[row]
                    [] col = 6 -> "nop"
                    [] Mode(opcode) = "imm" /\ row # 6 -> "nop"
                    [] OTHER -> Column10[row]
             [] Cc(opcode) = 0 ->
                  CASE Mode(opcode) = "control" -> Control[row]
                    [] Mode(opcode) \in {"jump", "jumpInd"} -> "jmp"
                    [] col = 2 -> Stack00[row]
                    [] col = 4 -> Branches[row]
                    [] col = 6 -> Flags00[row]
                    [] Mode(opcode) = "imm" /\ row = 5 -> "nop"
                    \* only rows 8 to B have indexed forms that are not NOP
                    [] col \in {5, 7} /\ row \notin {5, 6} -> "nop"
                    [] OTHER -> Column00[row]

-----------------------------------------------------------------------------
(* Addressing *)

ZeroPageModes == {"zp", "zpX", "zpY"}
IndexedModes  == {"absX", "absY", "indY"}
MemoryModes   == ZeroPageModes \cup IndexedModes \cup {"abs", "indX"}

Length(mode) ==
  IF mode \in {"none", "control", "jam"} THEN 1
  ELSE IF mode \in {"abs", "absX", "absY", "jump", "jumpInd"} THEN 3 ELSE 2

\* The operand byte and the operand word after the opcode.
Byte1 == M(U16(regs.PC + 1))
Word1 == Address(Byte1, M(U16(regs.PC + 2)))

\* A pointer in the zero page, which wraps there.
Pointer(p) == Address(M(U8(p)), M(U8(p + 1)))

\* The address before a 16-bit index, and the address of the operand.
BaseAddress(mode) == IF mode = "indY" THEN Pointer(Byte1) ELSE Word1

Effective(mode) ==
  CASE mode = "zp"   -> Byte1
    [] mode = "zpX"  -> U8(Byte1 + regs.X)
    [] mode = "zpY"  -> U8(Byte1 + regs.Y)
    [] mode = "abs"  -> Word1
    [] mode = "absX" -> U16(Word1 + regs.X)
    [] mode = "absY" -> U16(Word1 + regs.Y)
    [] mode = "indX" -> Pointer(Byte1 + regs.X)
    [] mode = "indY" -> U16(Pointer(Byte1) + regs.Y)

Crosses(mode) ==
  mode \in IndexedModes /\ ~SamePage(BaseAddress(mode), Effective(mode))

\* The registers with PC after the instruction.
Past(opcode) == [regs EXCEPT !.PC = U16(@ + Length(Mode(opcode)))]

\* A stack access: the cell at a distance from SP.
Cell(distance) == 256 + U8(regs.SP + distance)

BranchTarget == U16(regs.PC + 2 + S8(Byte1))

Takes(branch) ==
  LET bits == regs.status
  IN  \/ branch = "bpl" /\ FLAG_NEGATIVE \notin bits
      \/ branch = "bmi" /\ FLAG_NEGATIVE \in bits
      \/ branch = "bvc" /\ FLAG_OVERFLOW \notin bits
      \/ branch = "bvs" /\ FLAG_OVERFLOW \in bits
      \/ branch = "bcc" /\ FLAG_CARRY \notin bits
      \/ branch = "bcs" /\ FLAG_CARRY \in bits
      \/ branch = "bne" /\ FLAG_ZERO \notin bits
      \/ branch = "beq" /\ FLAG_ZERO \in bits

-----------------------------------------------------------------------------
(* Instructions on registers and memory *)

ReadOperand(opcode) ==
  LET mode == Mode(opcode)
  IN  /\ mode \in MemoryModes \cup {"imm"}
      /\ Operation(opcode) \in ReadFns
      /\ regs' = Execute(Operation(opcode), Past(opcode),
                         IF mode = "imm" THEN Byte1 ELSE M(Effective(mode)))
      /\ UNCHANGED <<memory, stopped>>

StoreRegister(opcode) ==
  LET ea == Effective(Mode(opcode))
      op == Operation(opcode)
  IN  /\ op \in StoreFns \cup {"tas"}
      /\ memory' = Write(memory, ea, Stored(IF op = "tas" THEN "sha" ELSE op,
                                            regs, HiByte(ea)))
      /\ regs' = IF op = "tas"
                 THEN [Past(opcode) EXCEPT !.SP = ByteAnd(regs.A, regs.X)]
                 ELSE Past(opcode)
      /\ UNCHANGED stopped

ModifyMemory(opcode) ==
  LET ea == Effective(Mode(opcode))
      op == Operation(opcode)
  IN  /\ Mode(opcode) \in MemoryModes
      /\ op \in ModifyFns
      /\ memory' = Write(memory, ea, Modified(op, get_flag(regs, FLAG_CARRY), M(ea)))
      /\ regs' = Modify(op, Past(opcode), M(ea))
      /\ UNCHANGED stopped

OnRegisters(opcode) ==
  LET op == Operation(opcode)
  IN  /\ Mode(opcode) = "none"
      /\ \/ op \in AccumulatorFns /\ regs' = ExecuteAccumulator(op, Past(opcode))
         \/ op \in ImpliedFns /\ regs' = ExecuteImplied(op, Past(opcode))
      /\ UNCHANGED <<memory, stopped>>

-----------------------------------------------------------------------------
(* The stack *)

\* The status byte on the stack: bit 5 is 1 there and bit 4 tells BRK and PHP
\* from an NMI.  Neither bit is a flag of the CPU.
StatusByte(break) ==
  ByteOf((regs.status \ {FLAG_BREAK}) \cup {FLAG_UNUSED}
         \cup (IF break THEN {FLAG_BREAK} ELSE {}))

StatusFrom(byte) == (BitsOf(byte) \ {FLAG_BREAK}) \cup {FLAG_UNUSED}

Push(opcode) ==
  /\ \/ /\ Operation(opcode) = "pha"
        /\ memory' = Write(memory, Cell(0), regs.A)
     \/ /\ Operation(opcode) = "php"
        /\ memory' = Write(memory, Cell(0), StatusByte(TRUE))
  /\ regs' = [Past(opcode) EXCEPT !.SP = U8(@ - 1)]
  /\ UNCHANGED stopped

Pull(opcode) ==
  LET pulled == [Past(opcode) EXCEPT !.SP = U8(@ + 1)]
  IN  /\ \/ Operation(opcode) = "pla" /\ regs' = LoadA(pulled, M(Cell(1)))
         \/ /\ Operation(opcode) = "plp"
            /\ regs' = [pulled EXCEPT !.status = StatusFrom(M(Cell(1)))]
      /\ UNCHANGED <<memory, stopped>>

\* The memory with a return address on the stack.
WithReturn(pc) == Write(Write(memory, Cell(0), HiByte(pc)), Cell(-1), LoByte(pc))

\* Entry to the handler at a vector, with three bytes to return by.
Enter(vector, pc, break) ==
  /\ memory' = Write(WithReturn(pc), Cell(-2), StatusByte(break))
  /\ regs' = [regs EXCEPT !.PC = Address(M(vector), M(vector + 1)),
                          !.SP = U8(@ - 3),
                          !.status = @ \cup {FLAG_INTERRUPT_DISABLE}]
  /\ UNCHANGED stopped

-----------------------------------------------------------------------------
(* Control transfers *)

Transfer(opcode) ==
  LET op == Operation(opcode)
  IN  \/ op = "brk" /\ Enter(65534, U16(regs.PC + 2), TRUE)
      \/ /\ op = "jsr"
         /\ memory' = WithReturn(U16(regs.PC + 2))
         \* the high byte of the target is fetched after the pushes
         /\ regs' = [regs EXCEPT !.SP = U8(@ - 2),
                       !.PC = Address(Byte1, Peek(memory', U16(regs.PC + 2)))]
         /\ UNCHANGED stopped
      \/ /\ op = "rti"
         /\ regs' = [regs EXCEPT !.SP = U8(@ + 3),
                                 !.status = StatusFrom(M(Cell(1))),
                                 !.PC = Address(M(Cell(2)), M(Cell(3)))]
         /\ UNCHANGED <<memory, stopped>>
      \/ /\ op = "rts"
         /\ regs' = [regs EXCEPT !.SP = U8(@ + 2),
                       !.PC = U16(Address(M(Cell(1)), M(Cell(2))) + 1)]
         /\ UNCHANGED <<memory, stopped>>
      \/ /\ Mode(opcode) = "jump"
         /\ regs' = [regs EXCEPT !.PC = Word1]
         /\ UNCHANGED <<memory, stopped>>
      \/ /\ Mode(opcode) = "jumpInd"
         \* the pointer does not carry into its page
         /\ regs' = [regs EXCEPT !.PC =
              Address(M(Word1), M(Address(U8(Word1 + 1), HiByte(Word1))))]
         /\ UNCHANGED <<memory, stopped>>
      \/ /\ Mode(opcode) = "rel"
         /\ regs' = IF Takes(op) THEN [regs EXCEPT !.PC = BranchTarget]
                    ELSE Past(opcode)
         /\ UNCHANGED <<memory, stopped>>

Jam(opcode) ==
  Mode(opcode) = "jam" /\ stopped' = TRUE /\ UNCHANGED <<regs, memory>>

-----------------------------------------------------------------------------

Instruction ==
  /\ ~stopped
  /\ LET opcode == M(regs.PC) IN
       \/ ReadOperand(opcode) \/ StoreRegister(opcode) \/ ModifyMemory(opcode)
       \/ OnRegisters(opcode) \/ Push(opcode) \/ Pull(opcode)
       \/ Transfer(opcode) \/ Jam(opcode)

NMI == ~stopped /\ Enter(65530, regs.PC, FALSE)

Reset ==
  /\ ~stopped
  /\ regs' = [regs EXCEPT !.PC = Address(M(65532), M(65533)),
                          !.SP = U8(@ - 3),
                          !.status = @ \cup {FLAG_INTERRUPT_DISABLE}]
  /\ UNCHANGED <<memory, stopped>>

isa == <<regs, memory, stopped>>

\* A jump to itself is a stuttering step.
Next == isa' # isa /\ (Instruction \/ NMI \/ Reset)

Spec == /\ regs \in RegisterFile /\ memory \in [Ram -> Byte] /\ stopped = FALSE
        /\ [][Next]_isa

-----------------------------------------------------------------------------
(* Clock cycles, the fetch of the opcode included *)

Cycles(opcode) ==
  LET mode == Mode(opcode)
      op   == Operation(opcode)
      operand == CASE mode = "zp" -> 3
                   [] mode \in {"zpX", "zpY", "abs"} -> 4
                   [] mode \in {"absX", "absY"} -> 4
                   [] mode = "indX" -> 6
                   [] mode = "indY" -> 5
      indexed == IF mode \in IndexedModes THEN 1 ELSE 0
  IN  CASE op = "brk" -> 7
        [] op \in {"jsr", "rti", "rts"} -> 6
        [] op \in {"plp", "pla"} -> 4
        [] op \in {"php", "pha"} -> 3
        [] mode = "jump" -> 3
        [] mode = "jumpInd" -> 5
        [] mode = "rel" -> IF ~Takes(op) THEN 2
                           ELSE IF SamePage(U16(regs.PC + 2), BranchTarget) THEN 3
                           ELSE 4
        [] mode \in MemoryModes /\ op \in ReadFns ->
             operand + (IF Crosses(mode) THEN 1 ELSE 0)
        [] mode \in MemoryModes /\ op \in StoreFns \cup {"tas"} -> operand + indexed
        [] mode \in MemoryModes /\ op \in ModifyFns -> operand + 2 + indexed
        [] OTHER -> 2    \* on registers, immediate, jam

=============================================================================
