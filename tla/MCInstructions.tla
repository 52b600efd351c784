--------------------------- MODULE MCInstructions ---------------------------
(***************************************************************************)
(* Every opcode, executed once from a choice of registers and places in    *)
(* memory, and an NMI and a reset between two instructions; and sequences  *)
(* of instructions, as they come in a memory that differs from cell to     *)
(* cell, with an NMI requested before any tick or from any callback: the   *)
(* state that one instruction leaves behind is what the next one, or the   *)
(* interrupt, starts from.                                                 *)
(***************************************************************************)
EXTENDS DeviceAccess, CpuSafety

CONSTANTS MaxBoundaries, MaxNmis

VARIABLES
  left,     \* instructions, NMIs and resets still to end: one, or MaxBoundaries
  nmis      \* NMIs a program may still request, at most MaxNmis

mcvars == <<devicevars, left, nmis>>

\* The operand bytes that follow the opcode: a base close to the end of a
\* page, one in the stack, one whose sum with an index wraps past 0xFFFF,
\* one that lies in two pages itself, and one that lies at the top of the
\* stack, where JSR, BRK and the pushes overwrite what is being executed.
MCCodeStarts == {640, 766, 576, 528, 65533, 509}

OperandAt ==
  [a \in {641, 642, 767, 768, 577, 578, 529, 530} |->
     CASE a = 641 -> 255 [] a = 642 -> 32
       [] a = 767 -> 128 [] a = 768 -> 16
       [] a = 577 -> 16  [] a = 578 -> 255
       [] a = 529 -> 1   [] a = 530 -> 1]

\* The code starts hold the opcode; other memory differs from cell
\* to cell.
Scatter(a) == (167 * a + 59 * (a \div 256) + 31 * (a \div 3) + 11) % 256

MCRom(a) == IF a \in DOMAIN OperandAt THEN OperandAt[a] ELSE Scatter(a)

MCReadData(a) == {MCRom(a)}

MCRam ==
  MCCodeStarts \cup 256 .. 258 \cup 506 .. 511 \cup {0, 8, 16, 128, 255, 8447}

\* From these addresses the memory holds every opcode.
ProgramStarts == 1024 .. 1535

MCCallbackRequests == {{}, {"nmi"}}

Registers(variant, a, x, y, sp, pc, status) ==
  [variant |-> variant, A |-> a, X |-> x, Y |-> y, SP |-> sp, PC |-> pc,
   status |-> status]

\* What a program can have left in the registers when it gets to pc.
StartRegisters(variant, pc) ==
  {Registers(variant, 0, 0, 0, 253, pc, {5}),
   Registers(variant, 128, 255, 1, 0, pc, {0, 5, 6, 7}),
   Registers(variant, 153, 1, 255, 255, pc, {0, 1, 3, 5}),
   Registers(variant, 127, 248, 128, 2, pc, {1, 2, 5}),
   Registers(variant, 85, 127, 248, 1, pc, {3, 5, 7})}

\* Every opcode once, at each of the places in the code and with each of the
\* register files.
OneInstruction ==
  /\ \E variant \in Variants, pc \in MCCodeStarts : cpu \in StartRegisters(variant, pc)
  /\ \E opcode \in Opcode :
       mem = [a \in Ram |-> IF a \in MCCodeStarts THEN opcode ELSE Scatter(a)]
  /\ left = 1 /\ nmis = 0

\* Programs as they come in the memory, from each of ProgramStarts.
Program ==
  /\ \E variant \in Variants, pc \in ProgramStarts :
       cpu = Registers(variant, 153, 255, 127, 1, pc, {0, 3, 5})
  /\ mem = [a \in Ram |-> MCRom(a)]
  /\ left = MaxBoundaries /\ nmis = MaxNmis

MCInit ==
  /\ OneInstruction \/ Program
  /\ op = ZeroOp
  /\ jammed = FALSE /\ reset_requested = FALSE /\ nmi_requested = FALSE
  /\ bus = <<>> /\ asked = {}
  /\ boundary = Boundary
  /\ touched = <<>>

Tick ==
  /\ left > 0
  /\ cpu6502_tick
  /\ BoundaryKept /\ TouchedKept
  /\ left' = left - (IF Running /\ op'.def = NULL THEN 1 ELSE 0)
  /\ nmis' = nmis - (IF asked' = {} THEN 0 ELSE 1)
  /\ nmis' >= 0

NmiBeforeAnyTick ==
  /\ nmis > 0 /\ nmis' = nmis - 1
  /\ cpu6502_nmi
  /\ UNCHANGED <<boundary, touched, left>>

\* An NMI or a reset between two instructions does not look at the opcode:
\* it is tried with one, NOP.
Requesting ==
  /\ ~Running /\ left = 1 /\ nmis = 0
  /\ cpu.PC \in MCCodeStarts /\ mem[cpu.PC] = 234
  /\ cpu6502_reset \/ cpu6502_nmi
  /\ UNCHANGED <<boundary, touched, left, nmis>>

Done == left = 0 /\ UNCHANGED mcvars

MCNext == Tick \/ NmiBeforeAnyTick \/ Requesting \/ Done

MCSpec == MCInit /\ [][MCNext]_mcvars

=============================================================================
