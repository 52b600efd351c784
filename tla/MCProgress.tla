----------------------------- MODULE MCProgress -----------------------------
(***************************************************************************)
(* A host that ticks for ever, and whose callbacks and calls request       *)
(* resets and NMIs as often as they like: what must eventually happen.     *)
(*                                                                         *)
(* The main program loops through an indexed read that crosses a page, a   *)
(* branch that crosses one or is not taken, an instruction of the longest  *)
(* kind and a jump back.  It and the NMI handler set SP to 1; requests     *)
(* come only while SP is in RequestSPs, which bounds how deep they nest,   *)
(* not how many there are.                                                 *)
(***************************************************************************)
EXTENDS CpuSequencing, TLC

CONSTANTS
  Ending,         \* the opcode that ends the main program: JMP, or KIL
  RequestSPs

\* At 0x04F6: TXS; LDA 0x05FF,X; BEQ 0x0500; JMP 0x04F6; then, in the next page,
\* DCP (0xFF),Y and the ending.
MainAt == 1270
Main   == <<154, 189, 255, 5, 240, 4, 76, 246, 4, 234,
            211, 255, Ending, 246, 4>>
OnNmi  == <<154, 76, 246, 4>>            \* at 0x0700: TXS; JMP 0x04F6

Vectors == (VECTOR_NMI :> 0) @@ (VECTOR_NMI + 1 :> 7)
           @@ (VECTOR_RESET :> 246) @@ (VECTOR_RESET + 1 :> 4)

MCReadData(a) ==
  IF a \in DOMAIN Vectors THEN {Vectors[a]}
  ELSE IF a - MainAt + 1 \in DOMAIN Main THEN {Main[a - MainAt + 1]}
  ELSE IF a - 1792 + 1 \in DOMAIN OnNmi THEN {OnNmi[a - 1792 + 1]}
  ELSE IF a = 1536 THEN {0, 1} ELSE {0}

MCCallbackRequests == {{}, {"nmi"}, {"reset"}}

MCInit ==
  /\ cpu = [variant |-> NMOS, A |-> 0, X |-> 1, Y |-> 0, SP |-> 1, PC |-> MainAt,
            status |-> {FLAG_UNUSED}]
  /\ op = ZeroOp
  /\ jammed = FALSE /\ reset_requested = FALSE /\ nmi_requested = FALSE
  /\ mem \in [Ram -> InitialRam]
  /\ bus = <<>> /\ asked = {}
  /\ waited = 0

MCNext ==
  /\ SequencedTick \/ SequencedCall
  /\ asked' # {} => cpu.SP \in RequestSPs

MCSpec == MCInit /\ [][MCNext]_sequencedvars
          /\ WF_sequencedvars(SequencedTick)

-----------------------------------------------------------------------------

\* Every instruction, interrupt and reset comes to its end, unless the CPU
\* jams or another reset cuts it short: the loop of cpu6502_step
\* (6502.c:82-85) ends unless the host keeps requesting resets.
InstructionsEnd ==
  op.def # NULL ~> op.def = NULL \/ jammed \/ reset_requested

\* "Original hardware behavior" (README.md:25): a reset is what brings a
\* 6502 back that has jammed on a KIL.  cpu6502_tick returns before it looks
\* at reset_requested when cpu->jammed (6502.c:50), and only cpu6502_init
\* clears it.  Holds of programs without KIL; violated when Ending is KIL.
ResetServed ==
  reset_requested ~> op.def = reset_sequence

=============================================================================
