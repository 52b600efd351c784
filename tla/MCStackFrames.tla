--------------------------- MODULE MCStackFrames ---------------------------
(***************************************************************************)
(* A program that loops through nested subroutines, BRK and stack          *)
(* operations, and an NMI handler with a subroutine of its own, with NMIs  *)
(* and a reset at any tick.  The stack pointer starts low, so that in some *)
(* runs each of the frames lies across the end of the stack page.          *)
(***************************************************************************)
EXTENDS StackFrames

CONSTANTS
  MaxRequests,      \* bound on the NMIs and resets requested
  StartSPs

VARIABLE requested

mcvars == <<framevars, requested>>

\* The bytes of the program, by page.
Main       == <<php, pha, jsr, 0, 5, 56, brk, 234, pla, plp, 76, 0, 4>>   \* SEC; JMP Main
Subroutine == <<php, 184, pha, 169, 0, brk, 234, pla, plp, rts>>          \* CLV; LDA #0
OnBrk      == <<pha, 24, 169, 128, pla, rti>>                             \* CLC; LDA #128
OnNmi      == <<jsr, 0, 8, rti>>
NmiBody    == <<php, 248, plp, rts>>                                      \* SED

Pages == (4 :> Main) @@ (5 :> Subroutine) @@ (6 :> OnBrk) @@ (7 :> OnNmi)
         @@ (8 :> NmiBody)

Vectors == (VECTOR_NMI :> 0) @@ (VECTOR_NMI + 1 :> 7)
           @@ (VECTOR_RESET :> 0) @@ (VECTOR_RESET + 1 :> 4)
           @@ (VECTOR_IRQ :> 0) @@ (VECTOR_IRQ + 1 :> 6)

MCReadData(a) ==
  IF a \in DOMAIN Vectors THEN {Vectors[a]}
  ELSE IF HiByte(a) \in DOMAIN Pages /\ LoByte(a) < Len(Pages[HiByte(a)])
  THEN {Pages[HiByte(a)][LoByte(a) + 1]}
  ELSE {255}

\* The stack page, as far as SP gets.
MCRam == 256 .. 267 \cup 440 .. 511

MCCallbackRequests == {{}, {"nmi"}}

MCInit ==
  /\ \E sp \in StartSPs :
       cpu = [variant |-> NMOS, A |-> 129, X |-> 0, Y |-> 0, SP |-> sp, PC |-> 1024,
              status |-> {FLAG_UNUSED, FLAG_OVERFLOW}]
  /\ op = ZeroOp
  /\ jammed = FALSE /\ reset_requested = FALSE /\ nmi_requested = FALSE
  /\ mem \in [Ram -> InitialRam]
  /\ bus = <<>> /\ asked = {}
  /\ frames = <<>> /\ before = cpu
  /\ requested = 0

Tick ==
  /\ cpu6502_tick
  /\ Disciplined
  /\ Observe
  /\ requested' = requested + (IF asked' = {} THEN 0 ELSE 1)
  /\ requested' <= MaxRequests

\* A reset is the last request: what comes after it starts over, as from
\* another value of SP.
HostCall ==
  /\ cpu6502_reset
  /\ requested < MaxRequests /\ requested' = MaxRequests
  /\ UNCHANGED <<frames, before>>

MCNext == Tick \/ HostCall

MCSpec == MCInit /\ [][MCNext]_mcvars

=============================================================================
