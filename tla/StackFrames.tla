---------------------------- MODULE StackFrames ----------------------------
(***************************************************************************)
(* What programs rely on the stack for: a handler returns to exactly the   *)
(* point and the flags that were interrupted, a subroutine to its caller.  *)
(*                                                                         *)
(* The observer keeps a frame for every JSR, BRK, NMI, PHA and PHP that is *)
(* complete: the registers as the matching RTS, RTI, PLA or PLP has to     *)
(* bring them back.  The program is disciplined: it pulls with the         *)
(* instruction that matches its last push.  The host is not: its NMIs come *)
(* at any time, inside other handlers too, and so do its resets, after     *)
(* which the program starts over with what is left of SP.                  *)
(***************************************************************************)
EXTENDS Cpu6502, SequencesExt

VARIABLES
  frames,       \* the frames on the stack, the last one on top
  before        \* the registers when the instruction or the NMI began

framevars == <<vars, frames, before>>

\* The opcodes that push, and the opcode that pulls what each has pushed.
\* An NMI pushes like BRK.
brk == 0
jsr == 32
rti == 64
rts == 96
php == 8
plp == 40
pha == 72
pla == 104

Pushers == {brk, jsr, php, pha, nmi_sequence}
Pulls   == {rti, rts, plp, pla}

Match(def) ==
  CASE def \in {brk, nmi_sequence} -> rti
    [] def = jsr -> rts
    [] def = php -> plp
    [] def = pha -> pla

\* Bits 4 and 5 of a status byte are not flags.
Flags(status) == (status \ {FLAG_BREAK}) \cup {FLAG_UNUSED}

\* What the matching pull has to restore.
Frame(def) ==
  [by     |-> def,
   SP     |-> before.SP,
   A      |-> before.A,
   status |-> Flags(before.status),
   PC     |-> CASE def = brk -> U16(before.PC + 2)
                [] def = jsr -> U16(before.PC + 3)
                [] OTHER     -> before.PC]

Begins    == op.def = NULL /\ op'.def # NULL
Resets    == op'.def = reset_sequence /\ op'.cycle = 1
Ends(set) == op.def \in set /\ op'.def = NULL

Observe ==
  /\ before' = IF Begins THEN cpu ELSE before
  /\ frames' = IF Resets THEN <<>>
               ELSE IF Ends(Pushers) THEN Append(frames, Frame(op.def))
               ELSE IF Ends(Pulls) THEN Front(frames)
               ELSE frames

\* The program pulls only with the instruction that matches its last push.
Disciplined ==
  Begins /\ op'.def \in Pulls =>
    frames # <<>> /\ op'.def = Match(Last(frames).by)

-----------------------------------------------------------------------------

\* A pull gives back what the matching push put on the stack, and leaves SP
\* where it was before that push: RTI restores PC and all the flags, RTS
\* returns behind its JSR, PLP restores the flags and PLA the accumulator.
\* This holds at any depth, with SP wrapping around in the stack page, and
\* with NMIs latched in the middle of any of them.
PullsRestore ==
  [][ Ends(Pulls) =>
        LET frame == Last(frames)
        IN  /\ cpu'.SP = frame.SP
            /\ op.def \in {rti, rts} => cpu'.PC = frame.PC
            /\ op.def \in {rti, plp} => cpu'.status = frame.status
            /\ op.def = pla          => cpu'.A = frame.A ]_framevars

=============================================================================
