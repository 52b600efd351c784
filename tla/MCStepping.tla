----------------------------- MODULE MCStepping -----------------------------
(***************************************************************************)
(* A CPU from cpu6502_init on, as the tests of the repository use it: the  *)
(* host requests a reset (test-reset.c:29) and steps (test-klaus-          *)
(* functional.c:41), here with single ticks in between, and with resets    *)
(* and NMIs from the callbacks.  The low byte of the reset vector is in    *)
(* Ram, so that InitialRam gives the places where programs start.          *)
(***************************************************************************)
EXTENDS Stepping, TLC

CONSTANTS MaxReturns, MaxLoneTicks, MaxRequests, MaxCycles

VARIABLES
  returned,       \* calls of cpu6502_step that have returned
  lone,           \* single ticks made by the host
  requested       \* calls and callbacks that made requests

mcvars == <<stepvars, returned, lone, requested>>

\* At 0x04F0: LDX #0xFF; LDA 0x0501,X; DEC 0x0501,X; BNE 0x0504, and there KIL.
\* At 0x04E0: TAS 0x0600,Y; ISC (0x10,X); BRK.  Index, read, branch, modify and
\* store, with and without the extra cycle.
Programs ==
  [a \in 1264 .. 1273 |-> <<162, 255, 189, 1, 5, 222, 1, 5, 208, 10>>[a - 1263]]
  @@ (1284 :> 2)
  @@ [a \in 1248 .. 1253 |-> <<155, 0, 6, 227, 16, 0>>[a - 1247]]

MCRom(a) ==
  IF a \in DOMAIN Programs THEN Programs[a]
  ELSE IF a = VECTOR_RESET + 1 THEN 4
  ELSE (167 * a + 59 * (a \div 256) + 31 * (a \div 3) + 11) % 256

MCReadData(a) == {MCRom(a)}

MCRam == {VECTOR_RESET}

MCCallbackRequests == {{}, {"nmi"}, {"reset"}}

MCInit == StepInit /\ returned = 0 /\ lone = 0 /\ requested = 0

Counted(n, happens) == n' = n + (IF happens THEN 1 ELSE 0)

Step ==
  /\ cpu6502_step
  /\ Counted(returned, ~stepping') /\ returned' <= MaxReturns
  /\ UNCHANGED lone

Alone == lone < MaxLoneTicks /\ TickAlone /\ lone' = lone + 1 /\ UNCHANGED returned

Call == HostCall /\ UNCHANGED <<returned, lone>>

\* Done calling, or a call that does not return.
Done == IF stepping THEN cycles = MaxCycles ELSE returned = MaxReturns

MCNext ==
  \/ /\ ~Done
     /\ Step \/ Alone \/ Call
     /\ Counted(requested, asked' # {}) /\ requested' <= MaxRequests
  \/ Done /\ UNCHANGED mcvars

MCSpec == MCInit /\ [][MCNext]_mcvars /\ WF_mcvars(MCNext /\ stepping)

=============================================================================
