------------------------------- MODULE MCHost -------------------------------
(***************************************************************************)
(* Two instructions under a host that may request a reset or an NMI before *)
(* any tick and from any callback, and move PC.                            *)
(***************************************************************************)
EXTENDS ResetHistory

CONSTANTS MaxFetches, MaxRequests, CodeBytes, DataBytes

VARIABLES
  fetched,      \* opcodes fetched, up to MaxFetches
  requested     \* requests and set_pc calls made, up to MaxRequests

CodePage == 512 .. 767

\* A reset goes to 518, and any other transfer of control to the same page.
MCReadData(a) ==
  IF a \in CodePage THEN CodeBytes
  ELSE IF a = VECTOR_RESET THEN {6}
  ELSE DataBytes

MCCallbackRequests == {{}, Requests}

mcvars == <<resetvars, fetched, requested>>

Registers(sp, pc) ==
  [variant |-> NMOS, A |-> 143, X |-> 1, Y |-> 255, SP |-> sp, PC |-> pc,
   status |-> {FLAG_UNUSED}]

MCInit ==
  /\ cpu \in {Registers(1, 765)}
  /\ op = ZeroOp
  /\ jammed = FALSE /\ reset_requested = FALSE /\ nmi_requested = FALSE
  /\ mem \in [Ram -> InitialRam]
  /\ bus = <<>> /\ asked = {}
  /\ waited = 0 /\ reset_sp = 0 /\ reset_lo = 0
  /\ fetched = 0 /\ requested = 0

Fetches == op.def = NULL /\ op'.def \in Opcode

Tick ==
  /\ ResetTick
  /\ fetched' = fetched + (IF Fetches THEN 1 ELSE 0)
  /\ fetched' <= MaxFetches
  /\ requested' = requested + (IF asked' = {} THEN 0 ELSE 1)
  /\ requested' <= MaxRequests

HostCall ==
  /\ ResetCall
  /\ requested < MaxRequests /\ requested' = requested + 1
  /\ UNCHANGED fetched

Done == fetched = MaxFetches /\ op.def = NULL /\ UNCHANGED mcvars

MCNext == Tick \/ HostCall \/ Done

MCSpec == MCInit /\ [][MCNext]_mcvars

=============================================================================
