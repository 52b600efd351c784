# A formal model of lib6502

lib6502 emulates a MOS 6502 one clock cycle at a time.  The host owns the
memory and the clock: it calls `cpu6502_tick` (or `cpu6502_step`), and the CPU
calls the host back for every access to memory.  This directory holds TLA+
modules for the library, TLC configurations that check them on small instances,
and proofs, checked by TLAPS, of what holds for every memory and every host.

Paths below are relative to the repository: `src/6502.c`, `src/micro_ops.c`.

## 1. Inventory

| Part | Where | State it keeps | Operations |
| --- | --- | --- | --- |
| tick: latches, fetch, dispatch | `src/6502.c`, `src/6502.h` | `op` (an `OpState`), `jammed`, `reset_requested`, `nmi_requested` | `cpu6502_tick`, `cpu6502_init`, `cpu6502_reset`, `cpu6502_nmi`, `cpu6502_set_pc` |
| micro-operations | `src/micro_ops.c`, `src/stack.c` | registers, `op`, the host's memory through the callbacks | 57 kinds of function, some in a copy per instruction |
| micro-program tables | `src/micro_ops.c:1478-4177` | constant | `instruction_defs[256]`, `reset_sequence`, `nmi_sequence` |
| arithmetic and flags | `src/micro_ops.c`, `src/flags.c` | `A X Y SP status` | ADC, SBC, compare, shifts, transfers, undocumented mixtures |
| host | `include/lib6502/6502.h`, `test/utils/test-machine.c` | the memory | two callbacks; requests, `set_pc` and ticks at any time |
| stepping | `src/6502.c:79-88` | `cycles`, a local variable | `cpu6502_step`: ticks until the instruction ends, and counts |
| creation, vectors, tests | `src/6502.c:30-43`, `src/vectors.c`, `test/` | - | - |

**How they interact.**  A tick looks at the latches, then either fetches an
opcode (when `op.def` is NULL) or calls the function in slot `op.cycle` of the
micro-program `op.def`, having counted the cycle first.  The function reads and
writes registers and `op`, may call the host back once (TAS: twice), and ends
the instruction by `finish_op`, which clears `op`.  A callback may call
`cpu6502_reset` or `cpu6502_nmi`, which only set a latch; so may the host between
two ticks.  There are no threads: what interleaves is host and CPU, at the
grain of a tick and, through the callbacks, inside a tick.

**What is hard about it**, and the properties that make each part correct
(`PROJECT.json`, "hazards", has the list with lines):

* *tick*.  The fetch sets `op.def` only, so each instruction relies on the one
  before, or on the reset that struck in the middle of it, to have left `op`
  clear; `micro_ops` has eight slots, and nothing in `cpu6502_tick` compares
  `op.cycle` with the number in use.  Correct means: no NULL slot is called
  (`NoNullDispatch`), boundaries are clean (`CleanBoundary`), an NMI is neither
  lost nor taken in the middle of an instruction (`NmiNotLost`), requests made by
  the callback of the very tick that looks at the latches are kept
  (`RequestsAreLatched`), a reset completes whatever it interrupts
  (`ResetCompletes`).
* *micro-operations and tables*.  An address is in `op.addr` and again in
  `op.addr_lo`/`op.addr_hi`; some functions use the one and some the other.
  Pages are crossed, zero page and stack wrap, and 256 hand-written tables
  combine functions that assume things of each other.  Correct means: each
  opcode does what the 6502 does (`ImplementsInstructionSet`), in its cycles
  (`CyclesButForTas`: all but TAS, section 4), touching what it should (`AccessesAtEffectiveAddress`,
  `AddressesAgree`), and a device no more often than it should
  (`TouchesOperandOnce`).
* *stack*.  What a push sequence lays down, a pull sequence of other functions
  picks up, with interrupts between them (`PullsRestore`, `PhantomFlagsFixed`).
* *arithmetic*.  Carries, signed overflow and decimal digits (`BinaryAdc`,
  `BinarySbc`, `DecimalAdc`, `DecimalSbc`, `CmpComparesUnsigned`).
* *order and time*.  The latches are looked at in an order and at moments that
  decide how long a request waits and what it may cut short
  (`ImplementsSequencer`, `NmiWithinSevenTicks`).
* *progress*.  Instructions end, latched NMIs are served (`InstructionsEnd`,
  `NmiServedOnceResetsStop`, `ImplementsFairSequencer`).
* *stepping*.  A caller takes what `cpu6502_step` returns for the cycles of an
  instruction; the loop counts ticks, with a reset or a jam in the middle or
  with ticks the host has made itself (`StepReturnsItsCycles`), and has no bound
  of its own (`StepReturns`).

## 2. The modules

| Module | What it is |
| --- | --- |
| `Bytes` | machine words, bits, the status flags |
| `Alu` | what instructions compute on the register file |
| `OpDefs` | the micro-programs: `instruction_defs`, `reset_sequence`, `nmi_sequence` |
| `Cpu6502` | the CPU: one action per micro-operation, the fetch, the host's calls |
| `CpuSafety` | invariants and action properties of `Cpu6502` under any host |
| `InstructionSet` | the abstract specification: one step per instruction |
| `CpuImplementation` | `Cpu6502` with a history variable, refining `InstructionSet`; cycles and bus accesses |
| `DeviceAccess` | `CpuImplementation` with an observer of the accesses at the operand, as a device sees them |
| `Sequencer` | the second abstract specification: order and time of a tick, without registers, memory and micro-operations |
| `CpuSequencing` | `Cpu6502` with a history variable, refining `Sequencer` |
| `ResetHistory` | `CpuSequencing` with two history variables of resets |
| `Stepping` | `cpu6502_step` over `CpuImplementation` |
| `StackFrames` | `Cpu6502` with an observer of calls, interrupts, pushes and pulls |
| `AluReference` | `Alu` against integers and decimal digits |
| `MCInstructions`, `MCHost`, `MCStackFrames`, `MCProgress`, `MCStepping`, `MCClaims` | instances for TLC |
| `AluProofs`, `ArithmeticProofs`, `Cpu6502Proofs`, `SequencerProofs`, `SequencingProofs`, `HandoverProofs`, `InstructionProofs`, `SteppingProofs` | theorems and proofs |

**State.**  `cpu` holds the registers and the variant; the status byte is the set
of the positions of its bits that are 1.  `op` is the `OpState` with its eleven
fields.  `jammed`, `reset_requested` and `nmi_requested` are the fields of
`CPU6502`.  `mem` is the part of the host's memory that remembers what is
written (the constant `Ram`); a read elsewhere returns any byte of `ReadData`.
`bus` lists the callbacks made in the last call and `asked` the requests that
reached the library in it.  The last two are not state of the library; the
properties look at them.

**Steps.**  A step of `Next` is one call of a library function.
`cpu6502_tick` is a disjunction: a jammed tick, the fetch, or the one
micro-operation that `Executes(kind)` selects.  `Selected` is what the code does
with the latches before dispatch, and `Now` the `OpState` with the cycle counted.
Each micro-operation is an action of the same name.  Functions of the source
that differ only in the instruction they are written for (`lda_imm`, `and_imm`,
...) are one action each, `f_imm`, which applies `Execute(Mnemonic, ...)`; the
tables carry the mnemonic.  A tick that calls back chooses a set of requests
from `CallbackRequests`: `Latched` consumes what the tick acted on before it adds
these, and `read_reset_high_finish`, which clears `reset_requested` after its
read, is written out separately.  A call of a NULL slot, which would crash the
process, is no step at all; `NoNullDispatch` and `InstructionsEnd` are about
exactly that.

**Abstraction.**  Between two ticks at which `op.def` is NULL the registers and
memory of `Cpu6502` are those of `InstructionSet`; in between, the history
variable `boundary` of `CpuImplementation` keeps what they were.
`InstructionSet` decodes the bits of the opcode and does not use the table of
micro-programs, so that an entry in the wrong place shows.  The two share
`Alu`, which has its own check in `AluReference`.

`Sequencer` abstracts in the other direction.  Of a CPU it knows which work is in
progress (an instruction, an NMI, a reset, nothing, or a jam), how many of its
micro-operations are still to come, and the latches; an instruction may end
before its last micro-operation, an interrupt may not.  `CpuSequencing` maps the
place in the micro-program to it.  `waited` counts the ticks for which a latched
NMI has waited; a reset that begins sets it back, since a reset may be requested
at any time and as often as the host likes.

**Stepping.**  A step of `Stepping` is one tick.  `cpu6502_step` begins with its first
tick and returns with the one after which `Loops` does not hold; `cycles` is its
local variable and, after it, what it has returned.  Single ticks and requests
of the host come between two calls, requests of the callbacks at any tick.
`surplus` is what a count of ticks has too much for the work that ends: ticks
spent before a reset struck, less ticks the host had made itself.

## 3. What TLC checks

| Run | Instance | Shows |
| --- | --- | --- |
| `instructions` | all 256 opcodes, an NMI and a reset; both variants; 6 code positions x 5 register files; and from 512 entry points into a pseudo-random memory that hold every opcode 4 instructions each, an NMI at any tick | every micro-program implements its instruction, in its cycles (but for TAS without a carry), at its addresses, touching its operand as often as it should; instructions compose: what one leaves in `op` or in the status does not reach the next |
| `host` | two instructions out of RTI, INC abs,X, TAS, BNE, KIL, two requests at any time, `set_pc` | the invariants of the tick, no lost request, resets complete; every tick is a step of `Sequencer` |
| `stack_frames` | a program of nested JSR, BRK, PHP, PHA with NMIs and a reset at any tick, and SP at 5 | every pull restores what its push saved |
| `progress` | a looping program and an NMI handler; requests without a bound on their number | instructions end; NMIs are served once resets stop, and within seven ticks; the CPU implements `Sequencer` with its fairness |
| `stepping` | from `cpu6502_init`: a reset, then two programs with every kind of conditional cycle and a KIL; 6 calls, a single tick, 2 requests | `cpu6502_step` returns, and what it returns |
| `alu_reference` | all accumulators x all operands x carry x mode x variant | ADC, SBC and CMP compute what they should |
| `claim_*` | see section 4 | six disagreements between the code and what is said of it |

**Bounds and why they are enough.**  In `instructions` data is chosen at the
edges: a base whose index carries or not, an index that wraps past 0xFFFF, code
that lies in two pages and code that wraps, operands in the stack page, SP
at 0, 1, 2, 253 and 255; one code position is in the stack, where JSR, BRK and
the pushes overwrite what is being executed.  A micro-program is at most seven ticks and has at most
one branch in its control, taken and not taken here, so an opcode needs no more
than this choice.  The programs run for four instructions or interrupts
(`MaxBoundaries`), one of them an NMI at most (`MaxNmis`), enough for each opcode to
come after another, and for an NMI to be latched in any of its ticks and taken
after it.  In `host` one opcode of each shape is enough for
the tick: at most five ticks with one conditional exit, a modify without one, a
branch with two, an RTI whose status is raw in the middle, and KIL; two
fetches (`MaxFetches`) put pairs next to each other (after three bytes of code
KIL follows, or what `set_pc` leads back to), and two requests
(`MaxRequests`; a callback that requests both a reset and an NMI counts once)
cover a request that interrupts another.  Bytes read as data are {2},
those read as code `CodeBytes`, so that PC, wherever it goes, finds an
instruction (outside the code page that is KIL, opcode 2).  In `stack_frames` SP starts at 5: the program nests deeper than that, so
that in some behaviour a frame of each kind (JSR, BRK, NMI, PHP, PHA) takes SP past
the end of the stack page, and there are at most
two requests: two NMIs, or an NMI and a reset, or a reset; a reset is the last
one, since what follows it is the program from its start at another SP.
`stepping` bounds a call at 30 ticks (`MaxCycles`), more than an instruction cut
short by two resets takes.  The program of `progress` has an eight-cycle
instruction (DCP (zp),Y), so that the bound of seven ticks is reached.  `progress` has no bound on requests: they are made only while SP is in
`RequestSPs`, which the program and the handler reset.  `alu_reference` is
exhaustive.

**Fairness.**  `progress` assumes `WF_vars(cpu6502_tick)`: the host keeps ticking.
The library has no thread of its own, and without a host that ticks nothing
happens; `cpu6502_step` and the loop of `test-klaus-functional.c` are such hosts.
Nothing is assumed of the requests: `InstructionsEnd` allows for a host that
resets again and again, and `NmiServedOnceResetsStop` has the end of that as its
hypothesis: a reset requested at every tick does starve an NMI.  `Sequencer!FairSpec` has `WF` of its `Tick`, which
`ImplementsFairSequencer` derives from the fairness of `cpu6502_tick`.
`StepSpec` assumes that a call of `cpu6502_step` goes on: the loop is a loop, and
depends on nobody; that the host calls it is not assumed.

**Deadlock** is checked in every run.  A state without a successor would be a
call of a NULL slot.

Each property has a mutant: a plausible bug in the code it is about, under
which the run finds it violated.  The mutants are the operators marked "Mutant"
in `Alu`, `Cpu6502` and `Stepping`, and are not used otherwise.

## 4. Where the code and what is said of it disagree

1. `claim_dummy_write`: the read-modify-writes write the old value back first,
   all but LSR and ROL, whose `xxx_dummy_write_and_compute` makes no write
   (`src/micro_ops.c:891`, `:920`).
2. `claim_nmi_cycles`: an NMI takes six ticks; the 6502 takes seven cycles
   (`README.md:14`, "Cycle-accurate ticking").
3. `claim_tas_cycles`: TAS abs,Y without a carry reads and writes in its fourth
   tick and ends with it; the 6502 takes five cycles, as for every indexed store
   (the same line; `src/micro_ops.c:1439`).  `CyclesOf` follows the code here, so
   that `CyclesButForTas` holds of it, and checks the five cycles of TAS with a
   carry and those of the other 255 opcodes.
4. `claim_first_read`: when the index of an abs,X or (zp),Y access carries, the
   first read is in the page of the sum and not in that of the base, with the
   index added twice to the low byte (`src/micro_ops.c:98`, `:72`).
   `read_pc_addr_high_add_y` does it as the hardware does.
5. `claim_reset_jammed`: after KIL `cpu6502_tick` returns before it looks at
   `reset_requested`, so that a reset is never served.
6. `claim_decimal_zero`: decimal ADC leaves Z (and N and V) from before.

Not a finding, but a reader may wonder: a reset in the middle of RTI leaves bits
4 and 5 of the byte pulled in the status; SHX and SHY store with the high byte of
the indexed address; `lax_imm` sets no flags.  `InstructionSet` follows the code
in the last two.

## 5. What is proved

The proofs hold for every value of the constants that satisfies the named
assumptions of `Cpu6502`: `Ram` is a set of addresses, reads return bytes,
requests are resets and NMIs, `HostPCs` are addresses.  So they hold for every memory,
any data on the bus and any requests from any callback and between any two ticks.

* `TypeCorrect`, `DispatchSafe`, `BoundaryClean` (`Cpu6502Proofs`): `TypeOK`,
  `NoNullDispatch` and `CleanBoundary` are invariants of `Spec`.
* `NmiKept`, `RequestsKept` (`Cpu6502Proofs`): `NmiNotLost` and
  `RequestsAreLatched` hold of every step.
* `MicroProgramsWellFormed` (`Cpu6502Proofs`): all 258 micro-programs end, give
  each function to an instruction that has it, and set an address before they use it.
* `NmiWaitsBounded`, `SequencerTyped` (`SequencerProofs`): `NmiLatency` and the
  types of the sequencer, for all lengths that `OpsAssumption`, their hypothesis,
  allows; the lengths of the micro-programs satisfy it (`SequenceLengths`).  No run
  checks `Sequencer` alone: `host` and `progress` check it as what the CPU implements.
* `CpuImplementsSequencer` (`SequencingProofs`): `Cpu6502` implements `Sequencer`;
  and from it and `NmiWaitsBounded`, `NmiTakenInTime`: `NmiWithinSevenTicks`.
* `AddressCopiesAgree` (`HandoverProofs`): `AddressesAgree`, in all 258
  micro-programs.
* `ResetsComplete` (`HandoverProofs`): `ResetCompletes`, of every reset that gets
  to its end.
* `PhantomsFixed` (`HandoverProofs`): `PhantomFlagsFixed`, if no reset strikes
  between `pull_p` and `pull_pc_high_finish` (`ResetCutsRti`).  The hypothesis is
  needed: a reset there leaves bits 4 and 5 of the byte pulled in the status,
  and no later micro-operation but another RTI, or PLP, puts them right.
* `ProgramsDecoded` (`InstructionProofs`): each of the 256 entries of
  `instruction_defs` is the micro-program of the addressing mode and the operation
  that `InstructionSet` reads off the bits of its opcode.
* `OperandAddressed` (`InstructionProofs`): `AccessesAtEffectiveAddress`, for every
  opcode, operand, memory and sequence of requests.
* `CyclesKept` (`InstructionProofs`): `CyclesButForTas`, likewise: the cycles of the 6502,
  and four for TAS without a carry (section 4).
* `StepsCounted` (`SteppingProofs`): `StepReturnsItsCycles`, for any mixture of calls,
  single ticks and requests, if the host moves PC between instructions only
  (`PcMovesBetween`).
* `BinaryAdcHolds`, `BinarySbcHolds`, `DecimalAdcHolds`, `DecimalSbcHolds`,
  `CmpComparesUnsignedHolds` (`ArithmeticProofs`): the invariants of
  `AluReference`, for any sets of accumulators and operands that are bytes.

**The argument.**  The inductive invariant `IInv` is `TypeOK /\ NoNullDispatch /\
CleanBoundary`; neither of the last two is inductive alone.  A fetch sets `op.def` and
leaves `op.cycle`: that it is 0 is `CleanBoundary`, and only with it is there a
micro-operation to call (`FetchPreserves`).  A micro-operation either clears `op`
(`ClearedPreserves`, `FinishPreserves`; `old_pc` may survive after a branch) or goes
on at the next cycle of the same program (`GoesOnPreserves`).  In the second
case it is not one of `FinishingKinds`, the last one in every program is
(`MicroProgramsWellFormed`), hence it was not the last, and there is one after
it.  `MicroProgramsWellFormed` goes from the addressing modes (every mode
applied to an instruction that has it is well formed) to the rows of the table,
to `micro_ops(def)`.  It also says that each function is written for an
instruction that has it, which `TypeOK` needs so that `Execute` is applied in
its domain, and two facts for `HandoverProofs`: addresses are computed before they
are used (`Addressed`), and `pull_p` is in RTI only.  `AluProofs` shows that every operator of `Alu` takes a register file
to a register file.

`NmiNotLost` needs no invariant: a tick that takes an NMI can execute nothing
but `dummy_pc_read`, the first function of `nmi_sequence`, and every other step
keeps the latch.  `RequestsAreLatched` needs `IInv` to know that
`read_reset_high_finish` runs in `reset_sequence` only, and not in its first cycle.

`NmiWaitsBounded` rests on `Budget`: while an NMI waits, the ticks it has waited and
the micro-operations still to come are together at most `MaxOps`.  A tick moves
one from the latter to the former; new work begins with no NMI waiting, or is
the NMI, or is a reset, which sets `waited` back.  `NmiLatency` is not inductive
without it.

The refinement is proved by the steps of the sequencer.  A micro-operation goes
on (`Keeps`) or ends its program (`Ends`), and only those of `EndingKinds` end
(`StepKeepsOrEnds`).  `IInv` of the next state gives that a program that goes on
has something to go on with (`KeepsMoves`).  In the sequences of a reset and an
NMI only the last micro-operation is in `EndingKinds` (`SequencesEndLast`), so an
interrupt runs to its end (`EndsLast`).  A tick with a reset requested can
execute nothing but the dummy at the start of its sequence (`ResetStarts`), and
KIL has nothing after its jam (`Ordinary`).  The bound then comes over from the
sequencer by an instance of `SequencerProofs` with the same substitution.

`AddressesAgree` is not inductive, since it speaks of the next micro-operation only,
and `op` has to be right one step before.  Its invariant `Kept(op)` has in addition
that `op.addr_hi` is 0 in front of a micro-operation that writes a zero-page
address and leaves the high byte alone; at the start of a program that is
`CleanBoundary`.  A function that a program lets come before a use of the address
sets both copies of it (`WholeAddress`), or `op.addr` and the low byte, in the zero
page, or keeps both; `Addressed`, a fact about each program, says which may
come before a use, and `StepHandsOver` that the actions do what it takes them to do.

`ResetUnderWay` says how far a reset in progress has lowered SP from where it found it
(`Lowered(op.cycle)`), and that before its last read `op.addr_lo` is what was
read from the low half of the vector.  SP wraps at each of the three steps, and
the sum of the wraps is one (`LoweredOnce`).  That a reset goes through its program in
order, one micro-operation per tick, is `ResetStep`, from `IInv`, and
`ActionOfKind`: what `op` selects decides which action a tick is.

For `PhantomFlagsFixed` every operator of `Alu` is shown to leave bits 4 and 5 as they
were (`ExecuteShows`, `ModifyShows`, ...), PLP to mask them (`PulledShows`), and
`pull_p`, the exception, to start a part of RTI that `pull_pc_high_finish` ends
(`PullPStartsTransit`, `TransitEnds`): between the two there is no other way out of
RTI than a reset, as an NMI waits for the boundary.

`OperandAddressed` and `CyclesKept` are about `ImplementationSpec`, which restricts the host
twice.  Its memory is ordinary (`RomAssumption`: what is not RAM reads the same
every time), since an operand fetched from a device is nobody's to predict; and
it calls `cpu6502_set_pc` between two instructions only, since in the middle of one
that call sends it to another operand.  Requests remain free, and so do ticks.

`Row_0_Decoded` to `Row_F_Decoded` hold each row of the table against the decoder, sixteen
opcodes each; from then on an opcode is its mode and its operation, and the proofs
have one case per mode.  `Mode` had arms of a `CASE` that overlapped; TLC takes the
first that holds, the language leaves the choice open, and the proofs showed the
difference: they are disjoint now.  `MemoryProgram` says that a program with an
operand in memory is the micro-operations that compute the address
(`AddressProgram`), then those on the operand.

Neither property is inductive.  The invariant `Aligned` ties the CPU in the middle of
an instruction to the boundary it began at: registers and memory are still those
(`Untouched`), PC is past the bytes fetched, and `op` holds what the first
`op.cycle` micro-operations of the mode leave of the address (`Partial`), or the
effective address and whether its page was crossed (`Complete`).  Without the
partial results no later tick is known to compute the right address; without
`Untouched` the operand could have changed since it was fetched.  Each
micro-operation that computes an address adds its part (`LowByteTick` to
`PointerHighTick`), those on the operand keep it (`OperandTick`), and branches keep the
target and the crossing (`Branching`, `BranchTick`).  `AddressesAgree` is needed too: the
functions on the operand take either copy.  A reset in the middle drops the
instruction, and only the next boundary counts (`BoundaryStays`).  The cycles follow
from where a program can end: at a `MaybeKinds` without a crossing, in a branch
not taken or within its page, and else in its last slot only.

`StepReturnsItsCycles` compares what has been counted with what an instruction
should take, and nothing in one state connects the two.  Its invariant `CountKept` does:
during a call `cycles = surplus + Elapsed`, where `Elapsed` is the place in the
micro-program.  A tick after which the loop goes on moves both by one, and a reset
resets `Elapsed` and takes what was counted over into `surplus` (`TickCounts`).  A tick
after which it does not ends an instruction in its cycles (`FinishesInTime`), jams in
the second cycle of a KIL (`JamInTime`), or is the last of the seven of a
reset or the six of an NMI (`TickReturns`).

In `ArithmeticProofs` the invariant `Computed` says that the results are those of the
operators on the inputs chosen; what the operators compute is arithmetic.  The
binary V flag, `~(a ^ b) & (a ^ r)`, is read on the signs (`AdditionOverflows`,
`SubtractionOverflows`), the decimal corrections on hexadecimal digits, one
digit at a time (`TwoDigits`).

**Only model-checked**: `ImplementsInstructionSet`, which needs, on top of `Aligned`,
what each micro-operation does with the operand, and what the programs of the stack
and of the interrupts do; `TouchesOperandOnce`, which filters the accesses with
`SelectSeq`, a recursive operator of the library; and `PullsRestore`, whose observer is a
stack of frames.  The first is within reach and planned, the other two in part.  What
has fairness is out of it: `StepReturns`, `ImplementsFairSequencer`,
`InstructionsEnd` and `NmiServedOnceResetsStop`.

## 6. What is not modelled

* A callback that calls `cpu6502_tick` or `cpu6502_step`: the library would be
  re-entered in the middle of a micro-operation.
* A callback that calls `cpu6502_set_pc`.  Where the micro-operation does not
  write PC after its access this is a `cpu6502_set_pc` before the next tick, which
  is modelled: `PC++` in the argument of a read is done before the callback
  runs.  Where it does (jumps, vectors, RTI) the address is lost, and
  `branch_op` adds its offset to it.
* A host with several threads: the library has no locks and promises nothing.
* `cpu6502_create` and `cpu6502_destroy` (`malloc`, `free`), `cpu6502_get_state`
  (reads only), the NULL checks.
* `read_vector`, the `sha_indexed_*` pair, `stack_pop_u8` and the 16-bit stack
  functions: nothing reaches them.
* Instruction tracing, which `README.md` lists and the source does not have.
* The test ROM and the build.

## 7. Plan

Done, in this order: the arithmetic and the tables; the CPU; the instruction set
as its abstract specification; the hosts of the instances; the proof of the
invariants and of the latches; `Stepping`; `Sequencer`, with its refinement
checked and proved; resets in `StackFrames`; `DeviceAccess`; the proofs of
`AddressesAgree`, `ResetCompletes`, `PhantomFlagsFixed` and of the arithmetic;
decoding, the addresses and the cycles of every instruction; the cycles that
`cpu6502_step` returns.

Next, proofs, all from `Aligned`:

1. `ImplementsInstructionSet`: what the last micro-operation of each mode leaves is the
   step of `InstructionSet`; then the stack, the jumps, NMI and reset.
2. `TouchesOperandOnce`, with `TouchedNow` written without `SelectSeq`: the accesses
   at the operand so far, per place in the program.
3. Stack lemmas: a push followed by a pull of the same cell, for `PullsRestore`.
