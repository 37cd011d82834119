# Simpio in TLA+

Simpio (`src/`) simulates the programmable I/O (PIO) blocks of the Raspberry Pi
Pico in a terminal: it loads PIO programs and the user programs that feed them,
steps them one instruction at a time, and shows registers, FIFOs, pins and a
timeline.  This directory holds TLA+ specifications of the simulator, the TLC
configurations that check them on small instances, and proofs checked by TLAPS.
Paths below are relative to the repository; `exec` is short for
`src/execution.c`.

## The system

The program is one C process.  What is concurrent in it is *simulated*: eight
state machines (two PIOs of four), two user processors and two interrupt
handlers take turns, one instruction or delay cycle each, chosen by
`exec_step_programs_next_instruction`.  They share FIFOs, IRQ flags, GPIO pins
and the simulated devices, so every order of their turns is a possible
interleaving, and every instruction that cannot complete is executed again at
its owner's next turn.

| component | state | operations | what makes it correct |
|---|---|---|---|
| FIFO pair (`fifo.c`) | one array of 8 words, four indices, two fill states, STATUS and its selection | `fifo_init`, `write`, `read`, `push`, `pull` | two bounded FIFO queues in every mode; the directions never overlap; STATUS follows the level |
| Shift path (`exec`: IN, OUT, PUSH, PULL, MOV) | ISR, OSR, shift counters, `isr_full`, `osr_empty` | the instructions, autopush, autopull | flags and counters agree with what the registers hold; no completed instruction loses its word; a retry does not repeat what was done |
| Scheduler (`exec`) | cursors, prefetched instructions, `try_user_first`, context | one step | round robin, alternation, no starvation, current prefetch |
| Interrupts (`exec`, `hardware.c`) | IRQ flags, handler pc and `enabled` | `fired_ihs`, `exec_enable_ih`, handler step | a raised flag is answered; a handler is enabled exactly while it runs |
| Instruction cycle (`exec_run_instruction`) | pc, wrap, delay, EXEC | JMP, WAIT, IRQ, MOV PC | pc stays in its own program; delays are exact; what instructions remember is never another machine's; flags synchronise |
| Bit operations (`exec` 55-440) | none | shifts, bit reverse, decode | agree with a reference definition |
| User instructions (`exec`) | data areas, variables, the byte a transfer has come to | WRITE, READ, DATA, PRINT, REPEAT, EXIT | every byte arrives once, in order; lines are cut where they end; a transfer ends |
| GPIO history (`hardware_changed.c`) | ring of 50 samples | update, iterate | position and contents agree; oldest first, inside the array |
| Change snapshots (`hardware_changed.c`) | copies of all state | snapshot, compare | a step is marked on the side it changed |
| SPI flash (`device_spi_flash.c`) | command state machine, storage | a bit per call | commands act on their address only; chip select always resynchronises |
| Keypad, device registry | pressed key; device table | press, register | table bound; pins follow the key |
| Program store (`instruction.c`) | bounded tables | add, define, label, breakpoint | bounds; labels resolve to their instruction |
| Symbols (`symbols.c`) | hash table | new, find, update | find returns the last value |
| Editor (`editor.c`) | lines, cursor, window | keys | cursor and window stay in the buffer |
| Main control (`main.c`) | `built`, `first_stepit`, `prev_line` | build, step, run, toggle | nothing runs unless the last build succeeded |
| Parser, UI, printing, `util/` | - | - | not modelled (below) |

Interaction: the parser fills the program store and the hardware configuration
by calls; the scheduler calls the instruction functions; these call the FIFOs,
pins and flags; after each state machine turn the scheduler runs the enabled
devices, which read and write pins, and looks at the flags.  Everything is
shared state and direct calls; there are no threads and no messages.

Hard behaviours: instructions re-executed after a stall; instructions fetched a
turn ahead into static pointers; interrupts that cut between the two; results
that are ignored; counters of eight bits; fill states and flags kept apart from
the indices and counters they summarise.  `PROJECT.json` lists each hazard at
its line with the properties that watch it.

## The modules

| module | models | correspondence |
|---|---|---|
| `FifoQueue` | what the FIFO pair promises: two bounded queues sharing `Size` words | `tx`, `rx` oldest first; an operation that cannot be done returns FALSE and changes nothing |
| `Fifo` | `fifo.c` as it is: the shared array, indices, fill states, STATUS | a variable per field of `fifo_t`; `ret` and `out` are a call's results; the shifting loop is the function `Insert` |
| `FifoChange` | `fifo_copy` and `fifo_compare`, by which the display marks what a step changed | the copy is the state before a step of `Fifo`, what it is compared with the state after it |
| `ShiftPath` | a state machine's IN, OUT, PUSH, PULL, MOV OSR and the two user instructions WRITE and READ, on top of `FifoQueue` | `instr` is the instruction at the pc, `stalled` that it was executed and did not complete; registers are their counters and flags; the bits are left out |
| `UserLoop` | the user program at the other ends of `ShiftPath`'s FIFOs: a loop of WRITE and READ, one instruction after the other | `user_pc` is the pc of the user processor; the REPEAT is run with the instruction before it |
| `BitMachine` | what the instructions promise about registers and pins, bit by bit | a register is a function from positions to bits |
| `Decode` | `exec_instruction_decode`: from a machine word to the one record per state machine | `Encode` is external: what the assembler that made the word did |
| `DataPath` | the bits of every instruction as the code computes them on words; autopush and autopull; side set; `run_keypad`; OUT EXEC and MOV EXEC | `m` is the machine's registers and the pins; one turn is one action; fill states and counts are left open, since `ShiftPath` has them |
| `PioProgram` | the instruction memory of one PIO, and what makes its programs well-formed | `Program` is what the loader leaves behind; instructions that only move data are one kind, `"data"`, that may block |
| `StateMachines` | what state machines promise: each has its own place, delay and IRQ WAIT, and shares only the flags | one action per kind of instruction |
| `InstructionCycle` | `exec_run_instruction` with JMP, WAIT, IRQ and writes to the pc | one call is one action; `in_delay_state`, `delay_left`, `jmp_pc` and `already_set_waiting` are kept per address, as in the code; a turn that changes nothing (a blocked instruction) is a stuttering step |
| `Scheduler` | `exec_step_programs_next_instruction` with its two searches, delays, `[->]`, EXIT, and the interrupt context | a turn is an action; the static locals are variables; what an instruction does is reduced to what the scheduler can see |
| `UserData` | the user instructions: a byte a turn between data areas, variables and FIFOs, on top of `FifoQueue` | `index` is `data_index`; an unfinished transfer is run again without its delay; the state machine is a PULL and a PUSH in a loop |
| `FlashChip` | what the simulated flash chip promises: a byte out for each byte in | the message received so far decides what the next byte means |
| `SpiFlash` | `device_spi_flash.c`, one look at the pins after every turn, and a host that drives them | a variable per field of `spif_state`; one action per state; the host's steps include the device's look |
| `Timeline` | the ring of pin values in `hardware_changed.c` and the display of it | a sample is its number; `Place` is the cell a display reads |
| `LineEditor` | what the editor promises: only the line under the cursor changes | a sequence of lines and a cursor |
| `Editor` | `editor.c`, one operator per key | one record with the fields of `editor_t` |
| `Loader` | the parser's actions and the tables they fill (`simpio.y`, `instruction.c`, `hardware.c`), statement by statement | one action per kind of statement; `text` is what this build has parsed so far, `rest` that a parse which ended early has left some of its file in flex's buffer |
| `MainControl` | `main.c`: build, step, run, toggle, over `Loader` | one command per action, one step of a run per action, so that the break key can come between |
| `CycleProofs`, `FifoProofs`, `TimelineProofs` | theorems about `InstructionCycle`, `Fifo`, `Timeline` | below |
| `TransferProofs`, `SchedulerProofs` | theorems about `ShiftPath` and `UserData`, and about `Scheduler` | below |
| `EditorProofs`, `MainControlProofs` | theorems about `Editor`, and about `MainControl` with `Loader` | below |
| `DataPathProofs` | theorems about `DataPath` with `Decode` | below |
| `MC*` | constants for TLC | |

How they fit together.  Five detailed modules implement an abstract one by
`INSTANCE ... WITH` a mapping of its variables: `Fifo` the queues of
`FifoQueue`, `InstructionCycle` the machines of `StateMachines`, `DataPath` the
bits of `BitMachine`, `SpiFlash` the chip of `FlashChip`, `Editor` the lines of
`LineEditor`.  `ShiftPath` and `UserData` are built on the abstract queues; that
the real array behaves as these queues is checked by `MCFifo` and proved for
every size in `FifoProofs`.  `Scheduler` keeps the fill of one TX FIFO, because a
blocked WRITE and its `[->]` are what couples the scheduler to the FIFOs.
`UserLoop` composes `ShiftPath` with one user program.
`InstructionCycle`, `DataPath` and `UserData` leave the order of turns open, so
what holds of them holds for the scheduler's order.  `MainControl` extends
`Loader`; which line a step executes is left open there.

History variables are marked as such where they are declared: `shifted_out`,
`waited_for` and `collected` in `ShiftPath`, `turn`, `sm_waited` and `up_waited`
in `Scheduler`, `owed`, `line` and `reader` in `UserData`, `taken` and `shown` in
`Timeline`, `text` and `since` in `Loader`.  Definitions introduced by "Mutant:"
are not part of a model; each is a plausible wrong version of the definition
after it, and shows that a property of the run named in `PROJECT.json` would
notice it.

## What the runs show

| run | instance | result |
|---|---|---|
| `MCFifo` | the real 8 cells, words {0, 1}, levels 0, 4, 8, all joins at any time | types; directions disjoint; refinement of `FifoQueue`; STATUS right after every transfer; every step is marked on the side it changed |
| `MCShiftPath` | 2 cells, one word, all joins, thresholds unset and 16, every program over IN of 16 bits, OUT of 12, PUSH, PULL and MOV OSR, with a user program that loops over WRITE, or over WRITE and READ | with separate FIFOs no transfer is refused after its instruction counted it as done; a pulled word is sent whole and once; an IN that completes leaves room in the ISR; a blocked state machine goes on unless it and the user program wait for each other |
| `MCDataPath` | 4-bit words, 4 pins, one setup for each group of instructions and shift direction | registers stay words; what EXEC runs is what was encoded but for the fields `Departs` lists; refinement of `BitMachine` |
| `MCInstructionCycle` | every well-formed program of 2 state machines with 2 instructions each (out of 10 and 9 kinds, with delays 0 to 2), 2 flags | nobody leaves its program; no stale marks; refinement of `StateMachines`; IRQ WAIT handshakes go round |
| `MCScheduler` | 3 state machines, 2 user processors, no interrupts, `[->]` not used | round robin on both sides; nobody starves; a blocked WRITE goes on |
| `MCSchedulerIrq` | 2 state machines, 1 user processor, 2 flags, 1 handler of 2 instructions that may REPEAT or EXIT | prefetched instructions are current; turns alternate; handlers are enabled exactly while they run; raised flags are answered |
| `MCSchedulerTwoIrqs` | 2 handlers | **violated**: after handler 0 has run once, an interrupt of handler 1 steps handler 0 past its end and is lost |
| `MCUserData` | a writer and a reader, data areas of 4 bytes, FIFOs of 2 each way, ten pairs of programs | bytes arrive once and in order; lines are whole; transfers complete |
| `MCSpiFlash` | bytes of 3 bits, 2 cells, sectors of 4, every command and an unknown one, addresses at, before and behind the end | refinement of `FlashChip`, with the chip deselected or the program rebuilt at any moment |
| `MCTimeline` | the real 50 cells, 160 samples, terminals of 80, 160 and 240 columns | a full ring is in order of time, up to the newest and with at most one of the latest samples missing; displays are in order |
| `MCEditor` | files of 1, 3 and 4 lines, a window of 2 rows, room for up to 7 more characters, one or two characters at the ends of lines | lines laid out; the cursor shows the current line; refinement of `LineEditor` |
| `MCMainControl` | any file of up to 4 statements, then any of one with what the first may have left in the lexer; 2 PIOs of 1 state machine and 2 instructions, 2 user processors, 1 handler | the tables hold what the last build parsed, and nothing of an earlier one; jumps reach their labels; breakpoints are seen; a run ends at one |

The violated run is a finding: it contradicts `doc/pio_programming.md:1276`,
which `PROJECT.json` quotes.

Bounds.  `MCFifo` needs none beyond two words: the array has its real size, and
two words tell any lost, repeated or overtaken word.  `ShiftPath` keeps the real
widths of the counters (32 bits per word, eight-bit counters); two cells give
each joined mode a queue that is empty, partly filled and full, and the separate
mode one that is empty or full.  INs of 16 bits reach the threshold 16 and the
word size exactly, and wrap the eight-bit counter of an IN that stalls; OUTs of 12
miss and pass both.  PUSH IFFULL NOBLOCK and PULL IFEMPTY NOBLOCK are left out:
IFFULL and IFEMPTY decide before the FIFO is looked at and block after it.  `DataPath` is parameterised by the width of
a word; four bits are the least with which reversal, rotation over the last pin
and a partial shift are all different.  Three state machines are the least for
which round robin differs from alternation; the real numbers are 8 and 2.  User
delays of 1 and 2 turns include the turn on which `delay_left` is 1, where `[->]`
counts.  Data areas of four bytes have room for a line, and not for the longer of
the texts.  `SpiFlash` takes the width of a byte as a parameter; three bits name
eight commands, and addresses of three such bytes reach far behind two cells.
An executed IN under autopush finds room in the FIFO, and what MOV EXEC executes
has no delay (`OutExec`, `MovExec`).
`Timeline` has the real ring and three rounds of it.  Two rows and three or four
lines let a window scroll, page and end early; a file of one line leaves a row of it
empty.  In `MainControl` a program table
has two slots, so that four statements fill it, and a second, shorter file shows
what the first has left.  Text that the lexer kept is parsed first by the next
build; by the bound in `Parse` such text has no more statements than the file of
that build may have.  `Loader`'s `Int8Bound` is larger than its tables: in the
code it is smaller than `NUM_INSTRUCTIONS`, so the test for a full table is never
met there.

Fairness.  `exec_run_all_programs` calls the step function in a loop, hence
`WF_vars(Next)` in `Scheduler`; who takes the turn is decided by the
model, not by fairness.  A handler's instruction that blocks is a stuttering
step, so this fairness also says that it completes in the end; see the
hazard at `exec` line 665 for what happens otherwise.  `UserLoop` assumes
that the state machine and the user processor get turns, which `MCScheduler` shows:
it is the *turn* of the user processor that is fair and not each of its
instructions, since a program blocked on a WRITE does not come to its READ.  So
the state machine and the user program may wait for each other for ever, and
`BlockedGoesOn` says exactly when.  `UserData`
assumes weak fairness of each processor's turn and of the state machine's PULL
and PUSH, which is what `RoundRobin` and `SmKeepsRunning` of `Scheduler` show.
`InstructionCycle` assumes the same of each state machine.

Deadlock is checked in every run but `MCInstructionCycle`: there a turn
of a blocked instruction changes nothing, and two state machines that wait for
each other's flags may do so for ever, as in the code.

Well-formed programs.  What `InstructionCycle` promises holds for programs that
keep to what the code gets right (`WellFormed`): every state machine's program
is closed under its jumps and its wrap, a conditional JMP is not the last
instruction before the wrap (one that does not jump ignores the wrap, `exec`
line 798), and a write to the pc has no delay and does not aim just behind the
wrap (`exec` line 1290 writes the value less one, and the wrap test then sees
it).  The abstract `StateMachines` has none of these limits.

Other restrictions a property makes are in its definition or in a constant named
for it: `Careful` in `Editor` (delete only where there is a character, jump only
to lines there are, page only in a file that fills the window), `Regular` in `Timeline` (the ring has just been started, or
its index stands behind the array), `StaleLines` in `MainControl`.  `DataWrite` of
`UserData` stops where an empty string's bytes would be read far behind the data
area; the programs of its run write no empty string.

## What is proved

`FifoProofs` proves four theorems for every even array size, every set of words
and every set of levels, from `FifoAssumption` only:

- `TypeCorrect`: `Spec => []TypeOK`
- `RegionsAlwaysDisjoint`: `Spec => []RegionsDisjoint`
- `TransfersRefreshStatus`: `Spec => LevelChangeRefreshesStatus`
- `ArrayImplementsQueues`: `Spec => Q!QSpec`, the refinement

The inductive invariant is `TypeOK /\ RegionsDisjoint`.  `TypeOK` alone is not
inductive: that an index stays in the array follows only from the fill states
meaning what the indices say, since the code tests the states and moves the
indices.  The refinement goes through lemmas about the array operation:
`InsertAppends` (an insertion is an append to the queue the region stands for),
`InsertElsewhere` (it leaves the other direction's queue alone, which needs
disjointness) and `PopsOldest`.

`CycleProofs` proves four theorems for any number of state machines, flags and
addresses, if all programs are well-formed (`AllWellFormed`), from
`ProgramAssumption`:

- `TypeCorrect`: `Spec => []TypeOK`
- `NeverLeavesProgram`: `Spec => []StaysInOwnProgram`
- `NoStaleMarks`: `Spec => []MarksAreCurrent`
- `CellsImplementMachines`: `Spec => Machines!MSpec`, the refinement

The inductive invariant `IInv` adds to these three invariants that the cell of a
current instruction makes sense: it is in a delay only with a place to go on to,
and waiting only in an IRQ WAIT.  Every action is first shown to have one form
(`Local`: one state machine's pc and its instruction's cell change, with the
side conditions `Sound`); that form keeps the invariant, since no other state
machine is at that cell (`PlacesDiffer`) and none has left a mark where this one
arrives (`MarksAreCurrent`); and it changes what the refinement mapping says of
that state machine only (`LocalMaps`).

`TimelineProofs` proves three theorems for a ring of any size, from
`TimelineAssumption`:

- `TypeCorrect`: `Spec => []TypeOK`
- `RingIsOrdered`: `Spec => []RingInOrder`
- `DisplayIsOrdered`: `Spec => []ShownInOrder`

The inductive invariant adds `Counted`: until the ring is full the index is the
number of samples, which is what lets a display that starts at cell 1 be in order;
and what the age of every cell is, in a round of one place more than there are
cells.

`SchedulerProofs` proves five theorems for any number of state machines, user
processors, handlers and flags and any user instructions, from
`SchedulerAssumption`.  The first two:

- `TypeCorrect`: `Spec => []TypeOK`
- `PrefetchAlwaysCurrent`: `Spec => []PrefetchIsCurrent`

The two together are inductive.  They rest on lemmas about the two searches:
`NextSmIs` and `NextUserIs` say which processor a search comes to (the nearest in
cyclic order, `Fwd`) and when it comes back empty.  They differ: the user search
wraps through a look at nothing and never comes back to where it began, so one
search may miss the only processor that can run; searched twice (`try_user`), it
misses none (`SearchedTwice`).

The other three build on them:

- `SidesAlternate`: `Spec => TurnsAlternate`.  The invariant says that
  `try_user_first` remembers the last turn, that no user instruction is
  prefetched only while none can run or before the first search, and that an
  instruction without a delay has none left to wait for.
- `OneHandlerIsEnabledWhileRun`: with one handler,
  `Spec => []EnabledHandlerRuns`.
- `SearchesAreRoundRobin`: without interrupt flags, `Spec => []RoundRobin`.  The
  invariant is that the turns a processor has waited and its distance from the
  cursor (`Pos`) add up to less than the number of processors; a turn adds one to
  the first and takes at least one from the second (`Nearer`).

The last two have hypotheses (`NumIHs = 1`, `NumFlags = 0`) because without them
the property fails: of two handlers one may stay enabled (see the run
`MCSchedulerTwoIrqs`), and leaving an interrupt moves the cursors
(`MoveCursors`).

`TransferProofs` proves four theorems about `ShiftPath` for any size of the FIFOs, any words,
thresholds and join modes and any set of instructions, from `ShiftAssumption` and
`SizeAssumption`:

- `TypeCorrect`: `SSpec => []STypeOK`
- `NoTransferRefused`: `SSpec => []NeverRefused`
- `PulledWordsAreSentWhole`: `SSpec => []PulledWordIsSentWhole`
- `AutopushInTime`: `SSpec => AutopushKeepsUp`

The inductive invariant has a part for each thing an instruction changes:
`QueuesOK`, `ConfigOK`, `InOK` and `OutOK`.  `PulledWordIsSentWhole` alone is not
inductive, because the code computes `osr_empty` from `shift_out_count`: `OutOK`
adds that the counter says how many bits of a pulled word are gone.  `InOK` says
that under autopush the counter of the ISR is below the size of a word except
while an IN is stalled; that exception is the wrap of the counter named below.

`TransferProofs` also proves two about `UserData`, for data areas and FIFOs of any
size and any programs that have one reader and write no empty string (`ProgramsFit`), from
`UserAssumption` and `SizeAssumption`:

- `BytesInOrder`: `ProgramsFit /\ Spec => []BytesArriveInOrder`
- `WholeLines`: `ProgramsFit /\ ~NulWritten /\ Spec => []LinesAreWhole`

All programs of `MCUserData` are of this kind.  That a DATA WRITE finds a string is
read off the program: the last instruction before it that fills the data area has
set one that is not empty (`HasString`).  The inductive invariant adds to the
conservation of bytes what an unfinished transfer's place says of the data area
(`Place`): a DATA WRITE has passed no NUL, a READLN no stop, and all bytes stored
so far were sendable; and what the last line read looks like (`LineOK`).  Every
processor's turn touches only its own place (`OthersKept`, `TurnKeeps`), a byte
written is appended to what is on its way (`WriteConserves`) and a byte or line
read is its front (`ReadConserves`).

`MainControlProofs` proves four theorems for any numbers of PIOs, processors and
slots, any statements and any files, from `LoaderAssumption` and `MainAssumption`:

- `SetBreakpointsAreSeen`: `Spec => []BreakpointsAreSeen`
- `RunsStop`: `Spec => RunStopsAtBreakpoints`
- `FilesAreLoaded`: `Spec => [](CountsFit => LoadedIsWritten)`
- `BuiltJumpsGo`: `Spec => [](CountsFit => JumpsGoToLabels)`

The toggle and the run search the tables for a line, and stop at the first slot
that has it.  So the invariant is that no two instructions of the searched
tables have the same line and none has a line beyond those read (`LinesDiffer`),
with the types of the tables (`TablesOK`) and that no file is read while a program
runs (`OneThingAtATime`).  A statement that adds an instruction counts a line first
and writes the slot that `next_instruction_location` names, also where that number
has wrapped to a negative one (`AddsLine`, `AddsLineKeeps`).  `FirstHitIs` says
which slot a search comes to.

The two theorems about loading speak of the states before that wrapping happens:
by `CountsFit` the tables, or else the text parsed so far, are shorter than
`Int8Bound`.  In the code the user tables are (32 slots); the PIOs' are not (132
slots, counted to 127), so for these the theorems say nothing once a build has
parsed 128 lines, and speak again of the next build.  The text of a build is what it
parsed, with anything an earlier parse that ended early had left in the lexer
(`rest`): the tables hold that text, and the file alone only if the build before had
read its own to the end.  `LoadedIsWritten` and
`JumpsGoToLabels` speak of the end of a file; their invariant says the same of the
lines read so far: the current processors are those the file last named
(`PlacesOK`), all that is loaded is what was written (`Written`), the labels are
those of the file in their order (`LabelsOK`), and a jump has no location or that
of the first label of its name (`JumpsOK`).  The last is kept by a second label of
the name, which `FindLabel` never comes to (`TargetStays`), and fixing the jumps
before their labels at the end gives the same location as finding them would
have (`Resolved`).  One lemma per statement says what it writes, and that the
lines before it mean what they meant (`CodeNext`, `PlacesNext`); an address is a
number of lines before another (`AddressType`, `AddressGrows`).  TLC has checked
the whole invariant on `MCMainControl`, where all tables can be full.

`EditorProofs` proves three theorems for any files, any window and any room for
typing, and a user who deletes only where there is a character, jumps only to lines
there are and pages only in a file that fills the window (`CarefulUser`), from
`EditorAssumption`:

- `LinesStayLaidOut`: `CarefulUser /\ Spec => []LinesLaidOut`
- `CursorStaysOnLine`: `CarefulUser /\ Spec => []CursorShowsCurrentLine`
- `EditorEditsLines`: `CarefulUser /\ Spec => ImplementsLineEditor`,
  the refinement

The hypothesis holds in `MCEditor`, and without it the code does go wrong (see
the end of the next section).  The inductive invariant is `Layout /\ Window`.
`LinesLaidOut` relates neighbouring lines; that an edit of one line leaves all
others alone needs the order of any two (`Ordered`), and the refinement needs what
the characters between the indices are (`Filled`).  Every edit has one form
(`Edited`: behind a position in the current line the characters and the indices
move by a distance), for which `EditedOrdered`, `EditedFilled` and `OtherLines`
are proved once; `InsertText` and `DeleteText` say what it makes of the current
line.  That the loader of a file establishes the invariant is an induction over
its lines: the set of the numbers for which the claim holds has 0 and the next of
each (`UpTo`), and the recursive functions of the model satisfy their equations
(`StartsAre`, `JoinedIs`).

`DataPathProofs` proves two theorems for words of any width, any pins and any
programs, from `DataAssumption`:

- `WordsStayWords`: `Spec => []TypeOK`
- `ExecRunsWhatWasEncoded`: `Spec => []DecodedAsEncoded`

What is executed is anything that has an encoding (`Encodable`): every field fits its
bits.  The fields compared are those which the routines that run them read
(`Means`); `Departs` lists, by kind of instruction, those that do not say what was
encoded, and why.  `TypeOK` is not inductive alone: an EXEC runs the record of the
last decode, and a decode sets only the fields of its kind.  The invariant
adds `DecodedAsEncoded` and that the record is whole (`IsExec`).  The proof has
three parts:

- The decode.  The fields of an encoded instruction are those that were put in
  (`FieldsOf`), a name is found at its number (`PickNumber`), and so each of the
  nine kinds is decoded as it was encoded (`JmpDecodes` to `SetDecodes`,
  `EncodableDecodes`).
- The words.  `2 ^ (a + b) = 2 ^ a * 2 ^ b` (`PowerSum`) is proved by counting
  subsets, the only way in which the library's theorems know powers; then the
  parts that `shift_n_then_copy` adds up do not overlap (`Quotients`,
  `Remainders`, `Shifts`).
- The loops.  The rounds of a loop exist (`RoundsExist`) and stay in a set that
  every round stays in (`RoundsStay`); `op_bit_reverse`, the loops of IN and MOV
  over the pins, OUT's wrapping loop and the keypad's rows are instances.

Model-checked only: the refinement of `BitMachine` by `DataPath`, that is, which
bits the shifts and loops move; `SpiFlash`; and every liveness property, which
under fairness is out of the prover's reach.

## Where the code departs from what one would expect

Met while modelling.  The models contain this behaviour, except where a
restriction named above or a hazard's note says that it is left out.

- A new STATUS selection leaves the old STATUS word until the next transfer
  (`hardware.c:146`; `LevelChangeRefreshesStatus` speaks of transfers).
- PULL NOBLOCK of an empty FIFO leaves `osr_empty` and the counter as they were
  (`exec:1009`).
- An IN whose autopush stalls shifts again at every turn, where a comment has it resume
  (`exec:934`; `shift_in_resume_count` is always 0); its eight-bit counter wraps
  (`exec:975`).  Wrapped below the threshold it completes with more bits in
  the ISR than the counter says, which `AutopushKeepsUp` leaves out.
- WAIT 1 on a flag leaves the flag set; the comment in `run_wait_instruction` says
  that it clears it (`exec:835`).  `StateMachines.Wait` has what the code does.
- A state machine and a user program can wait for each other for ever, the one for
  room in the RX FIFO and the other for room in the TX FIFO, or both for a word
  (`exec:875`, `exec:1402`).
- A delayed MOV or OUT to the pc jumps before its delay is over (`exec:1290`).
- A blocked `[->]` WRITE keeps every turn (`exec:681`).
- Leaving an interrupt moves the round-robin cursor on (`exec:619`), and tests a
  pointer that was never set.
- With two handlers the second one's interrupt may be lost (`exec:631`).
- DATA WRITE never ends on an empty string (`exec:1494`); DATA CLEAR clears one
  byte, and READ and READLN end without a NUL, so that the tail of an earlier,
  longer line stays (`exec:1527`; `doc/pio_programming.md:896` says READLN reads
  a line).
- EXEC runs other things than were encoded (`Departs`, `Runs`): a MOV's operation is
  decoded over its source (`exec:385`), so that MOV with INVERT moves X and with
  REVERSE Y, as they are; an IRQ sets fields that `run_irq_instruction` does not read
  (`exec:400`, `exec:1358`) and does nothing; a count of 32, which is encoded as 0,
  stays 0 (`exec:239`), so that an IN or OUT moves nothing; an OUT may be limited by
  the source of an IN or MOV decoded before it (`exec:1100`); every instruction but a
  JMP drives its side set pins to 0 (`exec:173`); and a JMP's location is kept less
  one (`exec:213`).  An instruction that never completes keeps OUT EXEC in its loop.
- `exec_instruction_decode` and `spif_get_addr` have no return statement.
- MOV from the pins counts them in the other order than IN (`exec:1205`).
- The timeline's index runs over one place more than the ring has, stores one
  sample of 51 behind the array, and begins at cell 1 (`hardware_changed.c:196`); the
  comment above `hardware_changed_gpio_history_get` (`hardware_changed.c:121`)
  describes a ring without that place.  `RingInOrder` asks for what the comment says
  and allows for the one sample.
- The chip's PROGRAM and ERASE do not look at the write-enable latch, and an
  erase is repeated until the next clock edge (`device_spi_flash.c`).
- `next_instruction_location` is an `int8_t` compared with 132
  (`instruction.c:199`); a reset keeps the line numbers of unused slots, which
  hide breakpoints (`instruction.c:424`).
- `simpio_parse` gives flex a new file without flushing its buffer
  (`simpio.y:75`): when a parse ends early, at a syntax error, a full table or a bad
  `.config`, what was read of the old file and not yet parsed comes before the new
  one in the next build.  `Loader` has this as `rest`; a comment left open, and the
  line number of error messages, are left out.
- A bad `.config pio` or `.config sm` on the first line ends the parse with
  success (`simpio.y:182`); `built` stays TRUE after a failed build
  (`main.c:197`); `hardware_reset_irq_flags` resets the first flag only, and
  nothing calls it.
- A delete on the end of a line takes away the end-of-line character, and the
  index arrays no longer fit the text; in a file shorter than the window page down
  gives a negative first line and page up a cursor behind the last line
  (`editor.c`).

## Not modelled

- The automata that flex and bison generate, expressions and operands of
  statements: the statements that reach the tables are `Loader`'s.
- `print.c`, the drawing half of `ui.c` and the register display of `main.c`:
  they read state and write to the terminal.
- `util/generate.py`, an offline text transformation, and the programs under
  `tests_real/`, which run on hardware.
- `symbols.c`: nothing is ever looked up in it.  Definitions and variables of
  `instruction.c`, but for a variable's value.
- Range tests of pin settings, the table in which devices are registered, and
  the mapping of flags to handlers (a constant of `Scheduler`).
- Snapshots of registers: one comparison per field.

## What is left

- Proofs: the refinement of `FlashChip` by `SpiFlash`, and of `BitMachine` by
  `DataPath`, instruction by instruction.
- `MainControl` with the scheduler's static pointers, so that a rebuild meets the
  prefetched instructions and raised flags of the program before it.
- Variables and definitions, and the range tests of the configuration.
