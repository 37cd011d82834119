------------------------------- MODULE DataPath -------------------------------
(***************************************************************************)
(* One state machine's registers and the pins as execution.c computes      *)
(* them: shifts, masks and sums on 32-bit words, loops over pins, side     *)
(* set, EXEC with its decoder, and the keypad that hangs on the pins.      *)
(*                                                                         *)
(* Any instruction of the setup's program may be next.  Whether a FIFO is  *)
(* full or empty and how many bits have been shifted is the matter of      *)
(* ShiftPath, the pc that of InstructionCycle: here an instruction that    *)
(* asks for them may find either answer.                                   *)
(***************************************************************************)
EXTENDS Decode, Sequences, FiniteSets

CONSTANTS W,        \* bits of a word, and pins: 32
          Setups    \* state machines: pins, directions and instructions

Idx   == 0..(W - 1)
Words == 0..(2 ^ W - 1)
Bit   == {0, 1}
NoKey == <<0, 0>>

\* A state machine counts bits and pins from 1 to W; the keypad's pins are distinct.
ASSUME DataAssumption ==
    /\ W \in Nat \ {0}
    /\ \A s \in Setups :
          /\ {s.in_base, s.out_base, s.set_base, s.side_base} \subseteq Idx
          /\ {s.out_num, s.set_num, s.side_num} \subseteq 0..W
          /\ s.exec_bits \in 1..W
          /\ \A i \in s.program \cup s.execs :
                /\ i.index_or_value \in Words /\ i.side \in Int
                /\ i.destination # "exec"             \* these are OutExec and MovExec
          /\ \A i \in s.program : i.type \in {"in", "out"} => i.bit_count \in 1..W
          /\ \A i \in s.execs : /\ Encodable(i)
                                /\ i.type \in {"in", "out"} => i.bit_count \in (1..W) \cup {32}
          /\ s.words \subseteq Words
          /\ s.rows \in Seq(Idx) /\ s.cols \in Seq(Idx)
          /\ Cardinality({s.rows[r] : r \in DOMAIN s.rows} \cup {s.cols[c] : c \in DOMAIN s.cols})
                = Len(s.rows) + Len(s.cols)

VARIABLES setup,               \* the configuration of the state machine
          m,                   \* isr, osr, x, y, and the pins' values and directions
          key,                 \* keypress_row and keypress_col, from one
          outcome,             \* of the last instruction
          exec_instruction,    \* the record of the last decode
          decoded              \* history: the instruction it was made from

vars == <<setup, m, key, outcome, exec_instruction, decoded>>

-----------------------------------------------------------------------------
(* Words *)

NthBit(n, from) == (from \div 2 ^ n) % 2

SetNthBit(n, dest, bit) == dest + (bit - NthBit(n, dest)) * 2 ^ n

\* Mutant: the bits that leave the word are not dropped.
ShiftedLeftWide(v, n) == v * 2 ^ n

ShiftedLeft(v, n) == (v * 2 ^ n) % 2 ^ W

\* copy_n_then_shift: the n bits, and the source without them.  No bits to the left
\* are a shift by the whole width, see below.
Copied(right, source, n) ==
    IF n = W THEN {source}
    ELSE IF right THEN {source % 2 ^ n}
    ELSE IF n = 0 THEN {0, source} ELSE {source \div 2 ^ (W - n)}

ShiftedOut(right, source, n) ==
    IF n = W THEN 0 ELSE IF right THEN source \div 2 ^ n ELSE ShiftedLeft(source, n)

\* shift_n_then_copy.  A shift by the whole width is undefined in C: it may give
\* 0 or, where the processor takes the distance modulo the width, shift nothing.
ShiftNThenCopy(right, source, dest, n) ==
    IF n = W THEN {source, (dest + source) % 2 ^ W}
    ELSE {IF right THEN (dest \div 2 ^ n) + (source % 2 ^ n) * 2 ^ (W - n)
          ELSE ShiftedLeft(dest, n) + (source % 2 ^ n)}

\* op_bit_reverse: W rounds that move the input's lowest bit to the output's.
OpBitReverse(input) ==
    LET round[k \in 0..W] ==
            IF k = 0 THEN [in |-> input, out |-> 0]
            ELSE [in |-> round[k - 1].in \div 2,
                  out |-> ShiftedLeft(round[k - 1].out, 1) + (round[k - 1].in % 2)]
    IN round[W].out

-----------------------------------------------------------------------------
(* Pins *)

\* The loops over pins from a base: hardware_set_gpio refuses a pin past the last.
SetPins(pins, base, num, value) ==
    [p \in Idx |-> IF p \in base..(base + num - 1) THEN NthBit(p - base, value) ELSE pins[p]]

\* Mutant: OUT stops at the last pin.
OutPinsUnwrapped(pins, num, value) == SetPins(pins, setup.out_base, num, value)

\* OUT's loop, which wraps.
OutPins(pins, num, value) ==
    LET place[k \in 0..num] ==
            IF k = 0 THEN pins
            ELSE [place[k - 1] EXCEPT ![(setup.out_base + k - 1) % W] = NthBit(k - 1, value)]
    IN place[num]

\* run_in_instruction: bit n from the n-th pin.
InFromPins(pins, num) ==
    LET got[k \in 0..num] ==
            IF k = 0 THEN 0
            ELSE SetNthBit(k - 1, got[k - 1], pins[(setup.in_base + k - 1) % W])
    IN got[num]

\* run_mov_instruction: all pins, each pushing the earlier ones up, so that the
\* base pin comes to the top.
MovFromPins(pins) ==
    LET got[k \in 0..W] ==
            IF k = 0 THEN 0
            ELSE ShiftedLeft(got[k - 1], 1) + pins[(setup.in_base + k - 1) % W]
    IN got[W]

-----------------------------------------------------------------------------
(* The instruction routines: from an instruction and a state to what the   *)
(* state may be afterwards, with the outcome.                              *)

Register(i, r) == CASE i.source = "x" -> r.x [] i.source = "y" -> r.y [] i.source = "isr" -> r.isr
                    [] i.source = "osr" -> r.osr [] i.source = "null" -> 0

RegisterSources == {"x", "y", "isr", "osr", "null"}

\* The bits are shifted in first, also those of a source IN does not know, which are
\* none.  Then autopush, when the threshold is reached, empties the ISR into the RX
\* FIFO, or stalls on a full one.
RunIn(i, r) ==
    LET isrs == IF i.source = "pins"
                THEN ShiftNThenCopy(setup.in_right, InFromPins(r.pins, i.bit_count), r.isr, i.bit_count)
                ELSE IF i.source \in RegisterSources
                THEN ShiftNThenCopy(setup.in_right, Register(i, r), r.isr, i.bit_count)
                ELSE {r.isr}
    IN {<<[r EXCEPT !.isr = v], "done">> : v \in isrs}
       \cup IF setup.autopush
            THEN {<<[r EXCEPT !.isr = 0], "done">>} \cup {<<[r EXCEPT !.isr = v], "stall">> : v \in isrs}
            ELSE {}

\* The test for pins looks at the source, which OUT does not have: a parsed OUT's is
\* unset, a decoded one's is what an earlier decode left there.
BitsTodo(i) == IF i.source = "pins" /\ setup.out_num <= i.bit_count THEN setup.out_num
               ELSE i.bit_count

\* Where the n bits of v go.
Written(i, r, n, v) ==
    CASE i.destination = "pins" -> [r EXCEPT !.pins = OutPins(@, n, v)]
      [] i.destination = "pindirs" -> [r EXCEPT !.dirs = OutPins(@, n, v)]
      [] i.destination = "x" -> [r EXCEPT !.x = v]
      [] i.destination = "y" -> [r EXCEPT !.y = v]
      [] i.destination = "isr" -> [r EXCEPT !.isr = v]
      [] OTHER -> r

\* What OUT takes its bits from: an empty OSR is first filled by autopull.
OutOf(r) == {r.osr} \cup (IF setup.autopull THEN setup.words ELSE {})

WithoutBits(r, osr, n) == [r EXCEPT !.osr = ShiftedOut(setup.out_right, osr, n)]

\* It waits while the OSR is empty and nothing fills it.
RunOut(i, r) ==
    LET n == BitsTodo(i)
    IN {<<r, "stall">>}
       \cup UNION {{<<Written(i, WithoutBits(r, osr, n), n, v), "done">> :
                        v \in Copied(setup.out_right, osr, n)} : osr \in OutOf(r)}

Operation(i, v) == CASE i.operation = "invert" -> 2 ^ W - 1 - v
                     [] i.operation = "bit_reverse" -> OpBitReverse(v)
                     [] OTHER -> v

\* The status word is all ones or all zeros (Fifo has the level it stands for); the
\* value of a source MOV does not know is never assigned.
MovFrom(i, r) == CASE i.source = "pins" -> {MovFromPins(r.pins)}
                   [] i.source \in RegisterSources -> {Register(i, r)}
                   [] i.source = "status" -> {0, 2 ^ W - 1}
                   [] OTHER -> Words

Moved(i, r, v) ==
    CASE i.destination = "pins" -> [r EXCEPT !.pins = SetPins(@, setup.out_base, setup.out_num, v)]
      [] i.destination = "x" -> [r EXCEPT !.x = v]
      [] i.destination = "y" -> [r EXCEPT !.y = v]
      [] i.destination = "isr" -> [r EXCEPT !.isr = v]
      [] i.destination = "osr" -> [r EXCEPT !.osr = v]
      [] OTHER -> r

RunMov(i, r) == {<<Moved(i, r, Operation(i, v)), "done">> : v \in MovFrom(i, r)}

\* SET PINDIRS uses a pin number that was never assigned.
RunSet(i, r) ==
    LET v == i.index_or_value
    IN {<<s, "done">> : s \in
            CASE i.destination = "pins" ->
                     {[r EXCEPT !.pins = SetPins(@, setup.set_base, setup.set_num, v)]}
              [] i.destination = "pindirs" ->
                     {r} \cup {[r EXCEPT !.dirs[p] = IF v # 0 THEN 1 ELSE 0] : p \in Idx}
              [] i.destination = "x" -> {[r EXCEPT !.x = v]}
              [] i.destination = "y" -> {[r EXCEPT !.y = v]}
              [] OTHER -> {r}}

LessOne(v) == (v + 2 ^ W - 1) % 2 ^ W

Branches(i, r) ==
    CASE i.condition = "always" -> {TRUE}
      [] i.condition = "x_zero" -> {r.x = 0}
      [] i.condition = "y_zero" -> {r.y = 0}
      [] i.condition = "x_decrement" -> {r.x # 0}
      [] i.condition = "y_decrement" -> {r.y # 0}
      [] i.condition = "x_not_equal_y" -> {r.x # r.y}
      [] i.condition = "pin" -> {setup.jmp_pin \in Idx /\ r.pins[setup.jmp_pin] = 1}
      [] i.condition = "not_osre" -> BOOLEAN

RunJmp(i, r) ==
    LET s == CASE i.condition = "x_decrement" -> [r EXCEPT !.x = LessOne(@)]
               [] i.condition = "y_decrement" -> [r EXCEPT !.y = LessOne(@)]
               [] OTHER -> r
    IN {<<s, IF branch THEN "jump" ELSE "done">> : branch \in Branches(i, r)}

\* A flag may be set or not (InstructionCycle has the flags); a source WAIT does not
\* know leaves its result unassigned.
RunWait(i, r) ==
    LET pin == IF i.wait_source = "gpio" THEN i.index_or_value
               ELSE (i.index_or_value + setup.in_base) % W
    IN IF i.wait_source \in {"gpio", "pin"}
       THEN {<<r, IF r.pins[pin] = i.polarity THEN "done" ELSE "stall">>}
       ELSE {<<r, "done">>, <<r, "stall">>}

\* An IRQ changes flags only, or nothing: an executed one has no operation that
\* run_irq_instruction knows.
RunIrq(i, r) == {<<r, "done">>} \cup (IF i.operation = "wait" THEN {<<r, "stall">>} ELSE {})

RunPull(i, r) ==
    (IF i.if_empty = 1 THEN {<<r, "done">>} ELSE {})
    \cup (IF i.block = 1 THEN {<<r, "stall">>} ELSE {<<[r EXCEPT !.osr = r.x], "done">>})
    \cup {<<[r EXCEPT !.osr = v], "done">> : v \in setup.words}

RunPush(i, r) ==
    (IF i.if_full = 1 THEN {<<r, "done">>} ELSE {})
    \cup {<<r, IF i.block = 1 THEN "stall" ELSE "done">>, <<[r EXCEPT !.isr = 0], "done">>}

-----------------------------------------------------------------------------
(* Turns *)

\* exec_run_instruction: a missing side set value that is not optional is zero.
RunSideSet(i, r) ==
    LET value == IF i.side < 0 THEN 0 ELSE i.side
    IN IF i.side < 0 /\ setup.side_optional THEN r
       ELSE IF setup.side_pindirs
            THEN [r EXCEPT !.dirs = SetPins(@, setup.side_base, setup.side_num, value)]
            ELSE [r EXCEPT !.pins = SetPins(@, setup.side_base, setup.side_num, value)]

ColumnsCleared(pins) ==
    [p \in Idx |-> IF p \in {setup.cols[c] : c \in DOMAIN setup.cols} THEN 0 ELSE pins[p]]

\* run_keypad, after every turn of a state machine (run_each_enabled_device): the
\* columns are cleared, then the rows are looked at one by one.
RunKeypad(r) ==
    LET row[k \in 0..Len(setup.rows)] ==
            IF k = 0 THEN ColumnsCleared(r.pins)
            ELSE IF row[k - 1][setup.rows[k]] = 1 /\ key[1] = k
                 THEN [row[k - 1] EXCEPT ![setup.cols[key[2]]] = 1]
                 ELSE row[k - 1]
    IN [r EXCEPT !.pins = row[Len(setup.rows)]]

Kept == UNCHANGED <<setup, key, exec_instruction, decoded>>

\* The switch over the instructions, of turns and of EXEC.
RunInstruction(i, r) ==
    CASE i.type = "in" -> RunIn(i, r)
      [] i.type = "out" -> RunOut(i, r)
      [] i.type = "mov" -> RunMov(i, r)
      [] i.type = "set" -> RunSet(i, r)
      [] i.type = "jmp" -> RunJmp(i, r)
      [] i.type = "wait" -> RunWait(i, r)
      [] i.type = "pull" -> RunPull(i, r)
      [] i.type = "push" -> RunPush(i, r)
      [] i.type = "irq" -> RunIrq(i, r)

Turn(type) ==
    \E i \in {j \in setup.program : j.type = type} : \E r \in RunInstruction(i, m) :
        m' = RunKeypad(RunSideSet(i, r[1])) /\ outcome' = r[2] /\ Kept

In   == Turn("in")
Out  == Turn("out")
Mov  == Turn("mov")
Set  == Turn("set")
Jmp  == Turn("jmp")
Wait == Turn("wait")
Pull == Turn("pull")
Push == Turn("push")
Irq  == Turn("irq")

Exec(i, r) ==
    /\ exec_instruction' = Decoded(exec_instruction, Encode(i)) /\ decoded' = {i}
    /\ \E s \in RunInstruction(exec_instruction', r) :
           /\ m' = RunKeypad(RunSideSet(exec_instruction', s[1]))
           \* jmp_pc_set: an executed JMP sets the pc in any case
           /\ outcome' = IF i.type = "jmp" THEN "jump" ELSE s[2]
    /\ UNCHANGED <<setup, key>>

\* What OUT EXEC leaves of the machine.
Remaining == {WithoutBits(m, osr, setup.exec_bits) : osr \in OutOf(m)}

\* OUT EXEC repeats the decoded instruction until it completes, its delay too, and no
\* other turn comes in between: one that cannot complete never ends (not a step).  The
\* bits that go out are those of the instruction; OUT and MOV have no side set.  Bound:
\* an executed IN's autopush finds room; where it stalls the loop shifts on until the
\* eight-bit count of bits wraps below the threshold.
OutExec == \E i \in setup.execs, r \in Remaining : Exec(i, r) /\ outcome' # "stall"

\* exec_instruction_decode returns nothing, and OUT EXEC tests what it returns: where
\* that is taken for false, the instruction is not run.
OutExecRefused ==
    \E i \in setup.execs, r \in Remaining :
        /\ exec_instruction' = Decoded(exec_instruction, Encode(i)) /\ decoded' = {i}
        /\ m' = RunKeypad(r) /\ outcome' = "stall"
        /\ UNCHANGED <<setup, key>>

\* MOV EXEC runs it once and takes no notice of whether it completed.  Bound: it has
\* no delay, which it would leave to the next EXEC to spend in its own place.
MovExec == \E i \in setup.execs : i.delay = 0 /\ Exec(i, m)

\* A turn spent on a delay, with the devices; the user program's PIN, without; and
\* the keypad's window or the directive that presses a key.
DelayTurn == m' = RunKeypad(m) /\ outcome' = outcome /\ Kept
UserPin == \E p \in setup.user_pins, v \in Bit :
               m' = [m EXCEPT !.pins[p] = v] /\ outcome' = outcome /\ Kept
Press == /\ key' \in {NoKey} \cup ((DOMAIN setup.rows) \X (DOMAIN setup.cols))
         /\ UNCHANGED <<setup, m, outcome, exec_instruction, decoded>>

\* hardware_reset_sm
Init == /\ setup \in Setups
        /\ m = [isr |-> 0, osr |-> 0, x |-> 0, y |-> 0,
                pins |-> [p \in Idx |-> 0], dirs |-> [p \in Idx |-> 0]]
        /\ key = NoKey /\ outcome = "done"
        /\ exec_instruction = NewExec /\ decoded = {}

Next == \/ In \/ Out \/ Mov \/ Set \/ Jmp \/ Wait \/ Pull \/ Push
        \/ Irq \/ OutExec \/ OutExecRefused \/ MovExec \/ DelayTurn \/ UserPin \/ Press

Spec == Init /\ [][Next]_vars

-----------------------------------------------------------------------------
(* What must hold *)

\* Every register stays a 32-bit word, although results are put together with sums
\* of shifted parts (shift_n_then_copy, op_bit_reverse), and every pin a bit.
TypeOK == /\ setup \in Setups
          /\ {m.isr, m.osr, m.x, m.y} \subseteq Words
          /\ m.pins \in [Idx -> Bit] /\ m.dirs \in [Idx -> Bit]
          /\ outcome \in {"done", "jump", "stall"}
          /\ Cardinality(decoded) <= 1

\* Whatever was decoded into the record before, a field that EXEC's routines read says
\* what was encoded, but for the fields Departs lists; what becomes of the instruction
\* then is in ImplementsBits (exec_instruction_decode).
DecodedAsEncoded ==
    \A i \in decoded : \A f \in Means(i) \ Departs(i) : exec_instruction[f] = i[f]

AsBits(v) == [k \in Idx |-> NthBit(k, v)]

Bits == INSTANCE BitMachine WITH
            bits <- [isr |-> AsBits(m.isr), osr |-> AsBits(m.osr), x |-> AsBits(m.x),
                     y |-> AsBits(m.y), pins |-> m.pins, dirs |-> m.dirs]

\* Shifts, masks, sums and loops move exactly the bits the instructions name, in
\* both directions, across the last pin, with side set, keypad and EXEC
\* (execution.c lines 55 to 165 and the routines that use them).
ImplementsBits == Bits!BSpec
=============================================================================
