------------------------------ MODULE BitMachine ------------------------------
(***************************************************************************)
(* What the instructions of a state machine promise about its registers    *)
(* and the pins, bit by bit: which bits an instruction moves, and where    *)
(* to.  A register is a function from bit positions to bits.               *)
(*                                                                         *)
(* DataPath.tla, which does the same with the shifts, masks and loops of   *)
(* execution.c on words, implements this module.                           *)
(***************************************************************************)
EXTENDS Integers, Sequences

CONSTANTS W,        \* bits of a word, and pins: 32
          Setups    \* state machines, see Setup

Idx   == 0..(W - 1)
Words == 0..(2 ^ W - 1)
Bit   == {0, 1}
Zero  == [k \in Idx |-> 0]
Ones  == [k \in Idx |-> 1]
NoKey == <<0, 0>>

VARIABLES setup,     \* the state machine's configuration and instructions
          bits,      \* its isr, osr, x and y, and the pins' values and directions
          key,       \* the key pressed: its row and column
          outcome    \* of the last instruction: "done", "jump" or "stall"

BitsOf(v) == [k \in Idx |-> (v \div 2 ^ k) % 2]

\* The low n bits of new push the register's bits n places on.
Entered(right, old, new, n) ==
    [k \in Idx |-> IF right THEN IF k + n < W THEN old[k + n] ELSE new[k + n - W]
                   ELSE IF k < n THEN new[k] ELSE old[k - n]]

\* The n bits at the end that shifts out.
Taken(right, old, n) ==
    [k \in Idx |-> IF k >= n THEN 0 ELSE IF right THEN old[k] ELSE old[W - n + k]]

Decremented(b) == [k \in Idx |-> IF \A j \in 0..(k - 1) : b[j] = 0 THEN 1 - b[k] ELSE b[k]]

-----------------------------------------------------------------------------
(* What an instruction i may make of the state b: pairs of a state and an  *)
(* outcome.                                                                *)

\* IN counts the pins up from the base, MOV down from the pin before it.
Pin(b, base, k) == b.pins[(base + k) % W]

Source(i, b) ==
    CASE i.source = "pins" /\ i.type = "in" -> [k \in Idx |-> Pin(b, setup.in_base, k)]
      [] i.source = "pins" /\ i.type = "mov" -> [k \in Idx |-> Pin(b, setup.in_base, W - 1 - k)]
      [] i.source = "x" -> b.x
      [] i.source = "y" -> b.y
      [] i.source = "isr" -> b.isr
      [] i.source = "osr" -> b.osr
      [] i.source = "null" -> Zero

\* A whole word enters an empty ISR; what it does to another one is undefined.  With
\* autopush the ISR may be full now: it is emptied, or the IN has to wait for that with
\* its bits in.
InResults(i, b) ==
    LET filled == IF i.bit_count < W \/ b.isr = Zero
                  THEN {Entered(setup.in_right, b.isr, Source(i, b), i.bit_count)}
                  ELSE [Idx -> Bit]
    IN {<<[b EXCEPT !.isr = v], "done">> : v \in filled}
       \cup {<<[b EXCEPT !.isr = v], "stall">> : v \in {w \in filled : setup.autopush}}
       \cup {<<[b EXCEPT !.isr = Zero], o>> : o \in {p \in {"done"} : setup.autopush}}

\* Pins from a base on; only OUT goes on at pin 0 after the last pin.
Outputs(old, base, num, v) ==
    [p \in Idx |-> IF (p + W - base) % W < num THEN v[(p + W - base) % W] ELSE old[p]]
Pins(old, base, num, v) ==
    [p \in Idx |-> IF base <= p /\ p < base + num THEN v[p - base] ELSE old[p]]

Out(i, b, v) ==
    CASE i.destination = "pins" -> [b EXCEPT !.pins = Outputs(@, setup.out_base, i.bit_count, v)]
      [] i.destination = "pindirs" -> [b EXCEPT !.dirs = Outputs(@, setup.out_base, i.bit_count, v)]
      [] i.destination = "x" -> [b EXCEPT !.x = v]
      [] i.destination = "y" -> [b EXCEPT !.y = v]
      [] i.destination = "isr" -> [b EXCEPT !.isr = v]
      [] OTHER -> b

\* The words OUT may find: with autopull a fresh one in the place of an empty OSR.
Found(b) == {b.osr} \cup {BitsOf(v) : v \in {w \in setup.words : setup.autopull}}

\* OUT takes bits out of the OSR, or waits while the OSR is empty.  What it takes is
\* undefined where it takes none.
OutResults(i, b) ==
    {<<b, "stall">>}
    \cup {<<Out(i, [b EXCEPT !.osr = Entered(setup.out_right, osr, Zero, i.bit_count)],
                Taken(setup.out_right, osr, i.bit_count)), "done">> : osr \in Found(b)}
    \cup {<<Out(i, [b EXCEPT !.osr = osr], v), "done">> :
                osr \in {o \in Found(b) : i.bit_count = 0}, v \in Found(b)}

Operated(i, v) == CASE i.operation = "invert" -> [k \in Idx |-> 1 - v[k]]
                    [] i.operation = "bit_reverse" -> [k \in Idx |-> v[W - 1 - k]]
                    [] OTHER -> v

Moved(i, b, v) ==
    CASE i.destination = "pins" -> [b EXCEPT !.pins = Pins(@, setup.out_base, setup.out_num, v)]
      [] i.destination = "x" -> [b EXCEPT !.x = v]
      [] i.destination = "y" -> [b EXCEPT !.y = v]
      [] i.destination = "isr" -> [b EXCEPT !.isr = v]
      [] i.destination = "osr" -> [b EXCEPT !.osr = v]
      [] OTHER -> b

\* STATUS is all ones or all zeros.
MovResults(i, b) ==
    {<<Moved(i, b, Operated(i, v)), "done">> :
        v \in IF i.source = "status" THEN {Zero, Ones} ELSE {Source(i, b)}}

\* Which pin's direction SET PINDIRS sets is undefined.
SetResults(i, b) ==
    LET v == BitsOf(i.index_or_value)
        set == CASE i.destination = "pins" -> {[b EXCEPT !.pins = Pins(@, setup.set_base, setup.set_num, v)]}
                 [] i.destination = "pindirs" ->
                        {b} \cup {[b EXCEPT !.dirs[p] = IF v = Zero THEN 0 ELSE 1] : p \in Idx}
                 [] i.destination = "x" -> {[b EXCEPT !.x = v]}
                 [] i.destination = "y" -> {[b EXCEPT !.y = v]}
                 [] OTHER -> {b}
    IN {<<c, "done">> : c \in set}

\* The counter is decremented whether it was zero or not.
JmpResults(i, b) ==
    LET after == CASE i.condition = "x_decrement" -> [b EXCEPT !.x = Decremented(@)]
                   [] i.condition = "y_decrement" -> [b EXCEPT !.y = Decremented(@)]
                   [] OTHER -> b
        branch == CASE i.condition = "always" -> {"jump"}
                    [] i.condition = "x_zero" -> {IF b.x = Zero THEN "jump" ELSE "done"}
                    [] i.condition = "y_zero" -> {IF b.y = Zero THEN "jump" ELSE "done"}
                    [] i.condition = "x_decrement" -> {IF b.x = Zero THEN "done" ELSE "jump"}
                    [] i.condition = "y_decrement" -> {IF b.y = Zero THEN "done" ELSE "jump"}
                    [] i.condition = "x_not_equal_y" -> {IF b.x = b.y THEN "done" ELSE "jump"}
                    [] i.condition = "pin" /\ setup.jmp_pin \in Idx ->
                           {IF b.pins[setup.jmp_pin] = 1 THEN "jump" ELSE "done"}
                    [] i.condition = "not_osre" -> {"jump", "done"}
                    [] OTHER -> {"done"}
    IN {<<after, o>> : o \in branch}

\* WAIT on a flag waits or does not.
WaitResults(i, b) ==
    LET p == IF i.wait_source = "pin" THEN setup.in_base + i.index_or_value ELSE i.index_or_value
        due == IF i.wait_source = "irq" THEN Bit ELSE {b.pins[p % W]}
    IN {<<b, IF v = i.polarity THEN "done" ELSE "stall">> : v \in due}

\* PULL brings a word, copies X, waits or does nothing; PUSH empties the ISR,
\* waits or does nothing.
PullResults(i, b) ==
    {<<[b EXCEPT !.osr = BitsOf(v)], "done">> : v \in setup.words}
    \cup (IF i.block = 1 THEN {<<b, "stall">>} ELSE {<<[b EXCEPT !.osr = b.x], "done">>})
    \cup (IF i.if_empty = 1 THEN {<<b, "done">>} ELSE {})

PushResults(i, b) ==
    {<<[b EXCEPT !.isr = Zero], "done">>}
    \cup (IF i.block = 1 THEN {<<b, "stall">>} ELSE {<<b, "done">>})
    \cup (IF i.if_full = 1 THEN {<<b, "done">>} ELSE {})

Results(i, b) ==
    CASE i.type = "in" -> InResults(i, b)
      [] i.type = "out" -> OutResults(i, b)
      [] i.type = "mov" -> MovResults(i, b)
      [] i.type = "set" -> SetResults(i, b)
      [] i.type = "jmp" -> JmpResults(i, b)
      [] i.type = "wait" -> WaitResults(i, b)
      [] i.type = "pull" -> PullResults(i, b)
      [] i.type = "push" -> PushResults(i, b)
      [] i.type = "irq" -> {<<b, o>> : o \in IF i.operation = "wait" THEN {"done", "stall"} ELSE {"done"}}

-----------------------------------------------------------------------------
(* Turns *)

\* A side set value, or zero where one is required, has the last word on its pins.
SideSet(i, b) ==
    LET v == IF i.side >= 0 THEN BitsOf(i.side) ELSE Zero
    IN IF i.side < 0 /\ setup.side_optional THEN b
       ELSE IF setup.side_pindirs
            THEN [b EXCEPT !.dirs = Pins(@, setup.side_base, setup.side_num, v)]
            ELSE [b EXCEPT !.pins = Pins(@, setup.side_base, setup.side_num, v)]

\* A key connects its row to its column: of the columns, only that of the key is
\* high, and only while the row is.
Keypad(b) ==
    [b EXCEPT !.pins = [p \in Idx |->
        IF \E c \in DOMAIN setup.cols : setup.cols[c] = p
        THEN IF key # NoKey /\ setup.cols[key[2]] = p THEN b.pins[setup.rows[key[1]]] ELSE 0
        ELSE b.pins[p]]]

Turn == \E i \in setup.program : \E r \in Results(i, bits) :
            bits' = Keypad(SideSet(i, r[1])) /\ outcome' = r[2] /\ UNCHANGED <<setup, key>>

\* What runs when i is executed out of the OSR or another register: i, but
\*  - an IN or OUT of 32 bits moves none
\*  - an OUT may move no more bits than there are output pins
\*  - a MOV that inverts moves X, one that reverses Y, and as they are
\*  - an IRQ does nothing.
Runs(i) ==
    CASE i.type = "in" -> {[i EXCEPT !.bit_count = @ % 32]}
      [] i.type = "out" -> {[i EXCEPT !.bit_count = n] :
                               n \in {i.bit_count % 32} \cup ({setup.out_num} \cap 0..(i.bit_count % 32))}
      [] i.type = "mov" /\ i.operation = "invert" ->
             {[i EXCEPT !.operation = "no_operation", !.source = "x"]}
      [] i.type = "mov" /\ i.operation = "bit_reverse" ->
             {[i EXCEPT !.operation = "no_operation", !.source = "y"]}
      [] i.type = "irq" -> {[i EXCEPT !.operation = "nowait"]}
      [] OTHER -> {i}

\* The pins of side set go to 0 as well, as if the instruction said so.  Whether an
\* executed JMP jumps is left open.
Executed(i, b) ==
    \E r \in UNION {Results(j, b) : j \in Runs(i)}, side \in {-1, 0} :
        /\ bits' = Keypad(SideSet([i EXCEPT !.side = side], r[1]))
        /\ outcome' = r[2] \/ i.type = "jmp"
        /\ outcome' \in {"done", "jump", "stall"}
        /\ UNCHANGED <<setup, key>>
Remaining == {[bits EXCEPT !.osr = Entered(setup.out_right, osr, Zero, setup.exec_bits)] : osr \in Found(bits)}
OutExec == \E i \in setup.execs, b \in Remaining : Executed(i, b)

\* OUT EXEC may fail to execute: its bits are lost.
OutExecRefused == /\ setup.execs # {} /\ \E b \in Remaining : bits' = Keypad(b)
                  /\ outcome' = "stall" /\ UNCHANGED <<setup, key>>
MovExec == \E i \in setup.execs : Executed(i, bits)

\* A turn spent on a delay, the user program's PIN, a key.
DelayTurn == bits' = Keypad(bits) /\ UNCHANGED <<setup, key, outcome>>
UserPin == \E p \in setup.user_pins, v \in Bit :
               bits' = [bits EXCEPT !.pins[p] = v] /\ UNCHANGED <<setup, key, outcome>>
Press == /\ key' \in {NoKey} \cup ((DOMAIN setup.rows) \X (DOMAIN setup.cols))
         /\ UNCHANGED <<setup, bits, outcome>>

BInit == /\ setup \in Setups
         /\ bits = [isr |-> Zero, osr |-> Zero, x |-> Zero, y |-> Zero, pins |-> Zero, dirs |-> Zero]
         /\ key = NoKey /\ outcome = "done"

BNext == Turn \/ OutExec \/ OutExecRefused \/ MovExec \/ DelayTurn \/ UserPin \/ Press

BSpec == BInit /\ [][BNext]_<<setup, bits, key, outcome>>
=============================================================================
