------------------------------- MODULE UserData -------------------------------
(***************************************************************************)
(* The user instructions of execution.c: user processors that move bytes   *)
(* between their data areas, the variables and the FIFOs of a state        *)
(* machine, one byte a turn, each waiting where the FIFO makes it wait.    *)
(*                                                                         *)
(* The state machine's program takes words from its TX FIFO and hands them *)
(* on to its RX FIFO, as the sender and the receiver of                    *)
(* tests/test_data.simpio do together.  Turns come in any order; the order *)
(* the code takes them in is the matter of Scheduler.                      *)
(***************************************************************************)
EXTENDS FifoQueue

CONSTANTS UPs,          \* user processors
          Programs,     \* what they run: functions from UPs to sequences of instructions
          Max,          \* STRING_MAX
          Stop,         \* the byte that ends a line: '.'
          NUL,          \* the byte that ends a string
          Vars,         \* the variables .config var has defined
          None

ASSUME UserAssumption ==
    /\ Max \in Nat \ {0, 1} /\ {Stop, NUL} \subseteq Values /\ None \notin Values
    /\ \A p \in Programs : \A u \in UPs : \A k \in DOMAIN p[u] :
          /\ p[u][k].op \in {"write", "read", "print", "data_write", "data_read", "data_readln",
                             "data_print", "data_set", "data_clear", "pin", "repeat", "exit"}
          /\ p[u][k].op = "write" => p[u][k].arg \in Values
          /\ p[u][k].op = "data_set" => p[u][k].arg \in Seq(Values \ {NUL})

VARIABLES program, pc,
          data,         \* each processor's data area
          index,        \* data_index of the instruction at the pc
          delay_left,   \* of that instruction: -1 before its delay has begun
          vars_set,     \* of each variable its value, or None: value and has_value
          exited,       \* SIMULATION_EXITED
          wire,         \* what the state machine has taken and not yet handed on
          owed,         \* history: what was written and not yet read by a whole instruction
          line,         \* history: what the last such instruction has read,
          reader        \*   and its name

uvars == <<program, pc, data, index, delay_left, vars_set, exited, wire, owed, line, reader>>
vars == <<qvars, uvars>>

Cells == 0..(Max - 1)

Init == /\ QInit
        /\ program \in Programs /\ pc = [u \in UPs |-> 1]
        /\ data = [u \in UPs |-> [k \in Cells |-> NUL]]
        /\ index = [u \in UPs |-> 0] /\ delay_left = [u \in UPs |-> -1]
        /\ vars_set = [v \in Vars |-> None] /\ exited = FALSE /\ wire = None
        /\ owed = <<>> /\ line = <<>> /\ reader = "none"

Instr(u) == program[u][pc[u]]

\* Behind the data area lies padding, which is zero.
Byte(u, k) == IF k \in Cells THEN data[u][k] ELSE NUL
StrLen(u) == CHOOSE n \in 0..Max : Byte(u, n) = NUL /\ \A k \in 0..(n - 1) : Byte(u, k) # NUL

-----------------------------------------------------------------------------
(* exec_run_user_instruction: the delay comes first; an instruction that   *)
(* does not complete is run again, without its delay.                      *)

Active(u) == ~exited /\ pc[u] \in DOMAIN program[u]

\* Mutant: that the delay is over is not remembered.
DelaysAlways(u) == Instr(u).delay > 0

Delays(u) == Instr(u).delay > 0 /\ (delay_left[u] = -1 \/ delay_left[u] > 1)

DelayTurn(u) ==
    /\ Active(u) /\ Delays(u)
    /\ delay_left' = [delay_left EXCEPT ![u] = IF @ = -1 THEN Instr(u).delay ELSE @ - 1]
    /\ UNCHANGED <<qvars, program, pc, data, index, vars_set, exited, wire, owed, line, reader>>

Runs(u, op) == Active(u) /\ ~Delays(u) /\ Instr(u).op = op

\* Mutant: the next instruction begins where this one's index stood.
FinishKeepIndex(u) == /\ pc' = [pc EXCEPT ![u] = @ + 1]
                      /\ index' = [index EXCEPT ![u] = @ + 1]
                      /\ delay_left' = [delay_left EXCEPT ![u] = -1]

\* instruction_user_reset
Finish(u) == /\ pc' = [pc EXCEPT ![u] = @ + 1]
             /\ index' = [index EXCEPT ![u] = 0]
             /\ delay_left' = [delay_left EXCEPT ![u] = -1]

Continue(u, k) == /\ pc' = pc /\ index' = [index EXCEPT ![u] = k]
                  /\ delay_left' = [delay_left EXCEPT ![u] = IF Instr(u).delay > 0 THEN 0 ELSE -1]

\* The FIFO has no room, or nothing to read.
Blocked(u) == Continue(u, index[u]) /\ UNCHANGED <<qvars, data, vars_set, owed, line, reader>>

Elsewhere == UNCHANGED <<program, exited, wire>>
NoRoom == Len(tx) = TxCapacity(mode)

-----------------------------------------------------------------------------
(* The instructions *)

Write(u) ==
    /\ Runs(u, "write") /\ Elsewhere
    /\ IF NoRoom THEN Blocked(u)
       ELSE /\ QWrite(Instr(u).arg) /\ Finish(u)
            /\ owed' = Append(owed, Instr(u).arg)
            /\ UNCHANGED <<data, vars_set, line, reader>>

\* Setting a variable nobody defined only prints a complaint.
Read(u) ==
    /\ Runs(u, "read") /\ Elsewhere
    /\ IF rx = <<>> THEN Blocked(u)
       ELSE /\ QRead /\ Finish(u)
            /\ vars_set' = [v \in Vars |-> IF v = Instr(u).arg THEN out' ELSE vars_set[v]]
            /\ line' = <<out'>> /\ reader' = "read" /\ owed' = Tail(owed)
            /\ UNCHANGED data

\* Mutant: the whole data area is written, not the string in it.
SentToEnd(u, k) == k = Max

\* One byte of the string a turn; an empty one is never found to be at its end.
Sent(u, k) == k = StrLen(u)

DataWrite(u) ==
    /\ Runs(u, "data_write") /\ Elsewhere
    /\ index[u] <= Max             \* bound: no further into the memory behind the area
    /\ IF NoRoom THEN Blocked(u)
       ELSE /\ QWrite(Byte(u, index[u]))
            /\ owed' = Append(owed, Byte(u, index[u]))
            /\ IF Sent(u, index[u] + 1) THEN Finish(u) ELSE Continue(u, index[u] + 1)
            /\ UNCHANGED <<data, vars_set, line, reader>>

\* READ reads until the area is full, max_read_index being -1; READLN also ends
\* after a stop.  Nothing puts a NUL behind the bytes.
Ends(u, value) == (Instr(u).op = "data_readln" /\ value = Stop) \/ index[u] + 1 = Max

DataRead(u) ==
    /\ Runs(u, "data_read") \/ Runs(u, "data_readln")
    /\ Elsewhere
    /\ IF rx = <<>> THEN Blocked(u)
       ELSE /\ QRead
            /\ data' = [data EXCEPT ![u] = [k \in Cells |-> IF k = index[u] THEN out' ELSE @[k]]]
            /\ IF Ends(u, out')
               THEN /\ Finish(u)
                    /\ line' = [k \in 1..(index[u] + 1) |-> data'[u][k - 1]]
                    /\ reader' = Instr(u).op
                    /\ owed' = SubSeq(owed, index[u] + 2, Len(owed))
               ELSE Continue(u, index[u] + 1) /\ UNCHANGED <<owed, line, reader>>
            /\ UNCHANGED vars_set

\* snprintf keeps room for the NUL; what lies behind it stays.
DataSet(u) ==
    /\ Runs(u, "data_set") /\ Finish(u) /\ Elsewhere
    /\ LET s == Instr(u).arg
           n == IF Len(s) < Max THEN Len(s) ELSE Max - 1
       IN data' = [data EXCEPT ![u] = [k \in Cells |-> IF k < n THEN s[k + 1]
                                                       ELSE IF k = n THEN NUL ELSE @[k]]]
    /\ UNCHANGED <<qvars, vars_set, owed, line, reader>>

\* Only the first byte is cleared.
DataClear(u) ==
    /\ Runs(u, "data_clear") /\ Finish(u) /\ Elsewhere
    /\ data' = [data EXCEPT ![u][0] = NUL]
    /\ UNCHANGED <<qvars, vars_set, owed, line, reader>>

\* PRINT and DATA PRINT write to the screen, PIN sets a pin (DataPath).
Show(u) ==
    /\ Runs(u, "print") \/ Runs(u, "data_print") \/ Runs(u, "pin")
    /\ Finish(u) /\ Elsewhere
    /\ UNCHANGED <<qvars, data, vars_set, owed, line, reader>>

Repeat(u) ==
    /\ Runs(u, "repeat") /\ Elsewhere
    /\ pc' = [pc EXCEPT ![u] = 1]
    /\ index' = [index EXCEPT ![u] = 0] /\ delay_left' = [delay_left EXCEPT ![u] = -1]
    /\ UNCHANGED <<qvars, data, vars_set, owed, line, reader>>

Exit(u) ==
    /\ Runs(u, "exit") /\ Finish(u) /\ exited' = TRUE
    /\ UNCHANGED <<qvars, program, data, vars_set, wire, owed, line, reader>>

UserTurn(u) == \/ DelayTurn(u) \/ Write(u) \/ Read(u) \/ DataWrite(u) \/ DataRead(u)
               \/ DataSet(u) \/ DataClear(u) \/ Show(u) \/ Repeat(u) \/ Exit(u)

\* The state machine: PULL and, when there is room, PUSH, which both block.
SmPull == /\ ~exited /\ wire = None /\ tx # <<>>
          /\ QPull /\ wire' = out'
          /\ UNCHANGED <<program, pc, data, index, delay_left, vars_set, exited, owed, line, reader>>

SmPush == /\ ~exited /\ wire # None /\ Len(rx) < RxCapacity(mode)
          /\ QPush(wire) /\ wire' = None
          /\ UNCHANGED <<program, pc, data, index, delay_left, vars_set, exited, owed, line, reader>>

\* After EXIT, or with every program at its end, steps change nothing.
Idle == (exited \/ \A u \in UPs : ~Active(u)) /\ UNCHANGED vars

Next == SmPull \/ SmPush \/ (\E u \in UPs : UserTurn(u)) \/ Idle

\* Turns go round (Scheduler's RoundRobin): nobody who can take
\* one waits for ever.
Fairness == WF_vars(SmPull) /\ WF_vars(SmPush) /\ \A u \in UPs : WF_vars(UserTurn(u))

Spec == Init /\ [][Next]_vars /\ Fairness

-----------------------------------------------------------------------------
(* What must hold *)

\* The part of a line that an unfinished READ or READLN has stored already, also
\* when an EXIT leaves it unfinished.
Stored(u) == IF pc[u] \in DOMAIN program[u] /\ Instr(u).op \in {"data_read", "data_readln"}
             THEN [k \in 1..index[u] |-> data[u][k - 1]] ELSE <<>>

\* Every byte that was written is, once and in its place, stored, queued or under
\* way, however the writer's and the reader's turns and their waits fall, and no
\* transfer's place leaves its data area (run_data_instruction, run_write_instruction, run_read_instruction).  The
\* programs have one reader.
BytesArriveInOrder ==
    /\ index \in [UPs -> Cells]
    /\ \E u \in UPs :
          /\ \A w \in UPs \ {u} : Stored(w) = <<>>
          /\ owed = Stored(u) \o rx \o (IF wire = None THEN <<>> ELSE <<wire>>) \o tx

\* doc/pio_programming.md: a READLN "reads a line of input, which for simulation
\* purposes is a period at the end of the input string".  A line ends at its first
\* stop, or where the data area ends; every line starts at its first byte and a
\* data area that is written out ends at its NUL.
LinesAreWhole ==
    /\ reader = "data_readln" =>
          /\ line[Len(line)] = Stop \/ Len(line) = Max
          /\ \A k \in 1..(Len(line) - 1) : line[k] # Stop
    /\ reader = "data_read" => Len(line) = Max
    /\ reader \in {"data_read", "data_readln"} => \A k \in DOMAIN line : line[k] # NUL

\* A transfer that has begun comes to its end, unless the program exits.
TransfersComplete == \A u \in UPs : index[u] > 0 ~> index[u] = 0 \/ exited
=============================================================================
