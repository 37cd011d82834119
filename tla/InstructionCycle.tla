-------------------------- MODULE InstructionCycle --------------------------
(***************************************************************************)
(* exec_run_instruction of src/execution.c with the instructions that      *)
(* decide where a state machine goes next.  One turn of a state machine is *)
(* one call.  What is remembered between the turns of an instruction (its  *)
(* delay, the target of a JMP, whether an IRQ WAIT has raised its flag) is *)
(* kept in the instruction memory, one cell per address, and not with the  *)
(* state machine.                                                          *)
(***************************************************************************)
EXTENDS PioProgram

VARIABLES program,
          pc,                      \* of each state machine
          in_delay_state, delay_left, jmp_pc, already_set_waiting,  \* of each instruction
          flags                    \* the hardware_irq_flags that are set

cells == <<in_delay_state, delay_left, jmp_pc, already_set_waiting>>
vars  == <<program, pc, cells, flags>>

Here(s) == program.code[pc[s]]

\* hardware_reset_sm, with the instruction memory as built.
Init ==
    /\ program \in Programs
    /\ pc = program.first
    /\ in_delay_state = [a \in Addrs |-> FALSE]
    /\ delay_left = [a \in Addrs |-> 0]
    /\ jmp_pc = [a \in Addrs |-> 0]
    /\ already_set_waiting = [a \in Addrs |-> FALSE]
    /\ flags = {}

\* Mutant: instruction_reset forgets the delay.
InDelayKept(a) == in_delay_state

\* instruction_reset
OutOfDelay(a) == [in_delay_state EXCEPT ![a] = FALSE]

\* Mutant: a JMP goes on as any other instruction.
TargetNotJumped(s, here) == After(program, s, here)

\* Where s goes with here in its pc: a JMP goes where it found out at its first
\* turn, any other instruction to the next address.
Target(s, here) ==
    IF Here(s).op \in Jumps THEN jmp_pc'[pc[s]] ELSE After(program, s, here)

\* The instruction of s is completed.
Complete(s, here) ==
    /\ pc' = [pc EXCEPT ![s] = Target(s, here)]
    /\ in_delay_state' = OutOfDelay(pc[s])
    /\ delay_left' = [delay_left EXCEPT ![pc[s]] = 0]

\* Mutant: the turn that does the work is not counted.
DelayTooLong(i) == i.delay

\* The turns of delay after the next one.
DelayAfter(i) == i.delay - 1

\* The work of the instruction is done; here is what it leaves in the pc.
Done(s, here) ==
    /\ IF Here(s).delay > 0
       THEN /\ in_delay_state' = [in_delay_state EXCEPT ![pc[s]] = TRUE]
            /\ delay_left' = [delay_left EXCEPT ![pc[s]] = DelayAfter(Here(s))]
            /\ pc' = [pc EXCEPT ![s] = here]
       ELSE Complete(s, here)
    /\ UNCHANGED program

\* s has an instruction, not in its delay, of one of these kinds.
Executes(s, ops) == pc[s] \in Addrs /\ ~in_delay_state[pc[s]] /\ Here(s).op \in ops

\* run_jmp_instruction; a JMP that does not jump ignores the wrap.
Jmp(s) ==
    /\ Executes(s, Jumps)
    /\ \/ jmp_pc' = [jmp_pc EXCEPT ![pc[s]] = Here(s).arg]
       \/ Here(s).op = "jmp_if" /\ jmp_pc' = [jmp_pc EXCEPT ![pc[s]] = pc[s] + 1]
    /\ Done(s, pc[s])
    /\ UNCHANGED <<already_set_waiting, flags>>

\* The pc is written one too low, for the increment at the end of the turn.
WritePc(s) ==
    /\ Executes(s, {"pc"})
    /\ Done(s, Here(s).arg - 1)
    /\ UNCHANGED <<jmp_pc, already_set_waiting, flags>>

\* Any other instruction, when it does not block.
Data(s) ==
    /\ Executes(s, {"data"})
    /\ Done(s, pc[s])
    /\ UNCHANGED <<jmp_pc, already_set_waiting, flags>>

\* run_wait_instruction on an IRQ flag, which is taken as it is written, without
\* REL, and is not cleared, although the comment there (execution.c:835) says that a
\* WAIT for 1 clears it.
Wait(s) ==
    /\ \/ Executes(s, {"wait_high"}) /\ Here(s).arg \in flags
       \/ Executes(s, {"wait_low"}) /\ Here(s).arg \notin flags
    /\ Done(s, pc[s])
    /\ UNCHANGED <<jmp_pc, already_set_waiting, flags>>

\* run_irq_instruction, nowait_operation and clear_operation
Irq(s) ==
    /\ \/ Executes(s, {"irq_set"}) /\ flags' = Raise(flags, FlagOf(Here(s), s))
       \/ Executes(s, {"irq_clear"}) /\ flags' = flags \ {FlagOf(Here(s), s)}
    /\ Done(s, pc[s])
    /\ UNCHANGED <<jmp_pc, already_set_waiting>>

\* Mutant: the next IRQ WAIT here does not raise its flag.
StaysWaiting(a) == already_set_waiting

NotWaiting(a) == [already_set_waiting EXCEPT ![a] = FALSE]

\* run_irq_instruction, wait_operation: the turn that raises the flag ...
IrqRaise(s) ==
    /\ Executes(s, {"irq_wait"}) /\ ~already_set_waiting[pc[s]]
    /\ flags' = Raise(flags, FlagOf(Here(s), s))
    /\ already_set_waiting' = [already_set_waiting EXCEPT ![pc[s]] = TRUE]
    /\ UNCHANGED <<program, pc, in_delay_state, delay_left, jmp_pc>>

\* ... and the one that finds it cleared.
IrqCleared(s) ==
    /\ Executes(s, {"irq_wait"}) /\ already_set_waiting[pc[s]]
    /\ FlagOf(Here(s), s) \notin flags
    /\ already_set_waiting' = NotWaiting(pc[s])
    /\ Done(s, pc[s])
    /\ UNCHANGED <<jmp_pc, flags>>

\* Mutant: the delay is counted down without a look at it.
CountDownBlindly(s) == delay_left[pc[s]] >= 0

StillDelayed(s) == delay_left[pc[s]] > 0

\* A turn in the delay.
DelayTurn(s) ==
    /\ pc[s] \in Addrs /\ in_delay_state[pc[s]]
    /\ IF StillDelayed(s)
       THEN /\ delay_left' = [delay_left EXCEPT ![pc[s]] = @ - 1]
            /\ UNCHANGED <<pc, in_delay_state, jmp_pc>>
       ELSE UNCHANGED jmp_pc /\ Complete(s, pc[s])
    /\ UNCHANGED <<program, already_set_waiting, flags>>

Turn(s) == \/ Jmp(s) \/ WritePc(s) \/ Data(s) \/ Wait(s) \/ Irq(s)
           \/ IrqRaise(s) \/ IrqCleared(s) \/ DelayTurn(s)

Next == \E s \in SMs : Turn(s)

Spec == Init /\ [][Next]_vars

\* The scheduler gives every state machine its turns.
FairSpec == Spec /\ \A s \in SMs : WF_vars(Turn(s))

-----------------------------------------------------------------------------
(* What must hold *)

TypeOK ==
    /\ program \in Program
    /\ pc \in [SMs -> Int]
    /\ in_delay_state \in [Addrs -> BOOLEAN] /\ delay_left \in [Addrs -> Nat]
    /\ jmp_pc \in [Addrs -> Nat]
    /\ already_set_waiting \in [Addrs -> BOOLEAN]
    /\ flags \subseteq Flags

\* A state machine stays in its own program: the next-instruction pointer of
\* exec_run_instruction comes from labels, the wrap and a counter, and nothing
\* there checks it.
StaysInOwnProgram == \A s \in SMs : pc[s] \in Own(program, s)

\* doc/pio_programming.md:629: a state machine is in a delay state "because the
\* currently executing instruction had a delay".  No instruction is left in its
\* delay, or waiting for its flag, when its state machine has gone on: it would
\* be skipped the next time.
MarksAreCurrent ==
    \A a \in Addrs : in_delay_state[a] \/ already_set_waiting[a] =>
                        \E s \in SMs : pc[s] = a

\* What each state machine's own cell says.
DelayedAt(s) == pc[s] \in Addrs /\ in_delay_state[pc[s]]

Left  == [s \in SMs |-> IF DelayedAt(s) THEN delay_left[pc[s]] ELSE -1]
Goal  == [s \in SMs |-> IF ~DelayedAt(s) THEN -1
                        ELSE IF Here(s).op \in Jumps THEN jmp_pc[pc[s]]
                        ELSE After(program, s, pc[s])]
Armed == [s \in SMs |-> pc[s] \in Addrs /\ already_set_waiting[pc[s]]]

Machines == INSTANCE StateMachines WITH
                at <- pc, left <- Left, goal <- Goal, armed <- Armed

\* The state machines are independent although the instructions they execute
\* keep their state: each does the work of every instruction once, then waits
\* exactly the turns of its delay (doc/pio_programming.md:548), then goes on.  On
\* whether WAIT clears its flag this follows the code, not its comment.
ImplementsMachines == Machines!MSpec

\* doc/pio_programming.md:761: flags synchronise state machines.  When, of two, s loops
\* through a program that starts with an IRQ WAIT, and t through one that waits
\* for the same flag and clears it, both go round and round, whatever delays the
\* instructions have.
Asks(p, s, f) ==
    /\ p.code[p.first[s]].op = "irq_wait" /\ FlagOf(p.code[p.first[s]], s) = f
    /\ \A a \in (p.first[s] + 1)..p.last[s] :
           p.code[a].op \in {"jmp", "pc"} /\ p.code[a].arg = p.first[s]
Answers(p, t, f) ==
    /\ p.last[t] = p.first[t] + 1
    /\ p.code[p.first[t]].op = "wait_high" /\ p.code[p.first[t]].arg = f
    /\ p.code[p.last[t]].op = "irq_clear" /\ FlagOf(p.code[p.last[t]], t) = f
Handshake(p, s, t) == SMs = {s, t} /\ s # t /\ \E f \in Flags : Asks(p, s, f) /\ Answers(p, t, f)
HandshakeGoesOn ==
    \A s, t \in SMs : Handshake(program, s, t) =>
        []<>(pc[s] = program.first[s] /\ pc[t] = program.last[t])
=============================================================================
