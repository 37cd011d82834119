--------------------------- MODULE StateMachines ---------------------------
(***************************************************************************)
(* What the state machines of a PIO promise: each has a place in its own   *)
(* program and a delay of its own; it does the work of an instruction once *)
(* (or waits until it can), then waits as many turns as the instruction's  *)
(* delay says, and then moves to the next one.  They share the IRQ flags,  *)
(* and nothing else.                                                       *)
(***************************************************************************)
EXTENDS PioProgram

VARIABLES program,
          at,       \* where each state machine is
          left,     \* turns of delay left before the last one; -1 outside a delay
          goal,     \* where it goes after the delay; -1 outside a delay
          armed,    \* whether its IRQ WAIT has raised its flag
          flags

mvars == <<program, at, left, goal, armed, flags>>

Here(s) == program.code[at[s]]
Following(s) == After(program, s, at[s])

MInit ==
    /\ program \in Program
    /\ at = program.first
    /\ left = [s \in SMs |-> -1] /\ goal = [s \in SMs |-> -1]
    /\ armed = [s \in SMs |-> FALSE]
    /\ flags = {}

Begins(s, ops) == at[s] \in Addrs /\ left[s] = -1 /\ Here(s).op \in ops

\* The work is done: on to next, after the delay.
GoesOn(s, next) ==
    /\ IF Here(s).delay = 0
       THEN at' = [at EXCEPT ![s] = next] /\ UNCHANGED <<left, goal>>
       ELSE /\ left' = [left EXCEPT ![s] = Here(s).delay - 1]
            /\ goal' = [goal EXCEPT ![s] = next]
            /\ UNCHANGED at
    /\ UNCHANGED program

Jump(s) ==
    /\ Begins(s, Jumps \cup {"pc"})
    /\ \/ GoesOn(s, Here(s).arg)
       \/ Here(s).op = "jmp_if" /\ GoesOn(s, Following(s))
    /\ UNCHANGED <<armed, flags>>

Data(s) == Begins(s, {"data"}) /\ GoesOn(s, Following(s)) /\ UNCHANGED <<armed, flags>>

\* A flag waited for stays as it is.  The comment on the code (execution.c:835) says
\* otherwise, that a WAIT for 1 clears it; the code does not, and this is the code's
\* promise: who relies on the comment finds the flag raised again.
Wait(s) ==
    /\ \/ Begins(s, {"wait_high"}) /\ Here(s).arg \in flags
       \/ Begins(s, {"wait_low"}) /\ Here(s).arg \notin flags
    /\ GoesOn(s, Following(s))
    /\ UNCHANGED <<armed, flags>>

Irq(s) ==
    /\ \/ Begins(s, {"irq_set"}) /\ flags' = Raise(flags, FlagOf(Here(s), s))
       \/ Begins(s, {"irq_clear"}) /\ flags' = flags \ {FlagOf(Here(s), s)}
    /\ GoesOn(s, Following(s))
    /\ UNCHANGED armed

\* An IRQ WAIT raises its flag, and is done when somebody has cleared it.
Arm(s) ==
    /\ Begins(s, {"irq_wait"}) /\ ~armed[s]
    /\ flags' = Raise(flags, FlagOf(Here(s), s))
    /\ armed' = [armed EXCEPT ![s] = TRUE]
    /\ UNCHANGED <<program, at, left, goal>>

Release(s) ==
    /\ Begins(s, {"irq_wait"}) /\ armed[s] /\ FlagOf(Here(s), s) \notin flags
    /\ armed' = [armed EXCEPT ![s] = FALSE]
    /\ GoesOn(s, Following(s))
    /\ UNCHANGED flags

\* A turn of delay; the last one ends in the move.
Delay(s) ==
    /\ left[s] >= 0
    /\ IF left[s] > 0
       THEN left' = [left EXCEPT ![s] = @ - 1] /\ UNCHANGED <<at, goal>>
       ELSE /\ at' = [at EXCEPT ![s] = goal[s]]
            /\ left' = [left EXCEPT ![s] = -1] /\ goal' = [goal EXCEPT ![s] = -1]
    /\ UNCHANGED <<program, armed, flags>>

MNext == \E s \in SMs : \/ Jump(s) \/ Data(s) \/ Wait(s) \/ Irq(s)
                        \/ Arm(s) \/ Release(s) \/ Delay(s)

MSpec == MInit /\ [][MNext]_mvars
=============================================================================
