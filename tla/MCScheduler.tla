---------------------------- MODULE MCScheduler ----------------------------
(***************************************************************************)
(* Scheduler with three state machines, so that round robin is more than   *)
(* alternation, or with two and one or two interrupt handlers.             *)
(***************************************************************************)
EXTENDS Scheduler

Instr(continue_user, delay, write, exit) ==
    [continue_user |-> continue_user, delay |-> delay, write |-> write, exit |-> exit,
     empty |-> FALSE]

\* user instructions without and with [->]
MCPlainInstrs == {Instr(FALSE, delay, write, FALSE) : delay \in {0, 1}, write \in BOOLEAN}
                     \cup {Instr(FALSE, 0, FALSE, TRUE)}
MCAllInstrs   == {Instr(go, delay, write, FALSE) :
                     go \in BOOLEAN, delay \in {0, 2}, write \in BOOLEAN}
                     \cup {Instr(FALSE, 0, FALSE, TRUE)}
MCOther       == {Instr(FALSE, 0, FALSE, FALSE)}

MCNoHandlers == [f \in {} |-> 0]
MCOneHandler == [f \in 0..1 |-> 0]
MCTwoHandlers == [f \in 0..1 |-> f]
=============================================================================
