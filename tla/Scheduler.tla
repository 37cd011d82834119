----------------------------- MODULE Scheduler -----------------------------
(***************************************************************************)
(* The scheduler of src/execution.c: every call of                         *)
(* exec_step_programs_next_instruction gives one turn to a user processor, *)
(* to a state machine or, in interrupt context, to an interrupt handler.   *)
(*                                                                         *)
(* What a turn does is abstracted to what the scheduler can see: whether   *)
(* the instruction completed, whether its processor still has an           *)
(* instruction at its pc, the IRQ flags, and the fill of one TX FIFO on    *)
(* which a user WRITE can block and from which every state machine pulls.  *)
(* A NULL pointer is None; a prefetched instruction is named by the        *)
(* processor it belongs to.                                                *)
(***************************************************************************)
EXTENDS Integers, FiniteSets

CONSTANTS NumSMs, NumUPs,     \* NUM_PIOS * NUM_SMS and NUM_USER_PROCESSORS
          NumIHs, NumFlags,   \* NUM_IH_PROCESSORS, and the IRQ flags that are mapped
          HandlerOf,          \* the handler each of these flags is mapped to
          IhLength,           \* next_instruction_location of every handler
          IhOutcomes,         \* what a handler's instruction may do
          UserInstrs,         \* the user instructions programs are made of, see UserInstr
          SmMayEnd,           \* whether a state machine program may run off its end
          Capacity            \* of the TX FIFO

None == -1
SMs == 0..(NumSMs - 1)
UPs == 0..(NumUPs - 1)
IHs == 0..(NumIHs - 1)
Flags == 0..(NumFlags - 1)

\* a user processor's pc at or past the end of its program
Empty == [continue_user |-> FALSE, delay |-> 0, write |-> FALSE, exit |-> FALSE, empty |-> TRUE]

\* continue_user is [->]; delay counts the turns before the instruction runs.
UserInstr == [continue_user : BOOLEAN, delay : 0..31, write : BOOLEAN, exit : BOOLEAN,
              empty : {FALSE}]

ASSUME SchedulerAssumption ==
    /\ NumSMs \in Nat \ {0} /\ NumUPs \in Nat \ {0}
    /\ NumIHs \in Nat /\ NumFlags \in Nat
    /\ HandlerOf \in [Flags -> IHs]
    /\ IhLength \in Nat \ {0}
    /\ IhOutcomes \subseteq {"done", "repeat", "exit"}
    /\ UserInstrs \subseteq UserInstr
    /\ SmMayEnd \in BOOLEAN
    /\ Capacity \in Nat

VARIABLES smRun,             \* the state machines with an instruction at their pc
          upInstr,           \* the instruction at each user processor's pc
          sm_cursor, up_cursor,      \* static sm and up of the two searches
          instruction, user_instruction,  \* the prefetched instructions
          delay_left,        \* of each upInstr; -1 before its delay began, 0 after it
          try_user_first,
          exec_context, exited,
          flags,             \* the IRQ flags that are set
          ih_pc, ih_enabled,
          tx,                \* words in the TX FIFO of state machine 0
          turn,              \* history: who had the last turn, and if it was [->]
          sm_waited, up_waited  \* history: turns others had since its own, while it could run

waited   == <<sm_waited, up_waited>>
programs == <<smRun, upInstr, delay_left, tx>>
cursors  == <<sm_cursor, up_cursor, instruction, user_instruction>>
ihs      == <<ih_pc, ih_enabled>>
vars     == <<programs, cursors, try_user_first, exec_context, exited, flags, ihs, turn, waited>>

Turns == [kind : {"none", "user", "sm"}, who : SMs \cup UPs \cup {None}, go : BOOLEAN]

UpRun(instrs) == {u \in UPs : ~instrs[u].empty}

-----------------------------------------------------------------------------
(* The two searches *)

\* next_instruction: from the cursor once round all state machines, the one at
\* the cursor last.
SmOrder(cursor) == [k \in 1..NumSMs |-> (cursor + k) % NumSMs]

\* Mutant: the search runs past the last processor.
UpOrderUnbounded(cursor, dont_switch) == [k \in 1..NumUPs |-> cursor + k]

\* next_user_instruction: as many looks as there are processors, but the step
\* past the last one is a look at nothing.
UpOrder(cursor, dont_switch) ==
    [k \in 1..NumUPs |->
        IF dont_switch THEN (IF cursor = None THEN 0 ELSE cursor)
        ELSE LET p == cursor + k
             IN IF p < NumUPs THEN p ELSE IF p = NumUPs THEN None ELSE p - NumUPs - 1]

\* Mutant: the search starts over at the first processor.
FindFirst(order, run) ==
    IF run = {} THEN [cursor |-> order[Cardinality(DOMAIN order)], found |-> None]
    ELSE LET w == CHOOSE w \in run : \A v \in run : w <= v IN [cursor |-> w, found |-> w]

\* The first look that finds an instruction, and where the cursor is left.
Find(order, run) ==
    LET hits == {k \in DOMAIN order : order[k] \in run}
        first == CHOOSE k \in hits : \A j \in hits : k <= j
    IN IF hits = {} THEN [cursor |-> order[Cardinality(DOMAIN order)], found |-> None]
       ELSE [cursor |-> order[first], found |-> order[first]]

NextSm(cursor, run) == Find(SmOrder(cursor), run)

NextUser(cursor, run, dont_switch) == Find(UpOrder(cursor, dont_switch), run)

\* try_sm and try_user: search again if there is nothing yet.
TrySm(f, run)   == IF f.found = None THEN NextSm(f.cursor, run) ELSE f
TryUser(f, run) == IF f.found = None THEN NextUser(f.cursor, run, FALSE) ELSE f

\* What the step about to run finds.
FoundSm   == TrySm([cursor |-> sm_cursor, found |-> instruction], smRun)
FoundUser == TryUser([cursor |-> up_cursor, found |-> user_instruction], UpRun(upInstr))

-----------------------------------------------------------------------------

Init ==
    /\ smRun \in SUBSET SMs
    /\ upInstr \in [UPs -> UserInstrs \cup {Empty}]
    /\ sm_cursor = None /\ up_cursor = None
    /\ instruction = None /\ user_instruction = None
    /\ delay_left = [u \in UPs |-> -1]
    /\ try_user_first = TRUE
    /\ exec_context = "normal" /\ exited = FALSE
    /\ flags = {}
    /\ ih_pc = [h \in IHs |-> -1] /\ ih_enabled = [h \in IHs |-> FALSE]
    /\ tx = 0
    /\ turn = [kind |-> "none", who |-> None, go |-> FALSE]
    /\ sm_waited = [s \in SMs |-> 0] /\ up_waited = [u \in UPs |-> 0]

\* History: p had a turn, whoever of run is waiting has waited one turn more.
Waited(old, run, p, bound) ==
    [q \in DOMAIN old |-> IF q = p \/ q \notin run THEN 0
                          ELSE IF old[q] < bound THEN old[q] + 1 ELSE bound]

Running(context) == ~exited /\ exec_context = context

\* Mutant: the next instruction is looked up before this one runs.
PrefetchEarly(before, after) == before

\* The instructions the search after a turn sees: those after the turn.
PrefetchFrom(before, after) == after

\* delay_left after one more turn of an instruction that is not completed.
Delayed(i, left) == IF i.delay = 0 THEN left
                    ELSE IF left = -1 THEN i.delay
                    ELSE IF left > 0 THEN left - 1
                    ELSE 0

\* Mutant: [->] already counts while the instruction is still delayed.
ContinueWhileDelayed(i, left) == i.continue_user

\* Mutant: every instruction continues.
ContinueAlways(i, left) == i.delay = 0 \/ left = 1

\* Whether another user instruction follows at once: [->] counts at the turn on
\* which the delay ends, and at no later one.
Continue(i, left) == i.continue_user /\ (i.delay = 0 \/ left = 1)

\* A user processor's turn: a cycle of its instruction's delay, or the
\* instruction itself, which does not complete when it is a WRITE to a full FIFO.
UserTurn ==
    LET u == FoundUser.found
        i == upInstr[u]
        left == Delayed(i, delay_left[u])
        go == Continue(i, delay_left[u])
        completed == left <= 0 /\ ~(i.write /\ tx = Capacity)
        run == PrefetchFrom(UpRun(upInstr), UpRun(upInstr'))
    IN /\ Running("normal")
       /\ u # None /\ (try_user_first \/ FoundSm.found = None)
       /\ try_user_first' = go
       /\ IF completed
          THEN /\ \E next \in UserInstrs \cup {Empty} : upInstr' = [upInstr EXCEPT ![u] = next]
               /\ tx' = IF i.write THEN tx + 1 ELSE tx
               /\ delay_left' = [delay_left EXCEPT ![u] = -1]
          ELSE /\ UNCHANGED <<upInstr, tx>>
               /\ delay_left' = [delay_left EXCEPT ![u] = left]
       /\ exited' = (completed /\ i.exit)
       /\ LET next == TryUser(NextUser(FoundUser.cursor, run, go), run)
          IN IF exited'
             THEN up_cursor' = FoundUser.cursor /\ user_instruction' = u
             ELSE up_cursor' = next.cursor /\ user_instruction' = next.found
       /\ sm_cursor' = FoundSm.cursor /\ instruction' = FoundSm.found
       /\ turn' = [kind |-> "user", who |-> u, go |-> i.continue_user /\ left <= 0]
       /\ up_waited' = Waited(up_waited, UpRun(upInstr), u, NumUPs)
       /\ UNCHANGED <<sm_waited, smRun, exec_context, flags, ihs>>

\* Mutant: a handler that was entered once is never entered again.
FiresOnce(set) == {f \in set : ih_pc[HandlerOf[f]] < 0}

\* The flag fired_ihs acts on: the first one set whose handler is not enabled.
Fires(set) == {f \in set : ~ih_enabled[HandlerOf[f]]}

FiredHandler(set) == HandlerOf[CHOOSE f \in Fires(set) : \A g \in Fires(set) : f <= g]

\* A state machine's turn: its instruction pulls a word, sets or clears a flag,
\* does something else or blocks, and its program may come to its end.
SmTurn ==
    LET s == FoundSm.found
    IN /\ Running("normal")
       /\ s # None /\ (~try_user_first \/ FoundUser.found = None)
       /\ try_user_first' = TRUE
       /\ tx' = IF s = 0 /\ tx > 0 THEN tx - 1 ELSE tx
       /\ \/ flags' = flags
          \/ \E f \in Flags : flags' = flags \cup {f} \/ flags' = flags \ {f}
       /\ \/ smRun' = smRun
          \/ SmMayEnd /\ smRun' = smRun \ {s}
       /\ LET run == PrefetchFrom(smRun, smRun')
              searched == NextSm(FoundSm.cursor, run)
              next == TrySm(searched, run)
          IN IF Fires(flags') # {}
             THEN /\ sm_cursor' = searched.cursor /\ instruction' = searched.found
                  /\ exec_context' = "interrupt"
                  /\ ih_enabled' = [ih_enabled EXCEPT ![FiredHandler(flags')] = TRUE]
                  /\ ih_pc' = [ih_pc EXCEPT ![FiredHandler(flags')] = 0]
             ELSE /\ sm_cursor' = next.cursor /\ instruction' = next.found
                  /\ UNCHANGED <<exec_context, ihs>>
       /\ up_cursor' = FoundUser.cursor /\ user_instruction' = FoundUser.found
       /\ turn' = [kind |-> "sm", who |-> s, go |-> FALSE]
       /\ sm_waited' = Waited(sm_waited, smRun, s, NumSMs)
       /\ UNCHANGED <<up_waited, upInstr, delay_left, exited>>

\* exec_step_programs_next_interrupt_instruction runs the first handler whose pc
\* is not negative; past its end a handler has empty instructions.
Stepped == CHOOSE h \in IHs : ih_pc[h] >= 0 /\ \A g \in IHs : ih_pc[g] >= 0 => h <= g

\* exec_find_next_instruction_after_interrupt only looks for a line to show, but
\* moves the cursors.  Its user_instruction is not initialised: try_user searches
\* or not.
MoveCursors ==
    LET sm == TrySm(NextSm(sm_cursor, smRun), smRun)
    IN /\ sm_cursor' = sm.cursor
       /\ \/ up_cursor' = up_cursor
          \/ sm.found = None /\ up_cursor' = NextUser(up_cursor, UpRun(upInstr), FALSE).cursor

\* Mutant: a handler that ends is left enabled.
StaysEnabled(h) == ih_enabled

Disable(h) == [ih_enabled EXCEPT ![h] = FALSE]

\* A turn in interrupt context; one on which the handler's instruction does not
\* complete changes nothing.
InterruptTurn(outcome) ==
    LET h == Stepped
        past_end == ih_pc[h] >= IhLength
        pc == IF past_end \/ outcome \in {"done", "exit"} THEN ih_pc[h] + 1
              ELSE 0
    IN /\ Running("interrupt")
       /\ ih_pc' = [ih_pc EXCEPT ![h] = pc]
       /\ exited' = (~past_end /\ outcome = "exit")
       /\ IF pc >= IhLength
          THEN /\ ih_enabled' = Disable(h)
               /\ exec_context' = "normal"
               /\ MoveCursors
          ELSE UNCHANGED <<ih_enabled, exec_context, sm_cursor, up_cursor>>
       /\ UNCHANGED <<programs, instruction, user_instruction, try_user_first, flags, turn, waited>>

\* Nothing to run: the searches are all that happens.
NothingFound ==
    /\ Running("normal")
    /\ FoundSm.found = None /\ FoundUser.found = None
    /\ sm_cursor' = FoundSm.cursor /\ up_cursor' = FoundUser.cursor
    /\ UNCHANGED <<programs, instruction, user_instruction, try_user_first,
                   exec_context, exited, flags, ihs, turn, waited>>

\* After the EXIT instruction every further step only marks the idle context.
Idle == /\ exited /\ exec_context' = "idle"
        /\ UNCHANGED <<programs, cursors, try_user_first, exited, flags, ihs, turn, waited>>

Next == \/ UserTurn
        \/ SmTurn
        \/ \E outcome \in IhOutcomes : InterruptTurn(outcome)
        \/ NothingFound
        \/ Idle

Spec == Init /\ [][Next]_vars

\* exec_run_all_programs calls the step function in a loop.  Within it a
\* handler's instruction that blocks completes in the end, as one that reads only
\* what a state machine has already pushed does.
FairSpec == Spec /\ WF_vars(Next)

-----------------------------------------------------------------------------
(* What must hold *)

TypeOK ==
    /\ smRun \subseteq SMs /\ upInstr \in [UPs -> UserInstrs \cup {Empty}]
    /\ sm_cursor \in SMs \cup {None} /\ up_cursor \in UPs \cup {None}
    /\ instruction \in SMs \cup {None} /\ user_instruction \in UPs \cup {None}
    /\ try_user_first \in BOOLEAN /\ exited \in BOOLEAN
    /\ exec_context \in {"normal", "interrupt", "idle"}
    /\ flags \subseteq Flags
    /\ ih_pc \in [IHs -> Nat \cup {-1}] /\ ih_enabled \in [IHs -> BOOLEAN]
    /\ tx \in 0..Capacity /\ turn \in Turns
    /\ delay_left \in [UPs -> -1..31]

\* A prefetched instruction is still the one at its processor's pc when its turn
\* comes, across interrupts and the ends of other programs (the static pointers
\* of exec_step_programs_next_instruction).
PrefetchIsCurrent ==
    /\ instruction # None => instruction \in smRun
    /\ (user_instruction # None /\ ~exited) => user_instruction \in UpRun(upInstr)

\* doc/pio_programming.md:744: state machines and user processors take turns in
\* round robin.  While a state machine can run, no other one gets a second turn
\* before it; the same of the user processors, except that a [->] instruction may
\* hold its processor.
RoundRobin ==
    /\ \A s \in smRun : sm_waited[s] < NumSMs
    /\ (\A i \in UserInstrs : ~i.continue_user) =>
           \A u \in UpRun(upInstr) : up_waited[u] < NumUPs

\* doc/pio_programming.md:744: the scheduler alternates between user and state
\* machine instructions, except after [->] and when one side has nothing to run.
UserAfterUser == UserTurn /\ turn.kind = "user"
SmAfterSm     == SmTurn /\ turn.kind = "sm"
TurnsAlternate ==
    [][/\ UserAfterUser => turn.go \/ smRun = {}
       /\ SmAfterSm => UpRun(upInstr) = {}]_vars

\* A handler is enabled exactly while it is the one being run: interrupt context
\* is entered with it and left with it, so fired_ihs never takes a finished
\* handler for a running one.  (With one handler; with two it fails, see
\* RaisedFlagIsAnswered.)
EnabledHandlerRuns ==
    ~exited => \A h \in IHs : ih_enabled[h] <=> (exec_context = "interrupt" /\ h = Stepped)

\* doc/pio_programming.md:1276: "Setting IRQ 0 causes the interrupt handler to
\* run".  A flag raised by a state machine is answered by its handler's first
\* instruction, or cleared first, as long as [->] instructions do not keep every
\* turn on the user side: only a state machine's turn looks at the flags.
Answered(f) == f \notin flags \/ ih_pc[HandlerOf[f]] = 1
RaisedFlagIsAnswered ==
    []<>(turn.kind # "user") =>
        \A f \in Flags : (f \in flags) ~> (Answered(f) \/ smRun = {} \/ exited)

\* doc/pio_programming.md:755: the sequence repeats "as long as instructions
\* remain".  Every state machine that can run gets its turn, again and again,
\* until an EXIT stops the simulation.
SmKeepsRunning ==
    \A s \in SMs : []<>(s \notin smRun \/ exited \/ (turn.kind = "sm" /\ turn.who = s))

\* doc/pio_programming.md:576: [->] lasts "to the next user instruction".  A
\* blocked WRITE goes on once state machine 0, whose program pulls at every
\* turn, has made room.
Blocked(u) == upInstr[u].write /\ tx = Capacity
BlockedWriteGoesOn ==
    \A u \in UPs : Blocked(u) ~> (~Blocked(u) \/ 0 \notin smRun \/ exited)
=============================================================================
