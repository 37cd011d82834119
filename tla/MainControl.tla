----------------------------- MODULE MainControl ------------------------------
(***************************************************************************)
(* The commands of main.c over a program that Loader loads: build, step,   *)
(* run to a breakpoint, toggle a breakpoint.  What a step executes is the  *)
(* matter of Scheduler; here it is only which line comes next and whether  *)
(* EXIT was executed.                                                      *)
(***************************************************************************)
EXTENDS Loader

CONSTANT FileLines      \* bound: of the lines of each file a session builds

ASSUME MainAssumption == FileLines \in Seq(1..MaxLines)

VARIABLES built, first_stepit,
          exited,        \* SIMULATION_EXITED
          last_line,     \* static last_line of exec_step_programs_next_instruction
          running,       \* 0, or which of the two steps of exec_run_all_programs' loop is next
          shown,         \* what the command returned: the line the user is taken to
          builds         \* bound: builds so far

mvars == <<lvars, built, first_stepit, exited, last_line, running, shown, builds>>

Command == parse # "reading" /\ running = 0     \* the user is at the keyboard

MInit ==
    /\ LInit
    /\ built = FALSE /\ first_stepit = TRUE /\ exited = FALSE /\ last_line = 0
    /\ running = 0 /\ shown = 0 /\ builds = 0

-----------------------------------------------------------------------------
(* Build *)

\* buildit, up to the parser; exec_reset
StartBuild ==
    /\ Command /\ builds < Len(FileLines) /\ builds' = builds + 1
    /\ first_stepit' = TRUE /\ exited' = FALSE /\ last_line' = 0 /\ shown' = 0
    /\ SystemInit
    /\ UNCHANGED <<built, running>>

\* One statement, or the end of the parse, which only a success records.
Parse ==
    /\ LNext /\ Len(text') <= FileLines[builds]
    /\ rest' => parse' = "reading" \/ builds < Len(FileLines)   \* bound: of what is buffered
    /\ built' = (built \/ parse' = "built")
    /\ UNCHANGED <<first_stepit, exited, last_line, running, shown, builds>>

-----------------------------------------------------------------------------
(* Breakpoints.  The searches go by the line, over the PIOs and then the   *)
(* user processors, and stop at the first instruction that has it.         *)

Loaded(table) == {i \in DOMAIN table.cells : i < table.next}
LinesOf(table, cells) == {table.cells[i].line : i \in cells}
OnLine(table, cells, line) == {i \in cells : table.cells[i].line = line}

\* The first of the numbered tables that has one of its cells on the line, and
\* that cell.
FirstHit(ts, cells, line) ==
    LET hit == {n \in DOMAIN ts : OnLine(ts[n], cells[n], line) # {}}
        first == Least(hit)
    IN IF hit = {} THEN <<>> ELSE <<first, Least(OnLine(ts[first], cells[first], line))>>

Up(u) == procs[<<"up", u>>]
UpNums == 0..(NumUPs - 1)
Ups == [u \in UpNums |-> Up(u)]
Slots(ts) == [n \in DOMAIN ts |-> DOMAIN ts[n].cells]

\* Mutant: the search begins at the second slot of a user processor.
UserSlotsFromOne == [u \in UpNums |-> DOMAIN Up(u).cells \ {0}]

UserSlots == Slots(Ups)

\* instruction_is_breakpoint: over all slots, those past the program included
IsBreakpoint(line) ==
    LET inPio == FirstHit(pios, Slots(pios), line)
        inUp == FirstHit(Ups, UserSlots, line)
    IN IF inPio # <<>> THEN pios[inPio[1]].cells[inPio[2]].is_breakpoint
       ELSE inUp # <<>> /\ Up(inUp[1]).cells[inUp[2]].is_breakpoint

Flip(table, i) == [table EXCEPT !.cells[i].is_breakpoint = ~@]

\* instruction_toggle_breakpoint: in a PIO only over the program
Toggle(line) ==
    LET inPio == FirstHit(pios, [p \in PIOs |-> Loaded(pios[p])], line)
        inUp == FirstHit(Ups, Slots(Ups), line)
    IN /\ pios' = IF inPio # <<>> THEN [pios EXCEPT ![inPio[1]] = Flip(@, inPio[2])] ELSE pios
       /\ procs' = IF inPio = <<>> /\ inUp # <<>>
                   THEN [procs EXCEPT ![<<"up", inUp[1]>>] = Flip(@, inUp[2])] ELSE procs

\* toggleit
ToggleIt ==
    /\ Command /\ built
    /\ \E line \in 1..MaxLines : Toggle(line)
    /\ UNCHANGED <<sms, current, labels, line_count, used, parse, rest, text, since>>
    /\ UNCHANGED <<built, first_stepit, exited, last_line, running, shown, builds>>

-----------------------------------------------------------------------------
(* Execution *)

ExecLines == UNION ({LinesOf(pios[p], Loaded(pios[p])) : p \in PIOs}
                    \cup {LinesOf(procs[q], Loaded(procs[q])) : q \in DOMAIN procs})
CanExit == \E q \in DOMAIN procs : \E i \in Loaded(procs[q]) : procs[q].cells[i].k = "exit"

\* exec_step_programs_next_instruction: after EXIT the last line again; -1 after
\* a state machine ran off its end; with nothing to execute the last line there
\* was, which an earlier program may have left.
ExecStep ==
    \/ exited /\ UNCHANGED <<exited, last_line>>
    \/ ~exited /\ ExecLines = {} /\ last_line' \in -1..MaxLines /\ UNCHANGED exited
    \/ ~exited /\ ExecLines # {} /\ last_line' \in ExecLines \cup {None} /\ UNCHANGED exited
    \/ ~exited /\ CanExit /\ exited' = TRUE /\ UNCHANGED last_line

\* exec_first_instruction_that_will_be_executed: int8_t line numbers
FirstLine ==
    LET ups == {u \in UpNums : Up(u).pc >= 0}
        pioOf(s) == pios[s \div SMsPerPIO]
        ready == {s \in SMs : sms[s].first_pc >= 0
                              /\ pioOf(s).cells[sms[s].first_pc].k # "empty"}
        userLine == IF ups = {} THEN None
                    ELSE Int8(Up(Least(ups)).cells[Up(Least(ups)).pc].line)
    IN IF userLine >= 0 THEN userLine
       ELSE IF ready = {} THEN None
       ELSE Int8(pioOf(Least(ready)).cells[sms[Least(ready)].first_pc].line)

\* stepit: the first step after a build executes nothing.
StepFirst ==
    /\ Command /\ built /\ first_stepit
    /\ first_stepit' = FALSE
    /\ shown' = IF FirstLine >= 0 THEN FirstLine ELSE 1
    /\ UNCHANGED <<lvars, built, exited, last_line, running, builds>>

StepIt ==
    /\ Command /\ built /\ ~first_stepit
    /\ ExecStep
    /\ shown' = IF last_line' > 0 THEN last_line' ELSE 1
    /\ UNCHANGED <<lvars, built, first_stepit, running, builds>>

\* runit, up to the loop.  After EXIT the loop is not entered and next_line is
\* returned as it is found on the stack.
RunIt ==
    /\ Command /\ built
    /\ first_stepit' = FALSE
    /\ IF exited THEN running' = 0 /\ shown' \in -1..MaxLines ELSE running' = 1 /\ UNCHANGED shown
    /\ UNCHANGED <<lvars, built, exited, last_line, builds>>

\* Mutant: the second of the two steps is taken whatever the first came to.
NeverHit(line) == FALSE

HitBreakpoint(line) == IsBreakpoint(line)

\* The loop of exec_run_all_programs: two steps, the second only if the first
\* met no breakpoint, then the break key.
RunStep(key) ==
    /\ running > 0
    /\ ExecStep
    /\ running' = IF running = 1 /\ ~HitBreakpoint(last_line') THEN 2
                  ELSE IF IsBreakpoint(last_line') \/ key \/ exited' THEN 0 ELSE 1
    /\ shown' = IF running' = 0 THEN last_line' ELSE shown
    /\ UNCHANGED <<lvars, built, first_stepit, builds>>

NotBuilt ==
    /\ Command /\ ~built /\ shown' = 1
    /\ UNCHANGED <<lvars, built, first_stepit, exited, last_line, running, builds>>

MNext == \/ StartBuild \/ Parse \/ ToggleIt \/ StepFirst \/ StepIt \/ RunIt \/ NotBuilt
         \/ \E key \in BOOLEAN : RunStep(key)

Spec == MInit /\ [][MNext]_mvars

-----------------------------------------------------------------------------
(* Properties *)

\* A breakpoint the user has set on an instruction of the program is one the
\* execution looks for, provided no slot past a program still carries its line
\* from an earlier build: toggle and the search for breakpoints agree on which
\* instruction a line means (instruction_toggle_breakpoint,
\* instruction_is_breakpoint).
Searched == {pios[p] : p \in PIOs} \cup {Up(u) : u \in UpNums}
StaleLines == UNION {LinesOf(t, DOMAIN t.cells \ Loaded(t)) : t \in Searched}
Breakpoints == UNION {LinesOf(t, {i \in DOMAIN t.cells : t.cells[i].is_breakpoint}) : t \in Searched}

BreakpointsAreSeen == \A line \in Breakpoints \ StaleLines : IsBreakpoint(line)

\* A run never executes past a breakpoint: when the instruction to execute
\* next is on one, the run is over and the user is taken to that line, although
\* the loop executes two instructions between its tests of the break key
\* (exec_run_all_programs).
RunStopsAtBreakpoints ==
    [][running > 0 /\ (running' # running \/ last_line' # last_line)
       => (IsBreakpoint(last_line') => running' = 0 /\ shown' = last_line')]_mvars
=============================================================================
