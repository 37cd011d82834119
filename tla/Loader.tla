-------------------------------- MODULE Loader --------------------------------
(***************************************************************************)
(* Loading a program: the statements of the source file as the parser's    *)
(* actions (simpio.y) hand them to hardware.c and instruction.c, which     *)
(* file instructions, user instructions and labels in tables of            *)
(* fixed size under the processor that is current, and the pass that       *)
(* resolves forward labels afterwards.                                     *)
(*                                                                         *)
(* A file is read statement by statement, any statement next; lexing       *)
(* within a line, comments with the start condition C_COMMENT, operands    *)
(* and the configuration of pins and shifting are left out.                *)
(*                                                                         *)
(* A parse that ends before the end of its file leaves the rest of it in   *)
(* the buffer of flex, which simpio_parse does not empty: the next build   *)
(* reads that rest before its own file, with no end of file between.       *)
(***************************************************************************)
EXTENDS Integers, Sequences, FiniteSets

CONSTANTS NumPIOs, SMsPerPIO, NumUPs, NumIHs,
          NumInstructions,      \* NUM_INSTRUCTIONS
          NumUserInstructions,  \* NUM_USER_INSTRUCTIONS, NUM_IH_INSTRUCTIONS
          Int8Bound,            \* 2^7: locations are int8_t
          Statements,           \* what a file is made of, see Statement
          MaxLines              \* of a file

None == -1
NoLocation == 255
PIOs == 0..(NumPIOs - 1)
SMs  == 0..(NumPIOs * SMsPerPIO - 1)
UPs  == {<<"up", u>> : u \in 0..(NumUPs - 1)}
IHs  == {<<"ih", h>> : h \in 0..(NumIHs - 1)}

\* n is the number a .config statement gives, name that of a label.
Statement == [k : {"pio", "sm", "user_processor", "interrupt_handler", "wrap", "wrap_target",
                   "label", "jmp", "other", "user", "exit", "blank"},
              n : Nat, name : STRING]

ASSUME LoaderAssumption ==
    /\ {NumPIOs, SMsPerPIO, NumUPs, NumIHs, NumInstructions, NumUserInstructions, Int8Bound}
           \subseteq Nat \ {0}
    /\ MaxLines \in Nat
    /\ Statements \subseteq Statement

VARIABLES pios,          \* of each PIO, its instructions and next_instruction_location
          sms,           \* of each state machine, first_pc and wrap addresses
          procs,         \* of each user processor and handler, pc, instructions and next
          current,       \* the current pio, sm, up, ih and the context of user instructions
          labels,        \* label_locations
          line_count,
          used,          \* wrap_used and wrap_target_used
          parse,         \* "idle", or how far simpio_parse came
          rest,          \* text of an earlier file is still in flex's buffer
          text,          \* history: the statements carried out so far, of that text and
                         \* of the file
          since          \* history: the current processors when the file was begun

tables == <<pios, sms, procs, current, labels, line_count, used>>
lvars  == <<tables, parse, rest, text, since>>

-----------------------------------------------------------------------------
(* Defaults.  A reset leaves the line number of the slots of a table.      *)

EmptyCell(line) == [k |-> "empty", line |-> line, sm |-> 0, name |-> "", location |-> NoLocation,
                    is_breakpoint |-> FALSE]

Emptied(table) == [table EXCEPT !.next = 0,
                                !.cells = [i \in DOMAIN @ |-> EmptyCell(@[i].line)]]

NewSM == [first_pc |-> None, wrap |-> None, wrap_target |-> None]

\* Mutant: the state machines keep what an earlier program set.
KeptSMs(old) == old

\* hardware_set_sm_defaults of every state machine
DefaultSMs(old) == [s \in SMs |-> NewSM]

\* the static tables before anything was built
LInit ==
    /\ pios = [p \in PIOs |-> [next |-> 0, cells |-> [i \in 0..(NumInstructions - 1) |-> EmptyCell(0)]]]
    /\ procs = [q \in UPs \cup IHs |->
                  [pc |-> 0, next |-> 0, cells |-> [i \in 0..(NumUserInstructions - 1) |-> EmptyCell(0)]]]
    /\ sms = [s \in SMs |-> [first_pc |-> 0, wrap |-> 0, wrap_target |-> 0]]
    /\ current = [pio |-> None, sm |-> None, up |-> None, ih |-> None, context |-> "up"]
    /\ labels = <<>> /\ line_count = 0 /\ used = {}
    /\ parse = "idle" /\ rest = FALSE /\ text = <<>> /\ since = current

\* system_init, and yyin set to the file: the current user processor, handler and
\* context stay, and so does what flex has buffered.
SystemInit ==
    /\ parse' = "reading" /\ text' = <<>> /\ line_count' = 0 /\ used' = {} /\ UNCHANGED rest
    /\ current' = [current EXCEPT !.pio = 0, !.sm = 0]
    /\ since' = current'
    /\ pios' = [p \in PIOs |-> Emptied(pios[p])]
    /\ procs' = [q \in DOMAIN procs |-> [Emptied(procs[q]) EXCEPT !.pc = None]]
    /\ sms' = DefaultSMs(sms)
    /\ labels' = <<>>

-----------------------------------------------------------------------------
(* Labels *)

\* instruction_find_label: an index of label_locations
FindLabel(ls, name) ==
    IF \E i \in DOMAIN ls : ls[i].label = name
    THEN (CHOOSE i \in DOMAIN ls : ls[i].label = name
                                   /\ \A j \in 1..(i - 1) : ls[j].label # name) - 1
    ELSE NoLocation

\* Mutant: the last instruction of a PIO is not looked at.
UnresolvedButLast == {a \in PIOs \X (0..(NumInstructions - 1)) :
                         LET table == pios[a[1]]
                             i == a[2]
                         IN i < table.next - 1 /\ table.cells[i].k = "jmp"
                            /\ table.cells[i].location = NoLocation}

\* The jumps that still have no location, in the order they are looked at.
Unresolved == {a \in PIOs \X (0..(NumInstructions - 1)) :
                  LET table == pios[a[1]]
                      i == a[2]
                  IN i < table.next /\ table.cells[i].k = "jmp"
                     /\ table.cells[i].location = NoLocation}
Before(a, b) == a[1] < b[1] \/ (a[1] = b[1] /\ a[2] < b[2])
Dangling == {a \in Unresolved : FindLabel(labels, pios[a[1]].cells[a[2]].name) = NoLocation}

\* instruction_fix_forward_labels: stops at the first label it does not find.
FixForwardLabels ==
    pios' = [p \in PIOs |-> [pios[p] EXCEPT !.cells = [i \in DOMAIN @ |->
                IF <<p, i>> \in Unresolved /\ \A d \in Dangling : Before(<<p, i>>, d)
                THEN [@[i] EXCEPT !.location = FindLabel(labels, pios[p].cells[i].name)] ELSE @[i]]]]

\* simpio_parse: rc is yyparse's; the labels are looked at only when it is 0.  There
\* may be text left that was not parsed.
EndParse(rc) ==
    /\ IF rc = 0
       THEN FixForwardLabels /\ parse' = IF Dangling = {} THEN "built" ELSE "failed"
       ELSE parse' = "failed" /\ UNCHANGED pios
    /\ rest' \in BOOLEAN
    /\ UNCHANGED <<sms, procs, current, labels, line_count, used, text, since>>

-----------------------------------------------------------------------------
(* Statements *)

Reading(s, kinds) == parse = "reading" /\ Len(text) < MaxLines /\ s.k \in kinds

\* The statement may be the last one of the rest.
Done(s) == /\ text' = Append(text, s) /\ line_count' = line_count + 1 /\ rest' \in {rest, FALSE}
           /\ UNCHANGED <<parse, since>>

\* int8_t next_instruction_location++
Int8(n) == IF n >= Int8Bound THEN n - 2 * Int8Bound ELSE n

\* A write outside a table changes nothing that is modelled.
Put(cells, i, cell) == IF i \in DOMAIN cells THEN [cells EXCEPT ![i] = cell] ELSE cells

\* hardware_init_current_sm_pc_if_needed
StartAt(sm, at) == IF sm.first_pc < 0 THEN [sm EXCEPT !.first_pc = at] ELSE sm

\* instruction_add
AddInstruction(s) ==
    LET p == current.pio
        at == pios[p].next
    IN /\ Reading(s, {"jmp", "other"})
       /\ at # NumInstructions
       /\ pios' = [pios EXCEPT ![p] =
              [next |-> Int8(at + 1),
               cells |-> Put(@.cells, at,
                             [k |-> s.k, line |-> line_count + 1, sm |-> current.sm, name |-> s.name,
                              location |-> IF s.k = "jmp" THEN FindLabel(labels, s.name)
                                           ELSE NoLocation,
                              is_breakpoint |-> FALSE])]]
       /\ sms' = [sms EXCEPT ![current.sm] = StartAt(@, at)]
       /\ Done(s) /\ UNCHANGED <<procs, current, labels, used>>

\* instruction_user_add: in interrupt context the handler's pc is left alone,
\* fired_ihs will set it.
Processor == IF current.context = "up" THEN <<"up", current.up>> ELSE <<"ih", current.ih>>

AddUserInstruction(s) ==
    LET q == Processor
        at == procs[q].next
    IN /\ Reading(s, {"user", "exit"})
       /\ q \in DOMAIN procs /\ at # NumUserInstructions
       /\ procs' = [procs EXCEPT ![q] =
              [pc |-> IF q \in UPs /\ @.pc < 0 THEN at ELSE @.pc,
               next |-> Int8(at + 1),
               cells |-> Put(@.cells, at, [EmptyCell(line_count + 1) EXCEPT !.k = s.k,
                                                                            !.sm = current.sm])]]
       /\ Done(s) /\ UNCHANGED <<pios, sms, current, labels, used>>

\* the ERRORs of instruction_add and instruction_user_add
TableFull(s) ==
    /\ \/ Reading(s, {"jmp", "other"}) /\ pios[current.pio].next = NumInstructions
       \/ Reading(s, {"user", "exit"}) /\ (Processor \in DOMAIN procs =>
                                              procs[Processor].next = NumUserInstructions)
    /\ EndParse(-1)

SetPio(s) ==
    /\ Reading(s, {"pio"})
    /\ IF s.n \in PIOs
       THEN /\ current' = [current EXCEPT !.pio = s.n]
            /\ Done(s) /\ UNCHANGED <<pios, sms, procs, labels, used>>
       ELSE EndParse(line_count)

SetSm(s) ==
    /\ Reading(s, {"sm"})
    /\ IF s.n < SMsPerPIO
       THEN /\ current' = [current EXCEPT !.sm = current.pio * SMsPerPIO + s.n]
            /\ Done(s) /\ UNCHANGED <<pios, sms, procs, labels, used>>
       ELSE EndParse(line_count)

\* hardware_set_up and hardware_set_ih: a number too large is the last one.
AtMost(n, max) == IF n > max THEN max ELSE n

SetProcessor(s) ==
    /\ Reading(s, {"user_processor", "interrupt_handler"})
    /\ current' = IF s.k = "user_processor"
                  THEN [current EXCEPT !.up = AtMost(s.n, NumUPs - 1), !.context = "up"]
                  ELSE [current EXCEPT !.ih = AtMost(s.n, NumIHs - 1), !.context = "ih"]
    /\ Done(s) /\ UNCHANGED <<pios, sms, procs, labels, used>>

\* test_once, hardware_set_wrap and hardware_set_wrap_target
SetWrap(s) ==
    /\ Reading(s, {"wrap", "wrap_target"})
    /\ IF s.k \in used
       THEN EndParse(-1)
       ELSE /\ used' = used \cup {s.k}
            /\ sms' = [sms EXCEPT ![current.sm] =
                   IF s.k = "wrap" THEN [@ EXCEPT !.wrap = pios[current.pio].next - 1]
                   ELSE [@ EXCEPT !.wrap_target = pios[current.pio].next]]
            /\ Done(s) /\ UNCHANGED <<pios, procs, current, labels>>

\* instruction_add_label
AddLabel(s) ==
    /\ Reading(s, {"label"})
    /\ labels' = Append(labels, [label |-> s.name, location |-> pios[current.pio].next])
    /\ Done(s) /\ UNCHANGED <<pios, sms, procs, current, used>>

Blank(s) == Reading(s, {"blank"}) /\ Done(s) /\ UNCHANGED <<pios, sms, procs, current, labels, used>>

\* yyparse's own end: the end of the file, after a line at least, or a syntax error
EndOfFile   == parse = "reading" /\ text # <<>> /\ ~rest /\ EndParse(0) /\ ~rest'
SyntaxError == parse = "reading" /\ EndParse(1)

LNext ==
    \/ \E s \in Statements :
           \/ AddInstruction(s) \/ AddUserInstruction(s) \/ TableFull(s)
           \/ SetPio(s) \/ SetSm(s) \/ SetProcessor(s) \/ SetWrap(s)
           \/ AddLabel(s) \/ Blank(s)
    \/ EndOfFile \/ SyntaxError

-----------------------------------------------------------------------------
(* What the statements say, whatever was loaded before them *)

Lines == DOMAIN text

\* The last line of these kinds before the k-th, or 0.
LastOf(S) == IF S = {} THEN 0 ELSE CHOOSE j \in S : \A i \in S : i <= j
LastLine(k, kinds) == LastOf({j \in Lines : j < k /\ text[j].k \in kinds})

Latest(k, kind, first) == LET j == LastLine(k, {kind}) IN IF j = 0 THEN first ELSE text[j].n

PioAt(k) == Latest(k, "pio", 0)
SmAt(k)  == LET j == LastLine(k, {"sm"})
            IN IF j = 0 THEN 0 ELSE PioAt(j) * SMsPerPIO + text[j].n
UpAt(k)  == AtMost(Latest(k, "user_processor", since.up), NumUPs - 1)
IhAt(k)  == AtMost(Latest(k, "interrupt_handler", since.ih), NumIHs - 1)
ContextAt(k) == LET j == LastLine(k, {"user_processor", "interrupt_handler"})
                IN IF j = 0 THEN since.context
                   ELSE IF text[j].k = "user_processor" THEN "up" ELSE "ih"
ProcessorAt(k) == <<ContextAt(k), IF ContextAt(k) = "up" THEN UpAt(k) ELSE IhAt(k)>>

\* The lines with instructions for a PIO, a state machine, a processor.
CodeOf(p)  == {k \in Lines : text[k].k \in {"jmp", "other"} /\ PioAt(k) = p}
SmCode(s)  == {k \in Lines : text[k].k \in {"jmp", "other"} /\ SmAt(k) = s}
UserCode(q) == {k \in Lines : text[k].k \in {"user", "exit"} /\ ProcessorAt(k) = q}
Address(code, k) == Cardinality({j \in code : j < k})

\* Where the instruction of a line is, or the one after it, in the memory of its PIO.
Place(k) == Address(CodeOf(PioAt(k)), k)

Least(S) == CHOOSE n \in S : \A m \in S : n <= m

\* Each instruction is at its place in its memory with its line and state machine.
Filed(cells, code) ==
    \A k \in code : LET c == cells[Address(code, k)]
                    IN c.k = text[k].k /\ c.sm = SmAt(k) /\ c.line = k

PioWritten(p) ==
    /\ pios[p].next = Cardinality(CodeOf(p))
    /\ Filed(pios[p].cells, CodeOf(p))
    /\ \A i \in DOMAIN pios[p].cells : i >= pios[p].next => pios[p].cells[i].k = "empty"

\* A state machine starts at its first instruction,
StartsAtFirst(s) ==
    sms[s].first_pc = IF SmCode(s) = {} THEN None ELSE Place(Least(SmCode(s)))

\* and wraps where its directives are.
WrapWritten(k) ==
    /\ text[k].k = "wrap" => sms[SmAt(k)].wrap = Place(k) - 1
    /\ text[k].k = "wrap_target" => sms[SmAt(k)].wrap_target = Place(k)

ProcWritten(q) ==
    /\ procs[q].next = Cardinality(UserCode(q))
    /\ procs[q].pc = IF q \in UPs /\ UserCode(q) # {} THEN 0 ELSE None
    /\ Filed(procs[q].cells, UserCode(q))

\* The tables hold what this build has parsed and nothing else: each instruction is
\* at its place in the memory of its PIO or processor, all else is empty, every
\* state machine starts and wraps where the statements say, whatever tables and
\* current processors an earlier program left (system_init; instruction_add;
\* instruction_user_add; hardware_set_wrap).  What is parsed is the file itself
\* only if the build before read its file to the end.
LoadedIsWritten ==
    parse # "idle" =>
    /\ \A p \in PIOs : PioWritten(p)
    /\ \A s \in SMs : StartsAtFirst(s)
    /\ \A k \in Lines : WrapWritten(k)
    /\ \A q \in DOMAIN procs : ProcWritten(q)

\* After a successful build every jump goes to the instruction that follows
\* the first label of its name, whether the label stands before or after it
\* (jmp_instruction of simpio.y, instruction_fix_forward_labels).
JumpsGoToLabels ==
    parse = "built" =>
    \A p \in PIOs : \A k \in CodeOf(p) : text[k].k = "jmp" =>
        LET named == {j \in Lines : text[j].k = "label" /\ text[j].name = text[k].name}
            location == pios[p].cells[Address(CodeOf(p), k)].location
        IN /\ named # {} /\ location + 1 \in DOMAIN labels
           /\ labels[location + 1].location = Place(Least(named))
=============================================================================
