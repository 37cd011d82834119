-------------------------- MODULE MainControlProofs --------------------------
(***************************************************************************)
(* What holds of MainControl for any number of processors, tables of any   *)
(* size and any files: breakpoints are seen and a run stops at one; what   *)
(* is loaded is what was parsed, and jumps go to the labels they name.     *)
(***************************************************************************)
EXTENDS MainControl, SequenceTheorems, FiniteSetTheorems, WellFoundedInduction, TLAPS

-----------------------------------------------------------------------------
(* The inductive invariant *)

PioSlots  == 0..(NumInstructions - 1)
ProcSlots == 0..(NumUserInstructions - 1)
Kinds == {"empty"} \cup {s.k : s \in Statements}
Names == {""} \cup {s.name : s \in Statements}
Cell == [k : Kinds, line : Nat, sm : Int, name : Names, location : Int, is_breakpoint : BOOLEAN]
Location == -Int8Bound..(Int8Bound - 1)
PioTable == [next : Location, cells : [PioSlots -> Cell]]
ProcTable == [pc : Int, next : Location, cells : [ProcSlots -> Cell]]
Label == [label : Names, location : Int]

\* The types of what the parser fills.
TablesOK ==
    /\ pios \in [PIOs -> PioTable]
    /\ procs \in [UPs \cup IHs -> ProcTable]
    /\ labels \in Seq(Label) /\ line_count \in Nat
    /\ current \in [pio : Int, sm : Int, up : Int, ih : Int, context : {"up", "ih"}]
    /\ parse = "reading" => current.pio \in PIOs

\* The tables that breakpoints are searched in, by name.
PioNames == {<<"pio", p>> : p \in PIOs}
Named == PioNames \cup UPs
Table(id) == IF id \in PioNames THEN pios[id[2]] ELSE procs[id]

\* No two instructions of the program have the same line: every statement that
\* adds one counts a line first.  Slots past a program may have any line.
LinesDiffer ==
    \A a \in Named : \A i \in Loaded(Table(a)) :
        /\ Table(a).cells[i].line \in 1..line_count
        /\ \A b \in Named : \A j \in Loaded(Table(b)) :
               Table(a).cells[i].line = Table(b).cells[j].line => a = b /\ i = j

\* A file is not read while a program runs.
OneThingAtATime == running \in 0..2 /\ (running > 0 => parse # "reading")

IInv == TablesOK /\ LinesDiffer /\ OneThingAtATime

-----------------------------------------------------------------------------
(* Types *)

\* A set of naturals has a least element.
LEMMA LeastExists ==
    ASSUME NEW T, T \subseteq Nat, T # {}
    PROVE  \E x \in T : \A y \in T : x <= y
<1>1. IsWellFoundedOn(OpToRel(<, Nat), Nat)
  BY NatLessThanWellFounded
<1>2. PICK x \in T : \A y \in T : ~(<<y, x>> \in OpToRel(<, Nat))
  BY <1>1, WFMin
<1>3. \A y \in T : ~(y < x)
  BY <1>2 DEF OpToRel
<1> QED BY <1>3

\* The location of a name among the labels is the index of its first.
Target(ls, location, name) ==
    /\ location + 1 \in DOMAIN ls /\ ls[location + 1].label = name
    /\ \A j \in 1..location : ls[j].label # name

LEMMA FindLabelType ==
    ASSUME NEW ls \in Seq(Label), NEW name
    PROVE  /\ FindLabel(ls, name) \in Int
           /\ FindLabel(ls, name) = NoLocation \/ Target(ls, FindLabel(ls, name), name)
<1> DEFINE T == {i \in DOMAIN ls : ls[i].label = name}
           First(i) == ls[i].label = name /\ \A j \in 1..(i - 1) : ls[j].label # name
<1>1. DOMAIN ls = 1..Len(ls) /\ Len(ls) \in Nat
  BY LenProperties
<1>2. CASE T = {}
  BY <1>2 DEF FindLabel, NoLocation
<1>3. CASE T # {}
  <2>1. T \subseteq Nat
    BY <1>1
  <2>2. PICK i \in T : \A j \in T : i <= j
    BY <1>3, <2>1, LeastExists
  <2>3. \A j \in 1..(i - 1) : j \in DOMAIN ls /\ ~(i <= j)
    BY <1>1, <2>1
  <2>4. First(i) /\ i \in DOMAIN ls
    BY <2>2, <2>3
  <2>5. PICK l : l = CHOOSE k \in DOMAIN ls : First(k)
    OBVIOUS
  <2>6. l \in DOMAIN ls /\ First(l)
    <3> HIDE DEF First
    <3> QED BY <2>4, <2>5
  <2>7. \E k \in DOMAIN ls : ls[k].label = name
    BY <1>3
  <2>8. FindLabel(ls, name) = l - 1
    BY <2>5, <2>7 DEF FindLabel
  <2>9. l - 1 \in Int /\ (l - 1) + 1 = l
    BY <1>1, <2>6
  <2> QED BY <2>6, <2>8, <2>9 DEF Target
<1> QED BY <1>2, <1>3

\* The next free place, counted in eight bits.
LEMMA Int8Type == ASSUME NEW at \in Location PROVE Int8(at + 1) \in Location
  BY LoaderAssumption DEF Int8, Location

\* The parts of the tables' types.
LEMMA TablesParts ==
    ASSUME TablesOK
    PROVE  /\ \A p \in PIOs : /\ pios[p].next \in Location
                              /\ pios[p].cells \in [PioSlots -> Cell]
           /\ \A q \in UPs \cup IHs : /\ procs[q].pc \in Int /\ procs[q].next \in Location
                                      /\ procs[q].cells \in [ProcSlots -> Cell]
           /\ DOMAIN pios = PIOs /\ DOMAIN procs = UPs \cup IHs
  BY DEF TablesOK, PioTable, ProcTable

\* A slot that a reset has emptied.
LEMMA EmptyCellType ==
    ASSUME NEW line \in Nat PROVE EmptyCell(line) \in Cell /\ EmptyCell(line).line = line
<1>1. NoLocation \in Int /\ 0 \in Int
  BY DEF NoLocation
<1>2. FALSE \in BOOLEAN /\ "empty" \in Kinds /\ "" \in Names
  BY Zenon DEF Kinds, Names
<1> QED BY <1>1, <1>2, Zenon DEF EmptyCell, Cell

\* What a reset makes of a table.
LEMMA EmptiedPio ==
    ASSUME NEW t \in PioTable PROVE Emptied(t) \in PioTable /\ Emptied(t).next = 0
<1>1. t = [next |-> t.next, cells |-> t.cells] /\ t.cells \in [PioSlots -> Cell]
  BY DEF PioTable
<1> DEFINE empty == [i \in DOMAIN t.cells |-> EmptyCell(t.cells[i].line)]
<1>2. Emptied(t) = [t EXCEPT !.next = 0, !.cells = empty]
  BY Zenon DEF Emptied
<1>3. empty \in [PioSlots -> Cell]
  <2>1. \A i \in PioSlots : t.cells[i].line \in Nat
    BY <1>1 DEF Cell
  <2> QED BY <1>1, <2>1, EmptyCellType
<1> HIDE DEF empty
<1>4. 0 \in Location
  BY LoaderAssumption DEF Location
<1> QED BY <1>2, <1>3, <1>4 DEF PioTable

LEMMA EmptiedProc ==
    ASSUME NEW t \in ProcTable
    PROVE  [Emptied(t) EXCEPT !.pc = None] \in ProcTable /\ [Emptied(t) EXCEPT !.pc = None].next = 0
<1>1. t = [pc |-> t.pc, next |-> t.next, cells |-> t.cells] /\ t.cells \in [ProcSlots -> Cell]
  BY DEF ProcTable
<1> DEFINE empty == [i \in DOMAIN t.cells |-> EmptyCell(t.cells[i].line)]
<1>2. Emptied(t) = [t EXCEPT !.next = 0, !.cells = empty]
  BY Zenon DEF Emptied
<1>3. empty \in [ProcSlots -> Cell]
  <2>1. \A i \in ProcSlots : t.cells[i].line \in Nat
    BY <1>1 DEF Cell
  <2> QED BY <1>1, <2>1, EmptyCellType
<1> HIDE DEF empty
<1>4. 0 \in Location /\ None \in Int
  BY LoaderAssumption DEF Location, None
<1> QED BY <1>2, <1>3, <1>4 DEF ProcTable

-----------------------------------------------------------------------------
(* Lines *)

\* What a step may do to the tables without moving an instruction: the programs
\* stay as long as they are and keep their lines.
SameLines ==
    \A a \in Named : /\ Loaded(Table(a))' = Loaded(Table(a))
                     /\ \A i \in Loaded(Table(a)) :
                            Table(a)'.cells[i].line = Table(a).cells[i].line

LEMMA SameLinesKeep ==
    ASSUME LinesDiffer, SameLines, line_count \in Nat, line_count' \in Nat,
           line_count <= line_count'
    PROVE  LinesDiffer'
<1> SUFFICES ASSUME NEW a \in Named, NEW i \in Loaded(Table(a))'
             PROVE  /\ Table(a)'.cells[i].line \in 1..line_count'
                    /\ \A b \in Named : \A j \in Loaded(Table(b))' :
                           Table(a)'.cells[i].line = Table(b)'.cells[j].line => a = b /\ i = j
  BY Zenon DEF LinesDiffer, Named, PioNames, UPs
<1>1. i \in Loaded(Table(a)) /\ Table(a)'.cells[i].line = Table(a).cells[i].line
  BY DEF SameLines
<1>2. Table(a).cells[i].line \in 1..line_count
  BY <1>1 DEF LinesDiffer
<1>3. ASSUME NEW b \in Named, NEW j \in Loaded(Table(b))',
             Table(a)'.cells[i].line = Table(b)'.cells[j].line
      PROVE  a = b /\ i = j
  <2>1. j \in Loaded(Table(b)) /\ Table(b)'.cells[j].line = Table(b).cells[j].line
    BY <1>3 DEF SameLines
  <2>2. Table(a).cells[i].line = Table(b).cells[j].line
    BY <1>1, <1>3, <2>1
  <2>3. \A y \in Named : \A k \in Loaded(Table(y)) :
            Table(a).cells[i].line = Table(y).cells[k].line => a = y /\ i = k
    BY <1>1, Zenon DEF LinesDiffer
  <2> QED BY <2>1, <2>2, <2>3, Zenon
<1> QED BY <1>1, <1>2, <1>3

\* What adding an instruction does: in one table one slot gets the next line, and
\* that table's program ends behind it or, where the count has wrapped, is gone.
AddsLine(a, at) ==
    /\ line_count' = line_count + 1
    /\ \A b \in Named \ {a} : Table(b)' = Table(b)
    /\ a \in Named => /\ Loaded(Table(a))' \subseteq Loaded(Table(a)) \cup {at}
                      /\ \A i \in Loaded(Table(a))' :
                            Table(a)'.cells[i].line = IF i = at THEN line_count + 1
                                                      ELSE Table(a).cells[i].line

LEMMA AddsLineKeeps ==
    ASSUME LinesDiffer, line_count \in Nat, NEW a, NEW at, AddsLine(a, at)
    PROVE  LinesDiffer'
<1> DEFINE new(b, i) == b = a /\ i = at
<1>1. ASSUME NEW b \in Named, NEW i \in Loaded(Table(b))'
      PROVE  \/ new(b, i) /\ Table(b)'.cells[i].line = line_count + 1
             \/ /\ ~new(b, i) /\ i \in Loaded(Table(b))
                /\ Table(b)'.cells[i].line = Table(b).cells[i].line
                /\ Table(b).cells[i].line \in 1..line_count
  <2>1. CASE b = a
    BY <1>1, <2>1 DEF AddsLine, LinesDiffer
  <2>2. CASE b # a
    <3>1. Table(b)' = Table(b)
      BY <1>1, <2>2 DEF AddsLine
    <3>2. i \in Loaded(Table(b)) /\ Table(b)'.cells[i].line = Table(b).cells[i].line
      BY <1>1, <3>1 DEF Loaded
    <3> QED BY <2>2, <3>2 DEF LinesDiffer
  <2> QED BY <2>1, <2>2
<1> SUFFICES ASSUME NEW b \in Named, NEW i \in Loaded(Table(b))'
             PROVE  /\ Table(b)'.cells[i].line \in 1..line_count'
                    /\ \A c \in Named : \A j \in Loaded(Table(c))' :
                           Table(b)'.cells[i].line = Table(c)'.cells[j].line => b = c /\ i = j
  BY Zenon DEF LinesDiffer, Named, PioNames, UPs
<1>2. line_count' = line_count + 1
  BY DEF AddsLine
<1>3. Table(b)'.cells[i].line \in 1..line_count'
  BY <1>1, <1>2
<1>4. ASSUME NEW c \in Named, NEW j \in Loaded(Table(c))',
             Table(b)'.cells[i].line = Table(c)'.cells[j].line
      PROVE  b = c /\ i = j
  <2>1. CASE new(b, i)
    <3>1. Table(c)'.cells[j].line = line_count + 1
      BY <1>1, <1>4, <2>1
    <3>2. new(c, j)
      BY <1>1, <3>1
    <3> QED BY <2>1, <3>2
  <2>2. CASE ~new(b, i)
    <3>1. /\ i \in Loaded(Table(b)) /\ Table(b)'.cells[i].line = Table(b).cells[i].line
          /\ Table(b).cells[i].line \in 1..line_count
      BY <1>1, <2>2
    <3>2. Table(c)'.cells[j].line # line_count + 1
      BY <1>4, <3>1
    <3>3. j \in Loaded(Table(c)) /\ Table(c)'.cells[j].line = Table(c).cells[j].line
      BY <1>1, <3>2
    <3>4. Table(b).cells[i].line = Table(c).cells[j].line
      BY <1>4, <3>1, <3>3
    <3>5. \A y \in Named : \A k \in Loaded(Table(y)) :
              Table(b).cells[i].line = Table(y).cells[k].line => b = y /\ i = k
      BY <3>1, Zenon DEF LinesDiffer
    <3> QED BY <3>3, <3>4, <3>5, Zenon
  <2> QED BY <2>1, <2>2
<1> QED BY <1>3, <1>4

\* A table's name is that of one PIO or of one user processor.
LEMMA NamedTables ==
    /\ \A p \in PIOs : <<"pio", p>> \in Named /\ Table(<<"pio", p>>) = pios[p]
    /\ \A q \in UPs : q \in Named /\ Table(q) = procs[q]
    /\ \A a \in Named : \/ \E p \in PIOs : a = <<"pio", p>>
                        \/ a \in UPs
    /\ \A q \in IHs : q \notin Named
<1>1. \A q \in UPs \cup IHs : q \notin PioNames
  BY DEF PioNames, UPs, IHs
<1>2. \A q \in IHs : q \notin UPs
  BY DEF UPs, IHs
<1>3. \A p \in PIOs : <<"pio", p>> \in PioNames /\ <<"pio", p>>[2] = p
  BY DEF PioNames
<1> QED BY <1>1, <1>2, <1>3 DEF Named, PioNames, Table

\* The same of the tables after a step.
LEMMA NamedTablesNext ==
    /\ \A p \in PIOs : Table(<<"pio", p>>)' = pios'[p]
    /\ \A q \in UPs : Table(q)' = procs'[q]
<1>1. \A q \in UPs : q \notin PioNames
  BY DEF PioNames, UPs
<1>2. \A p \in PIOs : <<"pio", p>> \in PioNames /\ <<"pio", p>>[2] = p
  BY DEF PioNames
<1> QED BY <1>1, <1>2 DEF Table

\* Two tables with the same instructions; labels and breakpoints may differ.
SameCode(t, u) ==
    /\ u.next = t.next /\ DOMAIN u.cells = DOMAIN t.cells
    /\ \A i \in DOMAIN t.cells : /\ u.cells[i].k = t.cells[i].k /\ u.cells[i].sm = t.cells[i].sm
                                 /\ u.cells[i].line = t.cells[i].line
                                 /\ u.cells[i].name = t.cells[i].name

LEMMA SameCodeTables ==
    ASSUME \A p \in PIOs : SameCode(pios[p], pios'[p]),
           \A q \in UPs : SameCode(procs[q], procs'[q])
    PROVE  SameLines
<1> SUFFICES ASSUME NEW a \in Named
             PROVE  /\ Loaded(Table(a))' = Loaded(Table(a))
                    /\ \A i \in Loaded(Table(a)) :
                           Table(a)'.cells[i].line = Table(a).cells[i].line
  BY DEF SameLines
<1>1. SameCode(Table(a), Table(a)')
  <2>1. CASE a \in UPs
    BY <2>1, NamedTables, NamedTablesNext
  <2>2. CASE a \notin UPs
    <3>1. PICK p \in PIOs : a = <<"pio", p>>
      BY <2>2, NamedTables
    <3> QED BY <3>1, NamedTables, NamedTablesNext
  <2> QED BY <2>1, <2>2
<1> QED BY <1>1 DEF SameCode, Loaded

\* A step that leaves the tables alone.
LEMMA StillTables ==
    ASSUME LinesDiffer, UNCHANGED <<pios, procs>>, line_count \in Nat, line_count' \in Nat,
           line_count <= line_count'
    PROVE  LinesDiffer'
<1>1. SameLines
  BY SameCodeTables DEF SameCode
<1> QED BY <1>1, SameLinesKeep

\* A table with one more instruction adds a line.
LEMMA TableAdds ==
    ASSUME NEW a, NEW S, NEW cells \in [S -> Cell], NEW cell \in Cell, NEW at \in Location,
           S \subseteq Nat, line_count' = line_count + 1, cell.line = line_count + 1,
           \A b \in Named \ {a} : Table(b)' = Table(b),
           a \in Named => /\ Table(a).next = at /\ Table(a).cells = cells
                         /\ Table(a)'.next = Int8(at + 1)
                         /\ Table(a)'.cells = Put(cells, at, cell)
    PROVE  AddsLine(a, at)
<1>1. ASSUME a \in Named
      PROVE  /\ Loaded(Table(a))' \subseteq Loaded(Table(a)) \cup {at}
             /\ \A i \in Loaded(Table(a))' :
                   Table(a)'.cells[i].line = IF i = at THEN line_count + 1
                                             ELSE Table(a).cells[i].line
  <2>1. Put(cells, at, cell) \in [S -> Cell]
        /\ \A j \in S : Put(cells, at, cell)[j] = IF j = at THEN cell ELSE cells[j]
    BY DEF Put
  <2>2. Loaded(Table(a)) = {i \in S : i < at}
    BY <1>1 DEF Loaded
  <2>3. Loaded(Table(a))' = {i \in S : i < Int8(at + 1)}
    BY <1>1, <2>1 DEF Loaded
  <2>4. Int8(at + 1) <= at + 1 /\ Int8(at + 1) \in Int /\ at \in Int
    BY LoaderAssumption DEF Int8, Location
  <2>5. \A i \in S : i < Int8(at + 1) => i < at \/ i = at
    BY <2>4
  <2>6. \A i \in S : Table(a)'.cells[i].line = IF i = at THEN line_count + 1
                                                ELSE Table(a).cells[i].line
    BY <1>1, <2>1
  <2> QED BY <2>2, <2>3, <2>5, <2>6
<1> QED BY <1>1 DEF AddsLine

\* What is written into a slot is an instruction.
LEMMA AddedCellType ==
    ASSUME TablesOK, NEW s \in Statements
    PROVE  /\ [k |-> s.k, line |-> line_count + 1, sm |-> current.sm, name |-> s.name,
               location |-> IF s.k = "jmp" THEN FindLabel(labels, s.name) ELSE NoLocation,
               is_breakpoint |-> FALSE] \in Cell
           /\ [EmptyCell(line_count + 1) EXCEPT !.k = s.k, !.sm = current.sm] \in Cell
           /\ [EmptyCell(line_count + 1) EXCEPT !.k = s.k, !.sm = current.sm].line = line_count + 1
<1>1. line_count + 1 \in Nat /\ current.sm \in Int /\ NoLocation \in Int /\ 0 \in Int
  BY DEF TablesOK, NoLocation
<1>2. FALSE \in BOOLEAN /\ s.k \in Kinds /\ s.name \in Names /\ "" \in Names
  BY Zenon DEF Kinds, Names
<1> DEFINE location == IF s.k = "jmp" THEN FindLabel(labels, s.name) ELSE NoLocation
<1>3. location \in Int
  BY <1>1, FindLabelType DEF TablesOK
<1> HIDE DEF location
<1>4. [k |-> s.k, line |-> line_count + 1, sm |-> current.sm, name |-> s.name,
       location |-> location, is_breakpoint |-> FALSE] \in Cell
  BY <1>1, <1>2, <1>3, Zenon DEF Cell
<1>5. EmptyCell(line_count + 1) \in Cell /\ EmptyCell(line_count + 1).line = line_count + 1
  BY <1>1, EmptyCellType
<1>6. ASSUME NEW c \in Cell
      PROVE  /\ [c EXCEPT !.k = s.k, !.sm = current.sm] \in Cell
             /\ [c EXCEPT !.k = s.k, !.sm = current.sm].line = c.line
  BY <1>1, <1>2 DEF Cell
<1> QED BY <1>4, <1>5, <1>6 DEF location

\* instruction_add
LEMMA AddInstructionKeeps ==
    ASSUME TablesOK, LinesDiffer, NEW s \in Statements, AddInstruction(s)
    PROVE  TablesOK' /\ LinesDiffer'
<1>0. PICK p \in PIOs : p = current.pio
  BY DEF TablesOK, AddInstruction, Reading
<1> DEFINE at == pios[p].next
           cell == [k |-> s.k, line |-> line_count + 1, sm |-> current.sm, name |-> s.name,
                    location |-> IF s.k = "jmp" THEN FindLabel(labels, s.name) ELSE NoLocation,
                    is_breakpoint |-> FALSE]
           cells == pios[p].cells
           table == [next |-> Int8(at + 1), cells |-> Put(cells, at, cell)]
<1>1. /\ parse = "reading"
      /\ pios' = [pios EXCEPT ![p] = table]
      /\ line_count' = line_count + 1
      /\ UNCHANGED <<procs, current, labels, parse>>
  BY <1>0 DEF AddInstruction, Reading, Done
<1>2. p \in PIOs /\ at \in Location /\ cells \in [PioSlots -> Cell] /\ DOMAIN pios = PIOs
  BY <1>1, TablesParts DEF TablesOK
<1>3. cell \in Cell /\ cell.line = line_count + 1
  BY AddedCellType
<1> HIDE DEF cell
<1>4. Put(cells, at, cell) \in [PioSlots -> Cell]
  BY <1>2, <1>3 DEF Put
<1>5. table \in PioTable
  BY <1>2, <1>4, Int8Type DEF PioTable
<1>6. TablesOK'
  <2>1. pios' \in [PIOs -> PioTable]
    <3> HIDE DEF table
    <3> QED BY <1>1, <1>5 DEF TablesOK
  <2> QED BY <1>1, <2>1 DEF TablesOK
<1>7. AddsLine(<<"pio", p>>, at)
  <2>1. Table(<<"pio", p>>) = pios[p] /\ Table(<<"pio", p>>)' = table
    <3>1. pios'[p] = table
      BY <1>1, <1>2
    <3> QED BY <1>2, <3>1, NamedTables, NamedTablesNext
  <2>2. ASSUME NEW b \in Named \ {<<"pio", p>>} PROVE Table(b)' = Table(b)
    <3>1. CASE b \in UPs
      BY <1>1, <3>1, NamedTables, NamedTablesNext
    <3>2. CASE b \notin UPs
      <4>1. PICK r \in PIOs : b = <<"pio", r>>
        BY <3>2, NamedTables
      <4>2. r # p
        BY <2>2, <4>1
      <4>3. pios'[r] = pios[r]
        BY <1>1, <1>2, <4>2
      <4> QED BY <4>1, <4>3, NamedTables, NamedTablesNext
    <3> QED BY <3>1, <3>2
  <2>3. Table(<<"pio", p>>).next = at /\ Table(<<"pio", p>>).cells = cells
    BY <2>1
  <2>4. Table(<<"pio", p>>)'.next = Int8(at + 1)
        /\ Table(<<"pio", p>>)'.cells = Put(cells, at, cell)
    BY <2>1
  <2>5. PioSlots \subseteq Nat
    BY DEF PioSlots
  <2> HIDE DEF at, cells, table
  <2> QED BY <1>1, <1>2, <1>3, <2>2, <2>3, <2>4, <2>5, TableAdds
<1> QED BY <1>6, <1>7, AddsLineKeeps DEF TablesOK

\* instruction_user_add.  A handler's table is not searched for breakpoints, but
\* its instruction takes a line too.
LEMMA AddUserInstructionKeeps ==
    ASSUME TablesOK, LinesDiffer, NEW s \in Statements, AddUserInstruction(s)
    PROVE  TablesOK' /\ LinesDiffer'
<1>0. PICK q \in UPs \cup IHs : q = Processor
  BY TablesParts DEF AddUserInstruction
<1> DEFINE at == procs[q].next
           cell == [EmptyCell(line_count + 1) EXCEPT !.k = s.k, !.sm = current.sm]
           cells == procs[q].cells
           pc == IF q \in UPs /\ procs[q].pc < 0 THEN at ELSE procs[q].pc
           table == [pc |-> pc, next |-> Int8(at + 1), cells |-> Put(cells, at, cell)]
<1>1. /\ procs' = [procs EXCEPT ![q] = table]
      /\ line_count' = line_count + 1
      /\ UNCHANGED <<pios, current, labels, parse>>
  BY <1>0 DEF AddUserInstruction, Reading, Done
<1>2. /\ at \in Location /\ cells \in [ProcSlots -> Cell] /\ procs[q].pc \in Int
      /\ DOMAIN procs = UPs \cup IHs
  BY TablesParts
<1>3. cell \in Cell /\ cell.line = line_count + 1
  BY AddedCellType
<1> HIDE DEF cell
<1>4. Put(cells, at, cell) \in [ProcSlots -> Cell]
  BY <1>2, <1>3 DEF Put
<1>5. table \in ProcTable
  <2>1. pc \in Int
    BY <1>2 DEF Location
  <2> HIDE DEF pc
  <2> QED BY <1>2, <1>4, <2>1, Int8Type DEF ProcTable
<1>6. TablesOK'
  <2>1. procs' \in [UPs \cup IHs -> ProcTable]
    <3> HIDE DEF table
    <3> QED BY <1>1, <1>5 DEF TablesOK
  <2> QED BY <1>1, <2>1 DEF TablesOK
<1>7. AddsLine(q, at)
  <2>1. q \in Named => Table(q) = procs[q] /\ Table(q)' = table
    <3>1. procs'[q] = table
      BY <1>1, <1>2
    <3> HIDE DEF table
    <3> QED BY <3>1, NamedTables, NamedTablesNext
  <2>2. ASSUME NEW b \in Named \ {q} PROVE Table(b)' = Table(b)
    <3>1. CASE b \in UPs
      <4>1. procs'[b] = procs[b]
        BY <1>1, <1>2, <2>2, <3>1
      <4> QED BY <3>1, <4>1, NamedTables, NamedTablesNext
    <3>2. CASE b \notin UPs
      BY <1>1, <3>2, NamedTables, NamedTablesNext
    <3> QED BY <3>1, <3>2
  <2>3. q \in Named => /\ Table(q).next = at /\ Table(q).cells = cells
                       /\ Table(q)'.next = Int8(at + 1)
                       /\ Table(q)'.cells = Put(cells, at, cell)
    BY <2>1
  <2>4. ProcSlots \subseteq Nat
    BY DEF ProcSlots
  <2> HIDE DEF at, cells, table
  <2> QED BY <1>1, <1>2, <1>3, <2>2, <2>3, <2>4, TableAdds
<1> QED BY <1>6, <1>7, AddsLineKeeps DEF TablesOK

\* What instruction_fix_forward_labels makes of the instruction at a place.
Resolved(p, i) == <<p, i>> \in Unresolved /\ \A d \in Dangling : Before(<<p, i>>, d)
FixedCell(p, i) == IF Resolved(p, i)
                   THEN [pios[p].cells[i] EXCEPT !.location = FindLabel(labels, pios[p].cells[i].name)]
                   ELSE pios[p].cells[i]

\* instruction_fix_forward_labels: only locations of jumps are written.
LEMMA FixForwardKeepsCode ==
    ASSUME TablesOK, FixForwardLabels
    PROVE  /\ pios' \in [PIOs -> PioTable]
           /\ \A p \in PIOs : SameCode(pios[p], pios'[p])
           /\ \A p \in PIOs : \A i \in PioSlots : pios'[p].cells[i] = FixedCell(p, i)
<1> DEFINE cells(p) == [i \in DOMAIN pios[p].cells |-> FixedCell(p, i)]
<1>1. pios' = [p \in PIOs |-> [pios[p] EXCEPT !.cells = cells(p)]]
  BY Zenon DEF FixForwardLabels, FixedCell, Resolved
<1>2. ASSUME NEW p \in PIOs, NEW i \in PioSlots
      PROVE  /\ FixedCell(p, i) \in Cell /\ FixedCell(p, i).line = pios[p].cells[i].line
             /\ FixedCell(p, i).k = pios[p].cells[i].k /\ FixedCell(p, i).sm = pios[p].cells[i].sm
             /\ FixedCell(p, i).name = pios[p].cells[i].name
  <2> DEFINE location == FindLabel(labels, pios[p].cells[i].name)
  <2>1. location \in Int
    BY FindLabelType DEF TablesOK
  <2>2. pios[p].cells[i] \in Cell
    BY TablesParts
  <2>3. FixedCell(p, i) \in {pios[p].cells[i], [pios[p].cells[i] EXCEPT !.location = location]}
    BY DEF FixedCell
  <2> HIDE DEF location
  <2> QED BY <2>1, <2>2, <2>3 DEF Cell
<1>3. ASSUME NEW p \in PIOs
      PROVE  /\ [pios[p] EXCEPT !.cells = cells(p)] \in PioTable
             /\ SameCode(pios[p], [pios[p] EXCEPT !.cells = cells(p)])
             /\ \A i \in PioSlots : [pios[p] EXCEPT !.cells = cells(p)].cells[i] = FixedCell(p, i)
  <2>1. pios[p] \in PioTable /\ DOMAIN pios[p].cells = PioSlots
    BY TablesParts DEF TablesOK
  <2>2. cells(p) \in [PioSlots -> Cell]
    BY <1>2, <2>1
  <2>3. \A i \in PioSlots : /\ cells(p)[i].line = pios[p].cells[i].line
                            /\ cells(p)[i].k = pios[p].cells[i].k
                            /\ cells(p)[i].sm = pios[p].cells[i].sm
                            /\ cells(p)[i].name = pios[p].cells[i].name
                            /\ cells(p)[i] = FixedCell(p, i)
    BY <1>2, <2>1
  <2> HIDE DEF cells
  <2>4. /\ [pios[p] EXCEPT !.cells = cells(p)] \in PioTable
        /\ [pios[p] EXCEPT !.cells = cells(p)].next = pios[p].next
        /\ [pios[p] EXCEPT !.cells = cells(p)].cells = cells(p)
    BY <2>1, <2>2 DEF PioTable
  <2> QED BY <2>1, <2>2, <2>3, <2>4 DEF SameCode
<1> HIDE DEF cells
<1> QED BY <1>1, <1>3

\* simpio_parse after yyparse
LEMMA EndParseKeeps ==
    ASSUME TablesOK, LinesDiffer, NEW rc, EndParse(rc)
    PROVE  /\ TablesOK' /\ LinesDiffer' /\ parse' \in {"built", "failed"}
           /\ \A p \in PIOs : SameCode(pios[p], pios'[p])
<1>1. UNCHANGED <<procs, current, labels, line_count>> /\ parse' \in {"built", "failed"}
  BY DEF EndParse
<1>2. /\ pios' \in [PIOs -> PioTable]
      /\ \A p \in PIOs : SameCode(pios[p], pios'[p])
  <2>1. CASE UNCHANGED pios
    BY <2>1 DEF TablesOK, SameCode
  <2>2. CASE FixForwardLabels
    BY <2>2, FixForwardKeepsCode
  <2> QED BY <2>1, <2>2 DEF EndParse
<1>3. SameLines
  BY <1>1, <1>2, SameCodeTables DEF SameCode
<1>4. LinesDiffer'
  BY <1>1, <1>3, SameLinesKeep DEF TablesOK
<1> QED BY <1>1, <1>2, <1>4 DEF TablesOK

\* A statement that adds no instruction.
LEMMA OtherStatementKeeps ==
    ASSUME TablesOK, LinesDiffer, NEW s \in Statements, Reading(s, {s.k}), Done(s),
           UNCHANGED <<pios, procs>>, labels' \in Seq(Label), current'.pio \in PIOs,
           current' \in [pio : Int, sm : Int, up : Int, ih : Int, context : {"up", "ih"}]
    PROVE  TablesOK' /\ LinesDiffer'
<1>1. line_count \in Nat /\ line_count' = line_count + 1
  BY DEF TablesOK, Done
<1>2. LinesDiffer'
  BY <1>1, StillTables
<1> QED BY <1>1, <1>2 DEF TablesOK

\* Every statement, and either end of the parse.
LEMMA LNextKeeps ==
    ASSUME TablesOK, LinesDiffer, LNext PROVE TablesOK' /\ LinesDiffer'
<1> DEFINE Currents == [pio : Int, sm : Int, up : Int, ih : Int, context : {"up", "ih"}]
<1>1. current \in Currents /\ labels \in Seq(Label)
  BY DEF TablesOK
<1>2. ASSUME NEW s \in Statements, AddInstruction(s) PROVE TablesOK' /\ LinesDiffer'
  BY <1>2, AddInstructionKeeps
<1>3. ASSUME NEW s \in Statements, AddUserInstruction(s) PROVE TablesOK' /\ LinesDiffer'
  BY <1>3, AddUserInstructionKeeps
<1>4. ASSUME NEW s \in Statements, TableFull(s) PROVE TablesOK' /\ LinesDiffer'
  BY <1>4, EndParseKeeps DEF TableFull
<1>5. ASSUME NEW s \in Statements, SetPio(s) PROVE TablesOK' /\ LinesDiffer'
  <2>1. CASE s.n \in PIOs
    <3>1. s.n \in Int
      BY <2>1 DEF PIOs
    <3>2. current' \in Currents /\ current'.pio \in PIOs
      BY <1>1, <1>5, <2>1, <3>1 DEF SetPio
    <3> QED BY <1>1, <1>5, <2>1, <3>2, OtherStatementKeeps DEF SetPio, Reading
  <2>2. CASE s.n \notin PIOs
    BY <1>5, <2>2, EndParseKeeps DEF SetPio
  <2> QED BY <2>1, <2>2
<1>6. ASSUME NEW s \in Statements, SetSm(s) PROVE TablesOK' /\ LinesDiffer'
  <2>1. CASE s.n < SMsPerPIO
    <3>1. s.n \in Int /\ SMsPerPIO \in Int /\ current.pio \in PIOs /\ current.pio \in Int
      BY <1>1, <1>6, LoaderAssumption DEF TablesOK, SetSm, Reading, Statement
    <3>2. current.pio * SMsPerPIO + s.n \in Int
      BY <3>1
    <3>3. current' \in Currents /\ current'.pio \in PIOs
      BY <1>1, <1>6, <2>1, <3>1, <3>2 DEF SetSm
    <3> QED BY <1>1, <1>6, <2>1, <3>3, OtherStatementKeeps DEF SetSm, Reading
  <2>2. CASE ~(s.n < SMsPerPIO)
    BY <1>6, <2>2, EndParseKeeps DEF SetSm
  <2> QED BY <2>1, <2>2
<1>7. ASSUME NEW s \in Statements, SetProcessor(s) PROVE TablesOK' /\ LinesDiffer'
  <2>1. AtMost(s.n, NumUPs - 1) \in Int /\ AtMost(s.n, NumIHs - 1) \in Int
    BY LoaderAssumption DEF AtMost, Statement
  <2>2. current.pio \in PIOs
    BY <1>7 DEF TablesOK, SetProcessor, Reading
  <2>3. current' \in Currents /\ current'.pio \in PIOs
    BY <1>1, <1>7, <2>1, <2>2 DEF SetProcessor
  <2> QED BY <1>1, <1>7, <2>3, OtherStatementKeeps DEF SetProcessor, Reading
<1>8. ASSUME NEW s \in Statements, SetWrap(s) PROVE TablesOK' /\ LinesDiffer'
  <2>1. CASE s.k \in used
    BY <1>8, <2>1, EndParseKeeps DEF SetWrap
  <2>2. CASE s.k \notin used
    <3>1. current.pio \in PIOs
      BY <1>8 DEF TablesOK, SetWrap, Reading
    <3> QED BY <1>1, <1>8, <2>2, <3>1, OtherStatementKeeps DEF SetWrap, Reading
  <2> QED BY <2>1, <2>2
<1>9. ASSUME NEW s \in Statements, AddLabel(s) PROVE TablesOK' /\ LinesDiffer'
  <2>1. current.pio \in PIOs
    BY <1>9 DEF TablesOK, AddLabel, Reading
  <2>2. [label |-> s.name, location |-> pios[current.pio].next] \in Label
    <3>1. pios[current.pio].next \in Int
      BY <2>1, TablesParts DEF Location
    <3> QED BY <3>1 DEF Label, Names
  <2>3. labels' \in Seq(Label)
    BY <1>1, <1>9, <2>2, AppendProperties DEF AddLabel
  <2> QED BY <1>1, <1>9, <2>1, <2>3, OtherStatementKeeps DEF AddLabel, Reading
<1>10. ASSUME NEW s \in Statements, Blank(s) PROVE TablesOK' /\ LinesDiffer'
  <2>1. current.pio \in PIOs
    BY <1>10 DEF TablesOK, Blank, Reading
  <2> QED BY <1>1, <1>10, <2>1, OtherStatementKeeps DEF Blank, Reading
<1>11. CASE EndOfFile \/ SyntaxError
  BY <1>11, EndParseKeeps DEF EndOfFile, SyntaxError
<1> QED
  BY <1>2, <1>3, <1>4, <1>5, <1>6, <1>7, <1>8, <1>9, <1>10, <1>11 DEF LNext

\* system_init: no instruction is left.
LEMMA SystemInitKeeps ==
    ASSUME TablesOK, SystemInit PROVE TablesOK' /\ LinesDiffer'
<1>1. /\ pios' = [p \in PIOs |-> Emptied(pios[p])]
      /\ procs' = [q \in UPs \cup IHs |-> [Emptied(procs[q]) EXCEPT !.pc = None]]
      /\ labels' = <<>> /\ line_count' = 0 /\ current' = [current EXCEPT !.pio = 0, !.sm = 0]
  BY TablesParts DEF SystemInit
<1>2. /\ pios' \in [PIOs -> PioTable] /\ \A p \in PIOs : pios'[p].next = 0
      /\ procs' \in [UPs \cup IHs -> ProcTable] /\ \A q \in UPs \cup IHs : procs'[q].next = 0
  BY <1>1, EmptiedPio, EmptiedProc DEF TablesOK
<1>3. TablesOK'
  <2>1. 0 \in PIOs
    BY LoaderAssumption DEF PIOs
  <2>2. /\ current' \in [pio : Int, sm : Int, up : Int, ih : Int, context : {"up", "ih"}]
        /\ current'.pio \in PIOs
    <3>1. /\ current.up \in Int /\ current.ih \in Int /\ current.context \in {"up", "ih"}
          /\ current' = [pio |-> 0, sm |-> 0, up |-> current.up, ih |-> current.ih,
                         context |-> current.context]
      BY <1>1 DEF TablesOK
    <3> QED BY <2>1, <3>1
  <2>3. labels' \in Seq(Label) /\ line_count' \in Nat
    BY <1>1
  <2> QED BY <1>2, <2>2, <2>3 DEF TablesOK
<1>4. ASSUME NEW a \in Named PROVE Loaded(Table(a))' = {}
  <2>1. Table(a)'.next = 0 /\ DOMAIN Table(a)'.cells \subseteq Nat
    <3>1. CASE a \in UPs
      <4>1. procs'[a] \in ProcTable /\ procs'[a].next = 0 /\ Table(a)' = procs'[a]
        BY <1>2, <3>1, NamedTablesNext
      <4>2. DOMAIN procs'[a].cells = ProcSlots /\ ProcSlots \subseteq Nat
        BY <4>1 DEF ProcTable, ProcSlots
      <4> QED BY <4>1, <4>2
    <3>2. CASE a \notin UPs
      <4>1. PICK p \in PIOs : a = <<"pio", p>>
        BY <3>2, NamedTables
      <4>2. pios'[p] \in PioTable /\ pios'[p].next = 0 /\ Table(a)' = pios'[p]
        BY <1>2, <4>1, NamedTablesNext
      <4>3. DOMAIN pios'[p].cells = PioSlots /\ PioSlots \subseteq Nat
        BY <4>2 DEF PioTable, PioSlots
      <4> QED BY <4>2, <4>3
    <3> QED BY <3>1, <3>2
  <2> QED BY <2>1 DEF Loaded
<1>5. LinesDiffer'
  BY <1>4, Zenon DEF LinesDiffer, Named, PioNames, UPs
<1> QED BY <1>3, <1>5

\* The jumps of two tables go to the same labels.
SameLocations(t, u) == \A i \in DOMAIN t.cells : u.cells[i].location = t.cells[i].location

\* toggleit: a breakpoint moves no instruction.
LEMMA ToggleKeeps ==
    ASSUME TablesOK, LinesDiffer, ToggleIt
    PROVE  /\ TablesOK' /\ LinesDiffer'
           /\ \A p \in PIOs : SameCode(pios[p], pios'[p]) /\ SameLocations(pios[p], pios'[p])
           /\ \A q \in UPs \cup IHs : SameCode(procs[q], procs'[q]) /\ procs'[q].pc = procs[q].pc
<1>1. UNCHANGED <<current, labels, line_count, parse>>
  BY DEF ToggleIt
<1>2. ASSUME NEW t \in PioTable \cup ProcTable, NEW i
      PROVE  /\ SameCode(t, Flip(t, i)) /\ SameLocations(t, Flip(t, i))
             /\ t \in ProcTable => Flip(t, i).pc = t.pc
             /\ t \in PioTable => Flip(t, i) \in PioTable
             /\ t \in ProcTable => Flip(t, i) \in ProcTable
  <2>1. ASSUME NEW S, t.cells \in [S -> Cell]
        PROVE  /\ [t.cells EXCEPT ![i].is_breakpoint = ~@] \in [S -> Cell]
               /\ \A j \in S : LET c == [t.cells EXCEPT ![i].is_breakpoint = ~@][j]
                               IN /\ c.line = t.cells[j].line /\ c.k = t.cells[j].k
                                  /\ c.sm = t.cells[j].sm /\ c.name = t.cells[j].name
                                  /\ c.location = t.cells[j].location
    <3>1. ASSUME NEW c \in Cell
          PROVE  /\ [c EXCEPT !.is_breakpoint = ~@] \in Cell
                 /\ [c EXCEPT !.is_breakpoint = ~@].line = c.line
                 /\ [c EXCEPT !.is_breakpoint = ~@].k = c.k
                 /\ [c EXCEPT !.is_breakpoint = ~@].sm = c.sm
                 /\ [c EXCEPT !.is_breakpoint = ~@].name = c.name
                 /\ [c EXCEPT !.is_breakpoint = ~@].location = c.location
      BY DEF Cell
    <3>2. PICK f, g : f = t.cells /\ g = [f EXCEPT ![i].is_breakpoint = ~@]
      OBVIOUS
    <3>3. f \in [S -> Cell]
      BY <2>1, <3>2
    <3>4. /\ DOMAIN g = S /\ g = [j \in S |-> g[j]]
          /\ \A j \in S : g[j] = IF j = i THEN [f[j] EXCEPT !.is_breakpoint = ~@] ELSE f[j]
      BY <3>2, <3>3
    <3>5. ASSUME NEW j \in S
          PROVE  /\ g[j] \in Cell /\ g[j].line = f[j].line /\ g[j].k = f[j].k
                 /\ g[j].sm = f[j].sm /\ g[j].name = f[j].name /\ g[j].location = f[j].location
      <4>1. PICK c \in Cell : c = f[j]
        BY <3>3
      <4>2. g[j] = [c EXCEPT !.is_breakpoint = ~@] \/ g[j] = c
        BY <3>4, <4>1
      <4> QED BY <3>1, <4>1, <4>2
    <3>6. g \in [S -> Cell]
      BY <3>4, <3>5
    <3> QED BY <3>2, <3>5, <3>6
  <2> DEFINE cells == [t.cells EXCEPT ![i].is_breakpoint = ~@]
  <2>2. Flip(t, i) = [t EXCEPT !.cells = cells]
    BY DEF Flip
  <2> QED BY <2>1, <2>2 DEF PioTable, ProcTable, SameCode, SameLocations
<1>3. PICK line \in 1..MaxLines : Toggle(line)
  BY DEF ToggleIt
<1> DEFINE inPio == FirstHit(pios, [p \in PIOs |-> Loaded(pios[p])], line)
           inUp == FirstHit(Ups, Slots(Ups), line)
<1>4. /\ pios' = IF inPio # <<>> THEN [pios EXCEPT ![inPio[1]] = Flip(@, inPio[2])] ELSE pios
      /\ procs' = IF inPio = <<>> /\ inUp # <<>>
                  THEN [procs EXCEPT ![<<"up", inUp[1]>>] = Flip(@, inUp[2])] ELSE procs
  BY <1>3 DEF Toggle
<1> HIDE DEF inPio, inUp
<1>5. /\ pios' \in [PIOs -> PioTable]
      /\ \A p \in PIOs : SameCode(pios[p], pios'[p]) /\ SameLocations(pios[p], pios'[p])
  <2>1. \A p \in PIOs : pios[p] \in PioTable /\ SameCode(pios[p], pios[p]) /\ SameLocations(pios[p], pios[p])
    BY DEF TablesOK, SameCode, SameLocations
  <2>2. \A p \in PIOs : /\ Flip(pios[p], inPio[2]) \in PioTable
                        /\ SameCode(pios[p], Flip(pios[p], inPio[2]))
                        /\ SameLocations(pios[p], Flip(pios[p], inPio[2]))
    BY <1>2, <2>1
  <2>3. /\ \A p \in PIOs : pios'[p] = pios[p] \/ pios'[p] = Flip(pios[p], inPio[2])
        /\ pios' = [p \in PIOs |-> pios'[p]]
    BY <1>4, TablesParts DEF TablesOK
  <2>4. \A p \in PIOs : pios'[p] \in PioTable /\ SameCode(pios[p], pios'[p]) /\ SameLocations(pios[p], pios'[p])
    BY <2>1, <2>2, <2>3
  <2> QED BY <2>3, <2>4
<1>6. /\ procs' \in [UPs \cup IHs -> ProcTable]
      /\ \A q \in UPs \cup IHs : SameCode(procs[q], procs'[q]) /\ procs'[q].pc = procs[q].pc
  <2>1. \A q \in UPs \cup IHs : procs[q] \in ProcTable /\ SameCode(procs[q], procs[q])
    BY DEF TablesOK, SameCode
  <2>2. \A q \in UPs \cup IHs : /\ Flip(procs[q], inUp[2]) \in ProcTable
                               /\ SameCode(procs[q], Flip(procs[q], inUp[2]))
                               /\ Flip(procs[q], inUp[2]).pc = procs[q].pc
    BY <1>2, <2>1
  <2>3. /\ \A q \in UPs \cup IHs : procs'[q] = procs[q] \/ procs'[q] = Flip(procs[q], inUp[2])
        /\ procs' = [q \in UPs \cup IHs |-> procs'[q]]
    BY <1>4, TablesParts DEF TablesOK
  <2>4. \A q \in UPs \cup IHs : /\ procs'[q] \in ProcTable /\ SameCode(procs[q], procs'[q])
                               /\ procs'[q].pc = procs[q].pc
    BY <2>1, <2>2, <2>3
  <2> QED BY <2>3, <2>4
<1>7. LinesDiffer'
  BY <1>1, <1>5, <1>6, SameCodeTables, SameLinesKeep DEF TablesOK
<1> QED BY <1>1, <1>5, <1>6, <1>7 DEF TablesOK

-----------------------------------------------------------------------------
(* The invariant *)

LEMMA InitIInv == MInit => IInv
<1> SUFFICES ASSUME MInit PROVE IInv
  OBVIOUS
<1>1. LInit /\ running = 0
  BY DEF MInit
<1>2. EmptyCell(0) \in Cell /\ 0 \in Location
  BY EmptyCellType, LoaderAssumption DEF Location
<1>3. [i \in PioSlots |-> EmptyCell(0)] \in [PioSlots -> Cell]
      /\ [i \in ProcSlots |-> EmptyCell(0)] \in [ProcSlots -> Cell]
  BY <1>2
<1>4. /\ pios = [p \in PIOs |-> [next |-> 0, cells |-> [i \in PioSlots |-> EmptyCell(0)]]]
      /\ procs = [q \in UPs \cup IHs |->
                     [pc |-> 0, next |-> 0, cells |-> [i \in ProcSlots |-> EmptyCell(0)]]]
      /\ labels = <<>> /\ line_count = 0 /\ parse = "idle"
      /\ current = [pio |-> None, sm |-> None, up |-> None, ih |-> None, context |-> "up"]
  BY <1>1, Zenon DEF LInit, PioSlots, ProcSlots
<1>5. TablesOK
  <2>1. pios \in [PIOs -> PioTable]
    BY <1>2, <1>3, <1>4 DEF PioTable
  <2>2. procs \in [UPs \cup IHs -> ProcTable]
    BY <1>2, <1>3, <1>4 DEF ProcTable
  <2>3. labels \in Seq(Label) /\ line_count \in Nat
    BY <1>4
  <2>4. current \in [pio : Int, sm : Int, up : Int, ih : Int, context : {"up", "ih"}]
    BY <1>4 DEF None
  <2> QED BY <1>4, <2>1, <2>2, <2>3, <2>4 DEF TablesOK
<1>6. ASSUME NEW a \in Named PROVE Loaded(Table(a)) = {}
  <2>1. \A p \in PIOs : pios[p].next = 0 /\ DOMAIN pios[p].cells = PioSlots
    BY <1>4
  <2>2. \A q \in UPs \cup IHs : procs[q].next = 0 /\ DOMAIN procs[q].cells = ProcSlots
    BY <1>4
  <2>3. Table(a).next = 0 /\ DOMAIN Table(a).cells \in {PioSlots, ProcSlots}
    <3>1. CASE a \in UPs
      BY <2>2, <3>1, NamedTables
    <3>2. CASE a \notin UPs
      <4>1. PICK p \in PIOs : a = <<"pio", p>>
        BY <3>2, NamedTables
      <4> QED BY <2>1, <4>1, NamedTables
    <3> QED BY <3>1, <3>2
  <2>4. PioSlots \subseteq Nat /\ ProcSlots \subseteq Nat
    BY DEF PioSlots, ProcSlots
  <2>5. \A i \in DOMAIN Table(a).cells : i \in Nat
    BY <2>3, <2>4
  <2> QED BY <2>3, <2>5 DEF Loaded
<1>7. LinesDiffer
  BY <1>6 DEF LinesDiffer
<1>8. OneThingAtATime
  BY <1>1 DEF OneThingAtATime
<1> QED BY <1>5, <1>7, <1>8 DEF IInv

\* A command that does not touch what the parser filled.
LEMMA TablesUntouched ==
    ASSUME TablesOK, LinesDiffer, UNCHANGED lvars PROVE TablesOK' /\ LinesDiffer'
<1>1. UNCHANGED <<pios, procs, labels, line_count, current, parse>>
  BY DEF lvars, tables
<1>2. line_count \in Nat
  BY DEF TablesOK
<1>3. LinesDiffer'
  BY <1>1, <1>2, StillTables
<1> QED BY <1>1, <1>3 DEF TablesOK

LEMMA IInvInductive == IInv /\ [MNext]_mvars => IInv'
<1> SUFFICES ASSUME IInv, [MNext]_mvars PROVE IInv'
  OBVIOUS
<1>0. TablesOK /\ LinesDiffer /\ OneThingAtATime
  BY DEF IInv
<1>1. CASE StartBuild
  <2>1. OneThingAtATime'
    BY <1>1 DEF StartBuild, Command, OneThingAtATime
  <2> QED BY <1>0, <1>1, <2>1, SystemInitKeeps DEF StartBuild, IInv
<1>2. CASE Parse
  <2>1. LNext /\ UNCHANGED running
    BY <1>2 DEF Parse
  <2>2. parse = "reading"
    BY <2>1 DEF LNext, AddInstruction, AddUserInstruction, TableFull, SetPio, SetSm, SetProcessor,
                SetWrap, AddLabel, Blank, Reading, EndOfFile, SyntaxError
  <2>3. OneThingAtATime'
    BY <1>0, <2>1, <2>2 DEF OneThingAtATime
  <2> QED BY <1>0, <2>1, <2>3, LNextKeeps DEF IInv
<1>3. CASE ToggleIt
  <2>1. OneThingAtATime'
    BY <1>0, <1>3 DEF ToggleIt, OneThingAtATime
  <2> QED BY <1>0, <1>3, <2>1, ToggleKeeps DEF IInv
<1>4. CASE StepFirst \/ StepIt \/ NotBuilt
  <2>1. UNCHANGED <<lvars, running, parse>>
    BY <1>4 DEF StepFirst, StepIt, NotBuilt, lvars
  <2> QED BY <1>0, <2>1, TablesUntouched DEF IInv, OneThingAtATime
<1>5. CASE RunIt
  <2>1. UNCHANGED <<lvars, parse>> /\ parse # "reading" /\ running' \in {0, 1}
    BY <1>5 DEF RunIt, Command, lvars
  <2> QED BY <1>0, <2>1, TablesUntouched DEF IInv, OneThingAtATime
<1>6. ASSUME NEW key \in BOOLEAN, RunStep(key) PROVE IInv'
  <2>1. UNCHANGED <<lvars, parse>> /\ parse # "reading" /\ running' \in {0, 1, 2}
    BY <1>0, <1>6 DEF RunStep, OneThingAtATime, lvars
  <2> QED BY <1>0, <2>1, TablesUntouched DEF IInv, OneThingAtATime
<1>7. CASE UNCHANGED mvars
  <2>1. UNCHANGED <<lvars, running, parse>>
    BY <1>7 DEF mvars, lvars
  <2> QED BY <1>0, <2>1, TablesUntouched DEF IInv, OneThingAtATime
<1> QED BY <1>1, <1>2, <1>3, <1>4, <1>5, <1>6, <1>7 DEF MNext

LEMMA AlwaysIInv == Spec => []IInv
  BY InitIInv, IInvInductive, PTL DEF Spec

-----------------------------------------------------------------------------
(* Breakpoints *)

\* The searched tables are the named ones.
LEMMA SearchedNamed == Searched = {Table(a) : a \in Named}
<1>1. \A u \in UpNums : <<"up", u>> \in UPs /\ Table(<<"up", u>>) = Up(u)
  BY NamedTables DEF UpNums, UPs, Up
<1>2. \A q \in UPs : \E u \in UpNums : q = <<"up", u>>
  BY DEF UpNums, UPs
<1>3. \A t \in Searched : \E a \in Named : t = Table(a)
  <2>1. ASSUME NEW t \in Searched PROVE \E a \in Named : t = Table(a)
    <3>1. CASE \E p \in PIOs : t = pios[p]
      BY <3>1, NamedTables
    <3>2. CASE \E u \in UpNums : t = Up(u)
      BY <3>2, <1>1, NamedTables
    <3> QED BY <3>1, <3>2 DEF Searched
  <2> QED BY <2>1
<1>4. \A a \in Named : Table(a) \in Searched
  <2>1. ASSUME NEW a \in Named PROVE Table(a) \in Searched
    <3>1. CASE a \in UPs
      BY <3>1, <1>1, <1>2 DEF Searched
    <3>2. CASE a \notin UPs
      BY <3>2, NamedTables DEF Searched
    <3> QED BY <3>1, <3>2
  <2> QED BY <2>1
<1> QED BY <1>3, <1>4

\* A search finds the only cell that has the line.
OnlyOn(ts, line, n, i) ==
    /\ n \in DOMAIN ts /\ i \in DOMAIN ts[n].cells /\ n \in Int /\ i \in Int
    /\ ts[n].cells[i].line = line
    /\ \A m \in DOMAIN ts : \A j \in DOMAIN ts[m].cells :
           ts[m].cells[j].line = line => m = n /\ j = i

LEMMA FirstHitIs ==
    ASSUME NEW ts, NEW line, NEW n, NEW i, OnlyOn(ts, line, n, i)
    PROVE  FirstHit(ts, Slots(ts), line) = <<n, i>>
<1> USE DEF OnlyOn
<1> DEFINE hit == {m \in DOMAIN ts : OnLine(ts[m], Slots(ts)[m], line) # {}}
<1>1. \A m \in DOMAIN ts : Slots(ts)[m] = DOMAIN ts[m].cells
  BY DEF Slots
<1>2. OnLine(ts[n], Slots(ts)[n], line) = {i}
  BY <1>1 DEF OnLine
<1>3. hit = {n}
  BY <1>1, <1>2 DEF OnLine
<1>4. \A x \in Int : Least({x}) = x
  BY DEF Least
<1>5. Least(hit) = n /\ Least(OnLine(ts[n], Slots(ts)[n], line)) = i
  BY <1>2, <1>3, <1>4
<1>6. FirstHit(ts, Slots(ts), line)
         = IF hit = {} THEN <<>> ELSE <<Least(hit), Least(OnLine(ts[Least(hit)], Slots(ts)[Least(hit)], line))>>
  BY DEF FirstHit
<1> HIDE DEF hit
<1> QED BY <1>3, <1>5, <1>6

\* A search for a line that no cell has comes back empty.
LEMMA FirstHitNone ==
    ASSUME NEW ts, NEW line,
           \A m \in DOMAIN ts : \A j \in DOMAIN ts[m].cells : ts[m].cells[j].line # line
    PROVE  FirstHit(ts, Slots(ts), line) = <<>>
  BY DEF FirstHit, Slots, OnLine

\* Every slot of the searched tables has a natural number.
LEMMA SlotNumbers ==
    ASSUME TablesOK, NEW a \in Named PROVE DOMAIN Table(a).cells \subseteq Int
<1>1. PioSlots \subseteq Int /\ ProcSlots \subseteq Int
  BY DEF PioSlots, ProcSlots
<1>2. CASE a \in UPs
  BY <1>1, <1>2, NamedTables, TablesParts
<1>3. CASE a \notin UPs
  <2>1. PICK p \in PIOs : a = <<"pio", p>>
    BY <1>3, NamedTables
  <2>2. Table(a) = pios[p] /\ DOMAIN pios[p].cells = PioSlots
    BY <2>1, NamedTables, TablesParts
  <2> QED BY <1>1, <2>2
<1> QED BY <1>2, <1>3

\* Toggle and the search agree on which instruction a line means.
LEMMA BreakpointsSeen == IInv => BreakpointsAreSeen
<1> SUFFICES ASSUME IInv, NEW line \in Breakpoints \ StaleLines PROVE IsBreakpoint(line)
  BY DEF BreakpointsAreSeen
<1>0. TablesOK /\ LinesDiffer
  BY DEF IInv
<1>1. PICK a \in Named : \E i \in DOMAIN Table(a).cells :
                            Table(a).cells[i].is_breakpoint /\ Table(a).cells[i].line = line
  BY SearchedNamed DEF Breakpoints, LinesOf
<1>2. PICK i \in DOMAIN Table(a).cells :
           Table(a).cells[i].is_breakpoint /\ Table(a).cells[i].line = line
  BY <1>1
<1>3. ASSUME NEW b \in Named, NEW j \in DOMAIN Table(b).cells, Table(b).cells[j].line = line
      PROVE  j \in Loaded(Table(b))
  BY <1>3, SearchedNamed DEF StaleLines, LinesOf
<1>4. ASSUME NEW b \in Named, NEW j \in DOMAIN Table(b).cells, Table(b).cells[j].line = line
      PROVE  b = a /\ j = i
  <2>1. i \in Loaded(Table(a)) /\ j \in Loaded(Table(b))
    BY <1>2, <1>3, <1>4
  <2>2. Table(a).cells[i].line = Table(b).cells[j].line
    BY <1>2, <1>4
  <2> QED BY <1>0, <2>1, <2>2, Zenon DEF LinesDiffer
<1>5. i \in Int
  BY <1>0, SlotNumbers
<1>6. DOMAIN pios = PIOs /\ PIOs \subseteq Int /\ DOMAIN Ups = UpNums /\ UpNums \subseteq Int
  BY <1>0, TablesParts DEF PIOs, UpNums, Ups
<1>7. \A u \in UpNums : /\ <<"up", u>> \in Named /\ Table(<<"up", u>>) = Up(u) /\ Ups[u] = Up(u)
                        /\ \A p \in PIOs : <<"up", u>> # <<"pio", p>>
  BY NamedTables DEF UpNums, UPs, Up, Ups
<1>8. CASE \E p \in PIOs : a = <<"pio", p>>
  <2>1. PICK p \in PIOs : a = <<"pio", p>>
    BY <1>8
  <2>2. Table(a) = pios[p]
    BY <2>1, NamedTables
  <2>3. \A m \in DOMAIN pios : \A j \in DOMAIN pios[m].cells :
            pios[m].cells[j].line = line => m = p /\ j = i
    BY <1>4, <1>6, <2>1, NamedTables
  <2>4. /\ p \in DOMAIN pios /\ i \in DOMAIN pios[p].cells /\ p \in Int
        /\ pios[p].cells[i].line = line
    BY <1>2, <1>6, <2>2
  <2>5. OnlyOn(pios, line, p, i)
    BY <1>5, <2>3, <2>4 DEF OnlyOn
  <2>6. FirstHit(pios, Slots(pios), line) = <<p, i>>
    BY <2>5, FirstHitIs
  <2> QED BY <1>2, <2>2, <2>6 DEF IsBreakpoint
<1>9. CASE ~\E p \in PIOs : a = <<"pio", p>>
  <2>1. a \in UPs
    BY <1>9, NamedTables
  <2>2. PICK u \in UpNums : a = <<"up", u>>
    BY <2>1 DEF UPs, UpNums
  <2>3. \A m \in PIOs : \A j \in DOMAIN pios[m].cells : pios[m].cells[j].line # line
    BY <1>4, <1>9, NamedTables
  <2>4. FirstHit(pios, Slots(pios), line) = <<>>
    BY <1>6, <2>3, FirstHitNone
  <2>5. \A m \in DOMAIN Ups : \A j \in DOMAIN Ups[m].cells :
            Ups[m].cells[j].line = line => m = u /\ j = i
    BY <1>4, <1>6, <1>7, <2>2
  <2>6. /\ u \in DOMAIN Ups /\ i \in DOMAIN Ups[u].cells /\ u \in Int
        /\ Ups[u].cells[i].line = line
    BY <1>2, <1>6, <1>7, <2>2
  <2>7. OnlyOn(Ups, line, u, i)
    BY <1>5, <2>5, <2>6 DEF OnlyOn
  <2>8. FirstHit(Ups, UserSlots, line) = <<u, i>>
    BY <2>7, FirstHitIs DEF UserSlots
  <2> QED BY <1>2, <1>7, <2>2, <2>4, <2>8 DEF IsBreakpoint
<1> QED BY <1>8, <1>9

-----------------------------------------------------------------------------
(* Breakpoints: the theorems *)

\* A breakpoint on an instruction of the program is one the execution looks for.
THEOREM SetBreakpointsAreSeen == Spec => []BreakpointsAreSeen
  BY AlwaysIInv, BreakpointsSeen, PTL

\* A run never executes past a breakpoint.
THEOREM RunsStop == Spec => RunStopsAtBreakpoints
<1> DEFINE Stops == running > 0 /\ (running' # running \/ last_line' # last_line)
                    => (IsBreakpoint(last_line') => running' = 0 /\ shown' = last_line')
<1>1. ASSUME IInv, MNext, running > 0, running' # running \/ last_line' # last_line,
             IsBreakpoint(last_line')
      PROVE  running' = 0 /\ shown' = last_line'
  <2>1. running \in 1..2 /\ parse # "reading"
    BY <1>1 DEF IInv, OneThingAtATime
  <2>2. ~Parse
    BY <1>1, <2>1 DEF Parse, LNext, AddInstruction, AddUserInstruction, TableFull, SetPio, SetSm,
                SetProcessor, SetWrap, AddLabel, Blank, Reading, EndOfFile, SyntaxError
  <2>3. PICK key \in BOOLEAN : RunStep(key)
    BY <1>1, <2>1, <2>2 DEF MNext, StartBuild, ToggleIt, StepFirst, StepIt, RunIt, NotBuilt, Command
  <2>4. running' = 0
    BY <1>1, <2>1, <2>3 DEF RunStep, HitBreakpoint
  <2> QED BY <2>3, <2>4 DEF RunStep
<1>2. IInv /\ [MNext]_mvars => [Stops]_mvars
  BY <1>1
<1> QED BY <1>2, AlwaysIInv, PTL DEF Spec, RunStopsAtBreakpoints
-----------------------------------------------------------------------------
(* Addresses: how many of a set of lines come before a line *)

\* A set of lines of a file is finite.
LEMMA FiniteLines ==
    ASSUME NEW n \in Nat, NEW C \in SUBSET (1..n)
    PROVE  /\ IsFiniteSet(C) /\ Cardinality(C) \in 0..n
           /\ Cardinality(C) = 0 <=> C = {}
<1>1. IsFiniteSet(1..n) /\ Cardinality(1..n) = n
  BY FS_Interval
<1>2. IsFiniteSet(C) /\ Cardinality(C) <= n
  BY <1>1, FS_Subset
<1>3. Cardinality(C) \in Nat
  BY <1>2, FS_CardinalityType
<1>4. Cardinality(C) = 0 <=> C = {}
  BY <1>2, FS_EmptySet, Zenon
<1> QED BY <1>2, <1>3, <1>4

\* The place of a line among the lines of a set.
LEMMA AddressType ==
    ASSUME NEW n \in Nat, NEW C \in SUBSET (1..n), NEW k \in 1..(n + 1)
    PROVE  /\ Address(C, k) \in 0..Cardinality(C)
           /\ k \in C => Address(C, k) < Cardinality(C)
           /\ Address(C \cup {n + 1}, k) = Address(C, k)
           /\ Address(C, n + 1) = Cardinality(C)
           /\ Cardinality(C \cup {n + 1}) = Cardinality(C) + 1
<1> DEFINE B == {j \in C : j < k}
<1>1. IsFiniteSet(C) /\ Cardinality(C) \in Nat
  BY FiniteLines
<1>2. B \in SUBSET (1..n) /\ B \in SUBSET C
  OBVIOUS
<1>3. /\ Cardinality(B) \in Nat /\ Cardinality(B) <= Cardinality(C)
      /\ Cardinality(C) = Cardinality(B) => C = B
  BY <1>1, <1>2, FiniteLines, FS_Subset
<1>4. k \in C => B # C
  OBVIOUS
<1>5. {j \in C \cup {n + 1} : j < k} = B
  OBVIOUS
<1>6. {j \in C : j < n + 1} = C
  <2>1. \A j \in C : j < n + 1
    OBVIOUS
  <2> QED BY <2>1, Zenon
<1>7. n + 1 \notin C
  OBVIOUS
<1>8. Cardinality(C \cup {n + 1}) = Cardinality(C) + 1
  BY <1>1, <1>7, FS_AddElement
<1>9. Address(C, k) = Cardinality(B)
  BY DEF Address
<1>10. Address(C \cup {n + 1}, k) = Cardinality(B)
  BY <1>5 DEF Address
<1>11. Address(C, n + 1) = Cardinality(C)
  BY <1>6 DEF Address
<1> HIDE DEF B
<1> QED BY <1>1, <1>3, <1>4, <1>8, <1>9, <1>10, <1>11

\* A later line of the set has a later place.
LEMMA AddressGrows ==
    ASSUME NEW n \in Nat, NEW C \in SUBSET (1..n), NEW i \in C, NEW k \in C, i < k
    PROVE  Address(C, i) < Address(C, k)
<1> DEFINE A == {j \in C : j < i}
           B == {j \in C : j < k}
<1>0. i \in Nat /\ k \in Nat /\ \A j \in C : j \in Nat /\ (j < i => j < k) /\ ~(i < i)
  OBVIOUS
<1>1. A \in SUBSET B /\ i \in B /\ i \notin A /\ B \in SUBSET (1..n) /\ A \in SUBSET (1..n)
  BY <1>0, Zenon
<1>2. IsFiniteSet(B) /\ Cardinality(A) \in Nat /\ Cardinality(B) \in Nat
  BY <1>1, FiniteLines
<1>3. Cardinality(A) <= Cardinality(B) /\ (Cardinality(A) = Cardinality(B) => A = B)
  BY <1>1, <1>2, FS_Subset
<1>4. A # B
  BY <1>1
<1>5. Address(C, i) = Cardinality(A) /\ Address(C, k) = Cardinality(B)
  BY DEF Address
<1> HIDE DEF A, B
<1> QED BY <1>2, <1>3, <1>4, <1>5

-----------------------------------------------------------------------------
(* The lines of a file *)

\* One more statement is carried out.
Reads(s) == text' = Append(text, s) /\ since' = since

\* What a statement that is read leaves of the lines before it.
LEMMA OneMoreLine ==
    ASSUME text \in Seq(Statements), NEW s \in Statements, Reads(s)
    PROVE  /\ text' \in Seq(Statements) /\ Len(text) \in Nat /\ Len(text') = Len(text) + 1
           /\ Lines = 1..Len(text) /\ Lines' = Lines \cup {Len(text) + 1}
           /\ text'[Len(text) + 1] = s
           /\ \A j \in Lines : text'[j] = text[j]
  BY DEF Reads, Lines

\* A nonempty set of lines has a last one.
LEMMA LastOfLines ==
    ASSUME NEW n \in Nat, NEW C \in SUBSET (1..n)
    PROVE  /\ C = {} => LastOf(C) = 0
           /\ C # {} => LastOf(C) \in C /\ \A i \in C : i <= LastOf(C)
<1>1. CASE C = {}
  BY <1>1 DEF LastOf
<1>2. CASE C # {}
  <2> DEFINE T == {n - j : j \in C}
  <2>1. T \subseteq Nat
    OBVIOUS
  <2>2. T # {}
    BY <1>2
  <2>3. PICK x \in T : \A y \in T : x <= y
    BY <2>1, <2>2, LeastExists
  <2>4. PICK j \in C : x = n - j
    BY <2>3
  <2>5. \A i \in C : n - j <= n - i
    BY <2>3, <2>4
  <2>6. \A i \in C : i <= j
    BY <2>5
  <2>7. LastOf(C) = CHOOSE l \in C : \A i \in C : i <= l
    BY <1>2 DEF LastOf
  <2> QED BY <1>2, <2>6, <2>7
<1> QED BY <1>1, <1>2

\* The last line of a kind is the latest of its lines.
LEMMA LastOfIs ==
    ASSUME NEW n \in Nat, NEW C \in SUBSET (1..n), NEW j \in C, \A i \in C : i <= j
    PROVE  LastOf(C) = j
<1>1. PICK l \in C : l = LastOf(C) /\ j <= l
  BY LastOfLines
<1>2. l <= j /\ l \in Int /\ j \in Int
  OBVIOUS
<1> QED BY <1>1, <1>2

\* The last line of some kinds before a line.
LEMMA LastLineType ==
    ASSUME text \in Seq(Statements), NEW k \in Nat, NEW kinds
    PROVE  \/ LastLine(k, kinds) = 0
           \/ /\ LastLine(k, kinds) \in Lines /\ LastLine(k, kinds) < k
              /\ text[LastLine(k, kinds)].k \in kinds
<1> DEFINE found == {j \in Lines : j < k /\ text[j].k \in kinds}
<1>1. found \in SUBSET (1..Len(text)) /\ Len(text) \in Nat
  BY DEF Lines
<1>2. LastLine(k, kinds) = LastOf(found)
  BY DEF LastLine
<1>3. found = {} \/ LastOf(found) \in found
  BY <1>1, LastOfLines
<1>4. CASE found = {}
  BY <1>1, <1>2, <1>4, LastOfLines
<1>5. CASE LastOf(found) \in found
  BY <1>2, <1>5
<1> QED BY <1>3, <1>4, <1>5

\* One more line is the last of its kind, or changes no last line.
LEMMA LastLineNext ==
    ASSUME text \in Seq(Statements), NEW n, n = Len(text), NEW s \in Statements, Reads(s),
           NEW kinds
    PROVE  /\ \A k \in 1..(n + 1) : LastLine(k, kinds)' = LastLine(k, kinds)
           /\ LastLine(n + 2, kinds)' = IF s.k \in kinds THEN n + 1 ELSE LastLine(n + 1, kinds)
<1> DEFINE before(k) == {j \in Lines : j < k /\ text[j].k \in kinds}
           after(k) == {j \in Lines' : j < k /\ text'[j].k \in kinds}
<1>1. /\ n \in Nat /\ Lines = 1..n /\ Lines' = Lines \cup {n + 1} /\ text'[n + 1] = s
      /\ \A j \in Lines : text'[j] = text[j]
  BY OneMoreLine
<1>2. ASSUME NEW k \in Nat
      PROVE  LastLine(k, kinds)' = LastOf(after(k)) /\ LastLine(k, kinds) = LastOf(before(k))
  BY DEF LastLine
<1>3. ASSUME NEW k \in 1..(n + 1) PROVE LastLine(k, kinds)' = LastLine(k, kinds)
  <2>1. after(k) = before(k)
    BY <1>1
  <2>2. LastOf(after(k)) = LastOf(before(k))
    BY <2>1
  <2> HIDE DEF after, before
  <2> QED BY <1>1, <1>2, <2>2
<1>4. CASE s.k \in kinds
  <2>1. n + 1 \in after(n + 2) /\ \A i \in after(n + 2) : i <= n + 1
    BY <1>1, <1>4
  <2>2. after(n + 2) \in SUBSET (1..(n + 1)) /\ n + 1 \in Nat /\ n + 2 \in Nat
    BY <1>1
  <2> HIDE DEF after
  <2>3. LastOf(after(n + 2)) = n + 1
    BY <2>1, <2>2, LastOfIs
  <2>4. LastLine(n + 2, kinds)' = n + 1
    BY <1>2, <2>2, <2>3
  <2> QED BY <1>3, <1>4, <2>4
<1>5. CASE s.k \notin kinds
  <2>1. after(n + 2) = before(n + 1)
    BY <1>1, <1>5
  <2>2. n + 1 \in Nat /\ n + 2 \in Nat
    BY <1>1
  <2> HIDE DEF after, before
  <2>3. LastLine(n + 2, kinds)' = LastLine(n + 1, kinds)
    BY <1>2, <2>1, <2>2
  <2> QED BY <1>3, <1>5, <2>3
<1> QED BY <1>4, <1>5

-----------------------------------------------------------------------------
(* The current processors *)

\* What a statement makes of the place in the file that the next one finds.
LEMMA PlacesNext ==
    ASSUME text \in Seq(Statements), NEW n, n = Len(text), NEW s \in Statements, Reads(s)
    PROVE  /\ \A k \in 1..(n + 1) : /\ PioAt(k)' = PioAt(k) /\ SmAt(k)' = SmAt(k)
                                    /\ UpAt(k)' = UpAt(k) /\ IhAt(k)' = IhAt(k)
                                    /\ ContextAt(k)' = ContextAt(k)
           /\ PioAt(n + 2)' = IF s.k = "pio" THEN s.n ELSE PioAt(n + 1)
           /\ SmAt(n + 2)' = IF s.k = "sm" THEN PioAt(n + 1) * SMsPerPIO + s.n ELSE SmAt(n + 1)
           /\ UpAt(n + 2)' = IF s.k = "user_processor" THEN AtMost(s.n, NumUPs - 1)
                             ELSE UpAt(n + 1)
           /\ IhAt(n + 2)' = IF s.k = "interrupt_handler" THEN AtMost(s.n, NumIHs - 1)
                             ELSE IhAt(n + 1)
           /\ ContextAt(n + 2)' = IF s.k = "user_processor" THEN "up"
                                  ELSE IF s.k = "interrupt_handler" THEN "ih"
                                  ELSE ContextAt(n + 1)
<1>1. /\ n \in Nat /\ Lines = 1..n /\ text'[n + 1] = s /\ since' = since
      /\ \A j \in Lines : text'[j] = text[j]
  BY OneMoreLine DEF Reads
<1>2. n + 1 \in Nat /\ n + 2 \in Nat /\ n + 1 # 0 /\ n + 1 \in 1..(n + 1)
      /\ \A k \in 1..(n + 1) : k \in Nat
  BY <1>1
\* the kind that a place depends on
<1>3. ASSUME NEW k \in Nat, NEW kinds
      PROVE  LastLine(k, kinds) = 0 \/ LastLine(k, kinds) \in Lines
  BY <1>3, LastLineType
<1>4. ASSUME NEW kinds, NEW k \in 1..(n + 1)
      PROVE  /\ LastLine(k, kinds)' = LastLine(k, kinds)
             /\ LastLine(k, kinds) # 0 => text'[LastLine(k, kinds)] = text[LastLine(k, kinds)]
  BY <1>1, <1>2, <1>3, LastLineNext
<1>5. ASSUME NEW kinds
      PROVE  LastLine(n + 2, kinds)' = IF s.k \in kinds THEN n + 1 ELSE LastLine(n + 1, kinds)
  BY LastLineNext
<1>6. ASSUME NEW kind, NEW first
      PROVE  /\ \A k \in 1..(n + 1) : Latest(k, kind, first)' = Latest(k, kind, first)
             /\ Latest(n + 2, kind, first)' = IF s.k = kind THEN s.n ELSE Latest(n + 1, kind, first)
  <2>1. \A k \in 1..(n + 1) : Latest(k, kind, first)' = Latest(k, kind, first)
    BY <1>4 DEF Latest
  <2>2. CASE s.k = kind
    BY <1>1, <1>2, <1>5, <2>1, <2>2 DEF Latest
  <2>3. CASE s.k # kind
    BY <1>2, <1>4, <1>5, <2>1, <2>3 DEF Latest
  <2> QED BY <2>1, <2>2, <2>3
<1>7. /\ \A k \in 1..(n + 1) : PioAt(k)' = PioAt(k)
      /\ PioAt(n + 2)' = IF s.k = "pio" THEN s.n ELSE PioAt(n + 1)
  BY <1>6 DEF PioAt
<1>8. /\ \A k \in 1..(n + 1) : UpAt(k)' = UpAt(k) /\ IhAt(k)' = IhAt(k)
      /\ UpAt(n + 2)' = IF s.k = "user_processor" THEN AtMost(s.n, NumUPs - 1)
                        ELSE UpAt(n + 1)
      /\ IhAt(n + 2)' = IF s.k = "interrupt_handler" THEN AtMost(s.n, NumIHs - 1)
                        ELSE IhAt(n + 1)
  <2>1. PICK u, h : u = since.up /\ h = since.ih
    OBVIOUS
  <2>2. ASSUME NEW k
        PROVE  /\ UpAt(k) = AtMost(Latest(k, "user_processor", u), NumUPs - 1)
               /\ UpAt(k)' = AtMost(Latest(k, "user_processor", u)', NumUPs - 1)
               /\ IhAt(k) = AtMost(Latest(k, "interrupt_handler", h), NumIHs - 1)
               /\ IhAt(k)' = AtMost(Latest(k, "interrupt_handler", h)', NumIHs - 1)
    BY <1>1, <2>1 DEF UpAt, IhAt, Latest
  <2> QED BY <1>6, <2>2
<1>9. /\ \A k \in 1..(n + 1) : SmAt(k)' = SmAt(k)
      /\ SmAt(n + 2)' = IF s.k = "sm" THEN PioAt(n + 1) * SMsPerPIO + s.n ELSE SmAt(n + 1)
  <2>1. ASSUME NEW j \in Lines PROVE PioAt(j)' = PioAt(j)
    BY <1>1, <1>7
  <2>2. \A k \in 1..(n + 1) : SmAt(k)' = SmAt(k)
    BY <1>2, <1>3, <1>4, <2>1 DEF SmAt
  <2>3. CASE s.k = "sm"
    BY <1>1, <1>2, <1>5, <1>7, <2>2, <2>3 DEF SmAt
  <2>4. CASE s.k # "sm"
    BY <1>2, <1>3, <1>4, <1>5, <2>1, <2>2, <2>4 DEF SmAt
  <2> QED BY <2>2, <2>3, <2>4
<1>10. /\ \A k \in 1..(n + 1) : ContextAt(k)' = ContextAt(k)
       /\ ContextAt(n + 2)' = IF s.k = "user_processor" THEN "up"
                              ELSE IF s.k = "interrupt_handler" THEN "ih"
                              ELSE ContextAt(n + 1)
  <2>1. \A k \in 1..(n + 1) : ContextAt(k)' = ContextAt(k)
    BY <1>1, <1>4 DEF ContextAt
  <2>2. CASE s.k \in {"user_processor", "interrupt_handler"}
    BY <1>1, <1>2, <1>5, <2>1, <2>2 DEF ContextAt
  <2>3. CASE s.k \notin {"user_processor", "interrupt_handler"}
    BY <1>1, <1>2, <1>4, <1>5, <2>1, <2>3 DEF ContextAt
  <2> QED BY <2>1, <2>2, <2>3
<1> QED BY <1>7, <1>8, <1>9, <1>10

-----------------------------------------------------------------------------
(* What each statement adds to a file *)

LabelLines == {k \in Lines : text[k].k = "label"}

\* The lines of a program are lines of the file.
LEMMA CodeInLines ==
    /\ \A p : CodeOf(p) \in SUBSET Lines
    /\ \A m : SmCode(m) \in SUBSET Lines
    /\ \A q : UserCode(q) \in SUBSET Lines
    /\ LabelLines \in SUBSET Lines
  BY DEF CodeOf, SmCode, UserCode, LabelLines

\* The lines stay what they are.
LinesStay == \A k \in Lines : /\ text'[k] = text[k] /\ SmAt(k)' = SmAt(k) /\ PioAt(k)' = PioAt(k)
                              /\ ProcessorAt(k)' = ProcessorAt(k)

\* A statement that is read is one more line of its program, of no other.
LEMMA CodeNext ==
    ASSUME text \in Seq(Statements), NEW n, n = Len(text), NEW s \in Statements, Reads(s)
    PROVE  /\ LinesStay
           /\ \A p : CodeOf(p)' = IF s.k \in {"jmp", "other"} /\ PioAt(n + 1) = p
                                  THEN CodeOf(p) \cup {n + 1} ELSE CodeOf(p)
           /\ \A m : SmCode(m)' = IF s.k \in {"jmp", "other"} /\ SmAt(n + 1) = m
                                  THEN SmCode(m) \cup {n + 1} ELSE SmCode(m)
           /\ \A q : UserCode(q)' = IF s.k \in {"user", "exit"} /\ ProcessorAt(n + 1) = q
                                    THEN UserCode(q) \cup {n + 1} ELSE UserCode(q)
           /\ LabelLines' = IF s.k = "label" THEN LabelLines \cup {n + 1} ELSE LabelLines
<1>1. /\ n \in Nat /\ Lines = 1..n /\ Lines' = Lines \cup {n + 1} /\ text'[n + 1] = s
      /\ \A j \in Lines : text'[j] = text[j]
  BY OneMoreLine
<1>2. \A k \in 1..(n + 1) : /\ PioAt(k)' = PioAt(k) /\ SmAt(k)' = SmAt(k)
                            /\ ProcessorAt(k)' = ProcessorAt(k)
  BY PlacesNext DEF ProcessorAt
<1>3. n + 1 \in 1..(n + 1) /\ n + 1 \notin Lines /\ \A k \in Lines : k \in 1..(n + 1)
  BY <1>1
<1>4. LinesStay
  BY <1>1, <1>2, <1>3 DEF LinesStay
<1>5. ASSUME NEW p
      PROVE  CodeOf(p)' = IF s.k \in {"jmp", "other"} /\ PioAt(n + 1) = p
                          THEN CodeOf(p) \cup {n + 1} ELSE CodeOf(p)
  BY <1>1, <1>2, <1>3 DEF CodeOf
<1>6. ASSUME NEW m
      PROVE  SmCode(m)' = IF s.k \in {"jmp", "other"} /\ SmAt(n + 1) = m
                          THEN SmCode(m) \cup {n + 1} ELSE SmCode(m)
  BY <1>1, <1>2, <1>3 DEF SmCode
<1>7. ASSUME NEW q
      PROVE  UserCode(q)' = IF s.k \in {"user", "exit"} /\ ProcessorAt(n + 1) = q
                            THEN UserCode(q) \cup {n + 1} ELSE UserCode(q)
  BY <1>1, <1>2, <1>3 DEF UserCode
<1>8. LabelLines' = IF s.k = "label" THEN LabelLines \cup {n + 1} ELSE LabelLines
  BY <1>1, <1>3 DEF LabelLines
<1> QED BY <1>4, <1>5, <1>6, <1>7, <1>8

-----------------------------------------------------------------------------
(* Instructions in their places *)

\* A table that keeps its code keeps the lines filed in it.
LEMMA FiledStays ==
    ASSUME LinesStay, NEW C \in SUBSET Lines, NEW t, NEW u, SameCode(t, u), Filed(t.cells, C),
           \A k \in C : Address(C, k) \in DOMAIN t.cells
    PROVE  Filed(u.cells, C)'
<1>1. ASSUME NEW k \in C
      PROVE  LET c == u.cells[Address(C, k)]
             IN c.k = text'[k].k /\ c.sm = SmAt(k)' /\ c.line = k
  <2>1. PICK a : a = Address(C, k)
    OBVIOUS
  <2>2. t.cells[a].k = text[k].k /\ t.cells[a].sm = SmAt(k) /\ t.cells[a].line = k
    BY <2>1 DEF Filed
  <2>3. text'[k] = text[k] /\ SmAt(k)' = SmAt(k)
    BY DEF LinesStay
  <2>4. u.cells[a].k = t.cells[a].k /\ u.cells[a].sm = t.cells[a].sm
        /\ u.cells[a].line = t.cells[a].line
    BY <2>1 DEF SameCode
  <2> QED BY <2>1, <2>2, <2>3, <2>4
<1> QED BY <1>1 DEF Filed

\* One more instruction, put at the end of a table, is filed there.
LEMMA FiledMore ==
    ASSUME text \in Seq(Statements), NEW n, n = Len(text), NEW s \in Statements, Reads(s),
           NEW C \in SUBSET Lines, NEW D, NEW cells \in [D -> Cell], NEW cell,
           \A a \in 0..Cardinality(C) : a \in D,
           Filed(cells, C), cell.k = s.k, cell.sm = SmAt(n + 1), cell.line = n + 1
    PROVE  Filed([cells EXCEPT ![Cardinality(C)] = cell], C \cup {n + 1})'
<1>1. /\ n \in Nat /\ Lines = 1..n /\ text'[n + 1] = s /\ LinesStay
  BY OneMoreLine, CodeNext
<1>2. SmAt(n + 1)' = SmAt(n + 1)
  BY <1>1, PlacesNext
<1>3. PICK at : at = Cardinality(C)
  OBVIOUS
<1> DEFINE after == [cells EXCEPT ![at] = cell]
<1>4. at \in D /\ at \in Nat
  BY <1>1, <1>3, FiniteLines
<1>5. after[at] = cell /\ \A a \in D : a # at => after[a] = cells[a]
  BY <1>4
<1>6. ASSUME NEW k \in C
      PROVE  LET c == after[Address(C \cup {n + 1}, k)]
             IN c.k = text'[k].k /\ c.sm = SmAt(k)' /\ c.line = k
  <2>1. PICK a : a = Address(C, k)
    OBVIOUS
  <2>2. k \in 1..(n + 1)
    BY <1>1
  <2>3. Address(C \cup {n + 1}, k) = a /\ a < at /\ a \in 0..at
    BY <1>1, <1>3, <2>1, <2>2, AddressType
  <2>4. after[a] = cells[a]
    BY <1>3, <1>4, <1>5, <2>3
  <2>5. cells[a].k = text[k].k /\ cells[a].sm = SmAt(k) /\ cells[a].line = k
    BY <2>1 DEF Filed
  <2>6. text'[k] = text[k] /\ SmAt(k)' = SmAt(k)
    BY <1>1 DEF LinesStay
  <2> HIDE DEF after
  <2> QED BY <2>3, <2>4, <2>5, <2>6
<1>7. LET c == after[Address(C \cup {n + 1}, n + 1)]
      IN c.k = text'[n + 1].k /\ c.sm = SmAt(n + 1)' /\ c.line = n + 1
  <2>1. n + 1 \in 1..(n + 1)
    BY <1>1
  <2>2. Address(C \cup {n + 1}, n + 1) = at
    <3>1. C \in SUBSET (1..n) /\ n \in Nat
      BY <1>1
    <3>2. /\ Address(C \cup {n + 1}, n + 1) = Address(C, n + 1)
          /\ Address(C, n + 1) = Cardinality(C)
      BY <2>1, <3>1, AddressType
    <3> QED BY <1>3, <3>2
  <2>3. after[at] = cell /\ text'[n + 1] = s
    BY <1>1, <1>5
  <2>4. PICK now : now = after
    OBVIOUS
  <2> HIDE DEF after
  <2>5. now[Address(C \cup {n + 1}, n + 1)] = cell
    BY <2>2, <2>3, <2>4
  <2>6. cell.k = text'[n + 1].k /\ cell.sm = SmAt(n + 1)' /\ cell.line = n + 1
    BY <1>2, <2>3
  <2> QED BY <2>4, <2>5, <2>6
<1> HIDE DEF after
<1>8. Filed(after, C \cup {n + 1})'
  <2>1. PICK table, code : table = after /\ code = C \cup {n + 1}
    OBVIOUS
  <2>2. \A k \in code : LET c == table[Address(code, k)]
                        IN c.k = text'[k].k /\ c.sm = SmAt(k)' /\ c.line = k
    BY <1>6, <1>7, <2>1
  <2>3. Filed(table, code)'
    BY <2>2 DEF Filed
  <2> QED BY <2>1, <2>3
<1> QED BY <1>3, <1>8 DEF after

\* A PIO whose program gets no line keeps what is written of it.
LEMMA PioKept ==
    ASSUME text \in Seq(Statements), LinesStay, NEW p \in PIOs, PioWritten(p),
           pios[p].next <= NumInstructions, DOMAIN pios[p].cells = PioSlots,
           SameCode(pios[p], pios'[p]), CodeOf(p)' = CodeOf(p)
    PROVE  PioWritten(p)'
<1>1. PICK n, C, t, u : n = Len(text) /\ C = CodeOf(p) /\ t = pios[p] /\ u = pios'[p]
  OBVIOUS
<1>2. n \in Nat /\ C \in SUBSET (1..n) /\ Lines = 1..n
  BY <1>1, CodeInLines DEF Lines
<1>3. t.next = Cardinality(C) /\ Filed(t.cells, C)
      /\ \A i \in DOMAIN t.cells : i >= t.next => t.cells[i].k = "empty"
  BY <1>1 DEF PioWritten
<1>4. \A k \in C : Address(C, k) \in DOMAIN t.cells
  <2>1. \A k \in C : k \in 1..(n + 1)
    BY <1>2
  <2>2. \A k \in C : Address(C, k) \in 0..Cardinality(C) /\ Address(C, k) < Cardinality(C)
    BY <1>2, <2>1, AddressType
  <2>3. Cardinality(C) \in 0..n
    BY <1>2, FiniteLines
  <2>4. NumInstructions \in Nat /\ Cardinality(C) <= NumInstructions
    BY <1>1, <1>3, LoaderAssumption
  <2> QED BY <1>1, <1>2, <2>2, <2>3, <2>4 DEF PioSlots
<1>5. SameCode(t, u)
  BY <1>1
<1>6. Filed(u.cells, C)'
  BY <1>2, <1>3, <1>4, <1>5, FiledStays
<1>7. u.next = Cardinality(C) /\ \A i \in DOMAIN u.cells : i >= u.next => u.cells[i].k = "empty"
  BY <1>3, <1>5 DEF SameCode
<1>8. pios'[p] = u /\ CodeOf(p)' = C
  BY <1>1
<1> QED BY <1>6, <1>7, <1>8 DEF PioWritten

\* A processor whose program gets no line keeps what is written of it.
LEMMA ProcKept ==
    ASSUME text \in Seq(Statements), LinesStay, NEW q, ProcWritten(q),
           procs[q].next <= NumUserInstructions, DOMAIN procs[q].cells = ProcSlots,
           SameCode(procs[q], procs'[q]), procs'[q].pc = procs[q].pc, UserCode(q)' = UserCode(q)
    PROVE  ProcWritten(q)'
<1>1. PICK n, C, t, u : n = Len(text) /\ C = UserCode(q) /\ t = procs[q] /\ u = procs'[q]
  OBVIOUS
<1>2. n \in Nat /\ C \in SUBSET (1..n) /\ Lines = 1..n
  BY <1>1, CodeInLines DEF Lines
<1>3. t.next = Cardinality(C) /\ Filed(t.cells, C)
      /\ t.pc = IF q \in UPs /\ C # {} THEN 0 ELSE None
  BY <1>1 DEF ProcWritten
<1>4. \A k \in C : Address(C, k) \in DOMAIN t.cells
  <2>1. \A k \in C : k \in 1..(n + 1)
    BY <1>2
  <2>2. \A k \in C : Address(C, k) \in 0..Cardinality(C) /\ Address(C, k) < Cardinality(C)
    BY <1>2, <2>1, AddressType
  <2>3. Cardinality(C) \in 0..n
    BY <1>2, FiniteLines
  <2>4. NumUserInstructions \in Nat /\ Cardinality(C) <= NumUserInstructions
    BY <1>1, <1>3, LoaderAssumption
  <2> QED BY <1>1, <1>2, <2>2, <2>3, <2>4 DEF ProcSlots
<1>5. SameCode(t, u)
  BY <1>1
<1>6. Filed(u.cells, C)'
  BY <1>2, <1>3, <1>4, <1>5, FiledStays
<1>7. u.next = Cardinality(C) /\ u.pc = t.pc
  BY <1>1, <1>3, <1>5 DEF SameCode
<1>8. procs'[q] = u /\ UserCode(q)' = C
  BY <1>1
<1> QED BY <1>3, <1>6, <1>7, <1>8 DEF ProcWritten

\* Code is only added at the end, so a line keeps its place.
LEMMA PlaceStays ==
    ASSUME text \in Seq(Statements), NEW n, n = Len(text), LinesStay, NEW k \in Lines,
           \A p : CodeOf(p)' = CodeOf(p) \/ CodeOf(p)' = CodeOf(p) \cup {n + 1}
    PROVE  Place(k)' = Place(k) /\ Place(k) \in Nat
<1>1. PICK p, C : p = PioAt(k) /\ C = CodeOf(p)
  OBVIOUS
<1>2. n \in Nat /\ C \in SUBSET (1..n) /\ k \in 1..(n + 1)
  BY <1>1, CodeInLines DEF Lines
<1>3. Place(k) = Address(C, k)
  BY <1>1 DEF Place
<1>4. Place(k)' = Address(CodeOf(p)', k)
  <2>1. PioAt(k)' = p
    BY <1>1 DEF LinesStay
  <2> QED BY <2>1 DEF Place, Address
<1>5. CodeOf(p)' = C \/ CodeOf(p)' = C \cup {n + 1}
  BY <1>1
<1>6. Address(C, k) \in Nat /\ Address(C \cup {n + 1}, k) = Address(C, k)
  <2>1. Address(C, k) \in 0..Cardinality(C) /\ Address(C \cup {n + 1}, k) = Address(C, k)
    BY <1>2, AddressType
  <2>2. Cardinality(C) \in 0..n
    BY <1>2, FiniteLines
  <2> QED BY <2>1, <2>2
<1> QED BY <1>3, <1>4, <1>5, <1>6

\* A state machine that starts somewhere still starts there after one more line.
LEMMA StartKept ==
    ASSUME text \in Seq(Statements), NEW n, n = Len(text), LinesStay, NEW m, StartsAtFirst(m),
           \A p : CodeOf(p)' = CodeOf(p) \/ CodeOf(p)' = CodeOf(p) \cup {n + 1},
           SmCode(m)' = SmCode(m) \/ (SmCode(m) # {} /\ SmCode(m)' = SmCode(m) \cup {n + 1}),
           sms'[m].first_pc = sms[m].first_pc
    PROVE  StartsAtFirst(m)'
<1>1. PICK C, D : C = SmCode(m) /\ D = SmCode(m)'
  OBVIOUS
<1>2. n \in Nat /\ C \in SUBSET (1..n) /\ Lines = 1..n
  BY <1>1, CodeInLines DEF Lines
<1>3. C # {} => Least(D) = Least(C) /\ Least(C) \in C
  <2> SUFFICES ASSUME C # {} PROVE Least(D) = Least(C) /\ Least(C) \in C
    OBVIOUS
  <2>1. PICK l \in C : \A j \in C : l <= j
    BY <1>2, LeastExists
  <2>2. l \in D /\ \A j \in D : l <= j
    BY <1>1, <1>2, <2>1
  <2>3. \A i, j \in Int : i <= j /\ j <= i => i = j
    OBVIOUS
  <2>4. C \subseteq Int /\ D \subseteq Int
    BY <1>1, <1>2
  <2>5. Least(C) = l
    BY <2>1, <2>3, <2>4 DEF Least
  <2>6. Least(D) = l
    BY <2>2, <2>3, <2>4 DEF Least
  <2> QED BY <2>1, <2>5, <2>6
<1>4. C = {} <=> D = {}
  BY <1>1
<1>5. sms[m].first_pc = IF C = {} THEN None ELSE Place(Least(C))
  BY <1>1 DEF StartsAtFirst
<1>6. C # {} => Place(Least(C))' = Place(Least(C))
  <2> SUFFICES ASSUME C # {} PROVE Place(Least(C))' = Place(Least(C))
    OBVIOUS
  <2>1. PICK l : l = Least(C) /\ l \in Lines
    BY <1>2, <1>3
  <2>2. Place(l)' = Place(l)
    BY <2>1, PlaceStays
  <2> QED BY <2>1, <2>2
<1>7. sms'[m].first_pc = IF D = {} THEN None ELSE Place(Least(D))'
  BY <1>3, <1>4, <1>5, <1>6
<1> QED BY <1>1, <1>7 DEF StartsAtFirst

\* A wrap or a wrap target that is not read again is where it was.
LEMMA WrapKept ==
    ASSUME text \in Seq(Statements), NEW n, n = Len(text), LinesStay, NEW k \in Lines,
           WrapWritten(k),
           \A p : CodeOf(p)' = CodeOf(p) \/ CodeOf(p)' = CodeOf(p) \cup {n + 1},
           text[k].k = "wrap" => sms'[SmAt(k)].wrap = sms[SmAt(k)].wrap,
           text[k].k = "wrap_target" => sms'[SmAt(k)].wrap_target = sms[SmAt(k)].wrap_target
    PROVE  WrapWritten(k)'
<1>1. Place(k)' = Place(k)
  BY PlaceStays
<1>2. text'[k] = text[k] /\ SmAt(k)' = SmAt(k)
  BY DEF LinesStay
<1> QED BY <1>1, <1>2 DEF WrapWritten

-----------------------------------------------------------------------------
(* The invariant of loading *)

\* No location in the tables is beyond eight bits: the tables, or else what was
\* parsed, are short enough.
CountsFit == \A slots \in {NumInstructions, NumUserInstructions} :
                 slots < Int8Bound \/ Len(text) < Int8Bound

FileOK ==
    /\ text \in Seq(Statements) /\ line_count = Len(text) /\ Len(text) <= MaxLines
    /\ current.up < NumUPs /\ current.ih < NumIHs
    /\ sms \in [SMs -> [first_pc : Int, wrap : Int, wrap_target : Int]]
    /\ \A p \in PIOs : pios[p].next <= NumInstructions
    /\ \A q \in UPs \cup IHs : procs[q].next <= NumUserInstructions

\* The current processors are those of the end of the file.
PlacesOK ==
    /\ current.pio = PioAt(Len(text) + 1) /\ current.sm = SmAt(Len(text) + 1)
    /\ current.up = UpAt(Len(text) + 1) /\ current.ih = IhAt(Len(text) + 1)
    /\ current.context = ContextAt(Len(text) + 1)
    /\ \A k \in 1..(Len(text) + 1) : PioAt(k) \in PIOs /\ SmAt(k) \in SMs
    /\ \A k \in Lines : text[k].k \in {"wrap", "wrap_target"} => text[k].k \in used

\* What LoadedIsWritten says once a file was begun.
Written ==
    /\ \A p \in PIOs : PioWritten(p)
    /\ \A m \in SMs : StartsAtFirst(m)
    /\ \A k \in Lines : WrapWritten(k)
    /\ \A q \in UPs \cup IHs : ProcWritten(q)

\* A state machine's number.
LEMMA SmNumber ==
    ASSUME NEW p \in PIOs, NEW i \in Nat, i < SMsPerPIO
    PROVE  p * SMsPerPIO + i \in SMs
<1>1. NumPIOs \in Nat /\ SMsPerPIO \in Nat /\ p \in Nat /\ p + 1 <= NumPIOs
  BY LoaderAssumption DEF PIOs
<1>2. \A a, b, c \in Nat : a <= b => a * c <= b * c
  OBVIOUS
<1>3. (p + 1) * SMsPerPIO <= NumPIOs * SMsPerPIO
  BY <1>1, <1>2
<1>4. (p + 1) * SMsPerPIO = p * SMsPerPIO + SMsPerPIO
  BY <1>1
<1>5. p * SMsPerPIO \in Nat /\ NumPIOs * SMsPerPIO \in Nat
  BY <1>1
<1> QED BY <1>1, <1>3, <1>4, <1>5 DEF SMs

\* Each statement leaves the current processors where the file last names them.
LEMMA PlacesStep ==
    ASSUME text \in Seq(Statements), NEW s \in Statements, Reads(s), PlacesOK,
           s.k = "pio" => s.n \in PIOs, s.k = "sm" => s.n < SMsPerPIO,
           current'.pio = IF s.k = "pio" THEN s.n ELSE current.pio,
           current'.sm = IF s.k = "sm" THEN current.pio * SMsPerPIO + s.n ELSE current.sm,
           current'.up = IF s.k = "user_processor" THEN AtMost(s.n, NumUPs - 1) ELSE current.up,
           current'.ih = IF s.k = "interrupt_handler" THEN AtMost(s.n, NumIHs - 1)
                         ELSE current.ih,
           current'.context = IF s.k = "user_processor" THEN "up"
                              ELSE IF s.k = "interrupt_handler" THEN "ih" ELSE current.context,
           used \subseteq used', s.k \in {"wrap", "wrap_target"} => s.k \in used'
    PROVE  PlacesOK'
<1>1. PICK n : n = Len(text)
  OBVIOUS
<1>2. /\ n \in Nat /\ Lines = 1..n /\ Lines' = Lines \cup {n + 1} /\ text'[n + 1] = s
      /\ Len(text') = n + 1 /\ \A j \in Lines : text'[j] = text[j]
  BY <1>1, OneMoreLine
<1>3. /\ current.pio = PioAt(n + 1) /\ current.sm = SmAt(n + 1)
      /\ current.up = UpAt(n + 1) /\ current.ih = IhAt(n + 1)
      /\ current.context = ContextAt(n + 1)
      /\ \A k \in 1..(n + 1) : PioAt(k) \in PIOs /\ SmAt(k) \in SMs
      /\ \A k \in Lines : text[k].k \in {"wrap", "wrap_target"} => text[k].k \in used
  BY <1>1 DEF PlacesOK
<1>4. /\ current'.pio = PioAt(n + 2)' /\ current'.sm = SmAt(n + 2)'
      /\ current'.up = UpAt(n + 2)' /\ current'.ih = IhAt(n + 2)'
      /\ current'.context = ContextAt(n + 2)'
  BY <1>1, <1>3, PlacesNext
<1>5. PioAt(n + 2)' \in PIOs /\ SmAt(n + 2)' \in SMs
  <2>1. n + 1 \in 1..(n + 1)
    BY <1>2
  <2>2. PioAt(n + 1) \in PIOs /\ SmAt(n + 1) \in SMs
    BY <1>3, <2>1
  <2>3. s.k = "sm" => PioAt(n + 1) * SMsPerPIO + s.n \in SMs
    BY <2>2, SmNumber, LoaderAssumption DEF Statement
  <2> QED BY <1>1, <2>2, <2>3, PlacesNext
<1>6. \A k \in 1..(n + 1) : PioAt(k)' \in PIOs /\ SmAt(k)' \in SMs
  BY <1>1, <1>3, PlacesNext
<1>7. \A k \in Lines' : text'[k].k \in {"wrap", "wrap_target"} => text'[k].k \in used'
  BY <1>2, <1>3
<1>8. Len(text') + 1 = n + 2 /\ \A k \in 1..(n + 2) : k \in 1..(n + 1) \/ k = n + 2
  BY <1>2
<1>9. \A k \in 1..(n + 2) : PioAt(k)' \in PIOs /\ SmAt(k)' \in SMs
  BY <1>5, <1>6, <1>8
<1>10. PICK m : m = n + 2 /\ m = Len(text') + 1
  BY <1>8
<1>11. (Len(text) + 1)' = m
  BY <1>10
<1> QED BY <1>4, <1>7, <1>9, <1>10, <1>11 DEF PlacesOK

-----------------------------------------------------------------------------
(* The program is the file *)

\* A step that adds no instruction and sets no wrap.
LEMMA WrittenKept ==
    ASSUME TablesOK, FileOK, Written, NEW n, n = Len(text), LinesStay, UNCHANGED sms,
           \A p : CodeOf(p)' = CodeOf(p), \A m : SmCode(m)' = SmCode(m),
           \A q : UserCode(q)' = UserCode(q),
           \A k \in Lines' : k \in Lines \/ text'[k].k \notin {"wrap", "wrap_target"},
           \A p \in PIOs : SameCode(pios[p], pios'[p]),
           \A q \in UPs \cup IHs : SameCode(procs[q], procs'[q]) /\ procs'[q].pc = procs[q].pc
    PROVE  Written'
<1>1. text \in Seq(Statements)
  BY DEF FileOK
<1>2. ASSUME NEW p \in PIOs PROVE PioWritten(p)'
  <2>1. pios[p].next <= NumInstructions /\ DOMAIN pios[p].cells = PioSlots
    BY TablesParts DEF FileOK
  <2> QED BY <1>1, <2>1, PioKept DEF Written
<1>3. ASSUME NEW q \in UPs \cup IHs PROVE ProcWritten(q)'
  <2>1. procs[q].next <= NumUserInstructions /\ DOMAIN procs[q].cells = ProcSlots
    BY TablesParts DEF FileOK
  <2> QED BY <1>1, <2>1, ProcKept DEF Written
<1>4. ASSUME NEW m \in SMs PROVE StartsAtFirst(m)'
  BY <1>1, StartKept DEF Written
<1>5. ASSUME NEW k \in Lines' PROVE WrapWritten(k)'
  <2>1. CASE k \in Lines
    BY <1>1, <2>1, WrapKept DEF Written
  <2>2. CASE k \notin Lines
    <3>1. text'[k].k \notin {"wrap", "wrap_target"}
      BY <2>2
    <3> QED BY <3>1 DEF WrapWritten
  <2> QED BY <2>1, <2>2
<1> QED BY <1>2, <1>3, <1>4, <1>5, Zenon DEF Written, PIOs, SMs, UPs, IHs

\* The count of a table, below which an instruction is written.
LEMMA CountRises ==
    ASSUME CountsFit', NEW slots \in {NumInstructions, NumUserInstructions}, NEW c \in Nat,
           NEW m \in Nat, m = Len(text'), c < slots, c < m
    PROVE  Int8(c + 1) = c + 1 /\ c + 1 <= slots
<1>1. slots < Int8Bound \/ m < Int8Bound
  BY DEF CountsFit
<1> QED BY <1>1, LoaderAssumption DEF Int8

\* instruction_add: the new instruction of the current PIO and state machine.
LEMMA AddInstructionPio ==
    ASSUME CountsFit', TablesOK, FileOK, PlacesOK, Written, NEW s \in Statements, AddInstruction(s)
    PROVE  /\ \A p \in PIOs : PioWritten(p)' /\ pios'[p].next <= NumInstructions
           /\ \A m \in SMs : /\ StartsAtFirst(m)'
                            /\ sms'[m].wrap = sms[m].wrap
                            /\ sms'[m].wrap_target = sms[m].wrap_target
           /\ sms' \in [SMs -> [first_pc : Int, wrap : Int, wrap_target : Int]]
<1>1. PICK n, p, m : n = Len(text) /\ p = current.pio /\ m = current.sm
  OBVIOUS
<1>2. /\ text \in Seq(Statements) /\ n \in Nat /\ n < MaxLines /\ line_count = n /\ Reads(s)
      /\ s.k \in {"jmp", "other"} /\ Lines = 1..n /\ parse = "reading"
      /\ sms \in [SMs -> [first_pc : Int, wrap : Int, wrap_target : Int]]
  BY <1>1, OneMoreLine DEF FileOK, AddInstruction, Reading, Done, Reads, Lines
<1>3. p = PioAt(n + 1) /\ m = SmAt(n + 1) /\ p \in PIOs /\ m \in SMs
  <2>1. n + 1 \in 1..(n + 1)
    BY <1>2
  <2> QED BY <1>1, <2>1 DEF PlacesOK
<1>4. PICK C : C = CodeOf(p)
  OBVIOUS
<1>5. PICK at : at = Cardinality(C)
  OBVIOUS
<1>6. C \in SUBSET (1..n) /\ C \in SUBSET Lines /\ at \in 0..n
  BY <1>2, <1>4, <1>5, CodeInLines, FiniteLines
<1>7. at = pios[p].next /\ pios[p].cells \in [PioSlots -> Cell]
  BY <1>3, <1>4, <1>5, TablesParts DEF Written, PioWritten
<1>8. at < NumInstructions /\ Int8(at + 1) = at + 1 /\ at + 1 <= NumInstructions
  <2>1. at # NumInstructions /\ at <= NumInstructions /\ NumInstructions \in Nat
    BY <1>1, <1>3, <1>7, LoaderAssumption DEF FileOK, AddInstruction
  <2>2. at \in Nat /\ at < NumInstructions /\ at < n + 1 /\ n + 1 \in Nat
    BY <1>2, <1>6, <2>1, LoaderAssumption
  <2>3. n + 1 = Len(text')
    BY <1>1, <1>2, OneMoreLine
  <2> QED BY <2>2, <2>3, CountRises
<1> DEFINE new == [k |-> s.k, line |-> line_count + 1, sm |-> current.sm, name |-> s.name,
                   location |-> IF s.k = "jmp" THEN FindLabel(labels, s.name) ELSE NoLocation,
                   is_breakpoint |-> FALSE]
<1>9. PICK cells, cell : /\ cells = pios[p].cells /\ cell = new
                         /\ cell.k = s.k /\ cell.sm = SmAt(n + 1) /\ cell.line = n + 1
  <2>1. new.k = s.k /\ new.sm = SmAt(n + 1) /\ new.line = n + 1
    BY <1>1, <1>2, <1>3
  <2> HIDE DEF new
  <2> QED BY <2>1
<1>10. /\ pios' = [pios EXCEPT ![p] = [next |-> Int8(at + 1), cells |-> Put(@.cells, at, cell)]]
       /\ sms' = [sms EXCEPT ![m] = StartAt(@, at)]
  BY <1>1, <1>7, <1>9 DEF AddInstruction
<1> HIDE DEF new
<1>11. at \in PioSlots /\ \A a \in 0..at : a \in PioSlots
  BY <1>2, <1>6, <1>8, LoaderAssumption DEF PioSlots
<1>12. /\ pios'[p].next = at + 1
       /\ pios'[p].cells = [cells EXCEPT ![at] = cell]
       /\ \A r \in PIOs \ {p} : pios'[r] = pios[r]
  <2>1. Put(cells, at, cell) = [cells EXCEPT ![at] = cell]
    BY <1>7, <1>9, <1>11 DEF Put
  <2> QED BY <1>3, <1>8, <1>9, <1>10, <2>1, TablesParts
<1>13. /\ LinesStay
       /\ \A r : CodeOf(r)' = IF r = p THEN CodeOf(r) \cup {n + 1} ELSE CodeOf(r)
       /\ \A r : SmCode(r)' = IF r = m THEN SmCode(r) \cup {n + 1} ELSE SmCode(r)
  BY <1>1, <1>2, <1>3, CodeNext
<1>14. PioWritten(p)'
  <2>1. Filed([cells EXCEPT ![at] = cell], C \cup {n + 1})'
    <3>1. Filed(cells, C) /\ cells \in [PioSlots -> Cell]
      BY <1>3, <1>4, <1>7, <1>9 DEF Written, PioWritten
    <3> QED BY <1>1, <1>2, <1>5, <1>6, <1>9, <1>11, <3>1, FiledMore
  <2>2. Cardinality(C \cup {n + 1}) = at + 1
    <3>1. n + 1 \in 1..(n + 1)
      BY <1>2
    <3> QED BY <1>2, <1>5, <1>6, <3>1, AddressType
  <2>3. \A i \in PioSlots : i >= at + 1 => pios'[p].cells[i].k = "empty"
    <3>1. \A i \in PioSlots : i >= at => pios[p].cells[i].k = "empty"
      BY <1>3, <1>7 DEF Written, PioWritten
    <3> QED BY <1>6, <1>7, <1>9, <1>12, <3>1 DEF PioSlots
  <2>4. DOMAIN pios'[p].cells = PioSlots
    BY <1>7, <1>9, <1>12
  <2>5. PICK code, after : code = CodeOf(p)' /\ after = pios'[p].cells
    OBVIOUS
  <2>6. code = C \cup {n + 1} /\ after = [cells EXCEPT ![at] = cell]
    BY <1>4, <1>12, <1>13, <2>5
  <2>7. Filed(after, code)'
    BY <2>1, <2>6
  <2> QED BY <1>12, <2>2, <2>3, <2>4, <2>5, <2>6, <2>7 DEF PioWritten
<1>15. ASSUME NEW r \in PIOs \ {p} PROVE PioWritten(r)' /\ pios'[r].next <= NumInstructions
  <2>1. pios'[r] = pios[r] /\ CodeOf(r)' = CodeOf(r)
    BY <1>12, <1>13
  <2>2. SameCode(pios[r], pios'[r]) /\ DOMAIN pios[r].cells = PioSlots
    BY <2>1, TablesParts DEF SameCode
  <2> QED BY <1>2, <1>13, <2>1, <2>2, PioKept DEF Written, FileOK
<1>16. /\ sms' \in [SMs -> [first_pc : Int, wrap : Int, wrap_target : Int]]
       /\ sms'[m] = StartAt(sms[m], at)
       /\ \A r \in SMs \ {m} : sms'[r] = sms[r]
       /\ sms'[m].wrap = sms[m].wrap /\ sms'[m].wrap_target = sms[m].wrap_target
  <2>1. sms[m] \in [first_pc : Int, wrap : Int, wrap_target : Int] /\ at \in Int
    BY <1>2, <1>3, <1>6
  <2>2. /\ StartAt(sms[m], at) \in [first_pc : Int, wrap : Int, wrap_target : Int]
        /\ StartAt(sms[m], at).wrap = sms[m].wrap
        /\ StartAt(sms[m], at).wrap_target = sms[m].wrap_target
    BY <2>1 DEF StartAt
  <2> QED BY <1>2, <1>3, <1>10, <2>2
<1>17. \A r : CodeOf(r)' = CodeOf(r) \/ CodeOf(r)' = CodeOf(r) \cup {n + 1}
  BY <1>13
<1>18. ASSUME NEW r \in SMs \ {m} PROVE StartsAtFirst(r)'
  <2>1. sms'[r].first_pc = sms[r].first_pc /\ SmCode(r)' = SmCode(r)
    BY <1>13, <1>16
  <2> QED BY <1>1, <1>2, <1>13, <1>17, <2>1, StartKept DEF Written
<1>19. StartsAtFirst(m)'
  <2>1. sms[m].first_pc = IF SmCode(m) = {} THEN None ELSE Place(Least(SmCode(m)))
    BY <1>3 DEF Written, StartsAtFirst
  <2>2. CASE SmCode(m) = {}
    <3>1. SmCode(m)' = {n + 1}
      BY <1>13, <2>2
    <3>2. Least({n + 1}) = n + 1
      BY <1>2 DEF Least
    <3>3. sms'[m].first_pc = at
      BY <1>2, <1>3, <1>16, <2>1, <2>2 DEF StartAt, None
    <3>4. Place(n + 1)' = at
      <4>1. n + 1 \in 1..(n + 1)
        BY <1>2
      <4>2. PioAt(n + 1)' = p
        BY <1>1, <1>2, <1>3, <4>1, PlacesNext
      <4>3. CodeOf(p)' = C \cup {n + 1}
        BY <1>4, <1>13
      <4>4. Place(n + 1)' = Address(C \cup {n + 1}, n + 1)
        <5>1. PICK k : k = n + 1
          OBVIOUS
        <5>2. Place(k)' = Address(CodeOf(p)', k)
          BY <4>2, <5>1 DEF Place, Address
        <5> QED BY <4>3, <5>1, <5>2
      <4>5. Address(C \cup {n + 1}, n + 1) = Cardinality(C)
        <5>1. C \in SUBSET (1..n) /\ n \in Nat
          BY <1>2, <1>6
        <5>2. /\ Address(C \cup {n + 1}, n + 1) = Address(C, n + 1)
              /\ Address(C, n + 1) = Cardinality(C)
          BY <4>1, <5>1, AddressType
        <5> QED BY <5>2
      <4> QED BY <1>5, <4>4, <4>5
    <3>5. PICK k : k = n + 1
      OBVIOUS
    <3>6. Place(Least({k}))' = at
      <4>1. PICK l : l = Least({k})
        OBVIOUS
      <4> QED BY <3>2, <3>4, <3>5, <4>1
    <3>7. SmCode(m)' = {k} /\ SmCode(m)' # {}
      BY <3>1, <3>5
    <3> QED BY <3>3, <3>6, <3>7 DEF StartsAtFirst
  <2>3. CASE SmCode(m) # {}
    <3>1. sms[m].first_pc >= 0
      <4>1. PICK k : k = Least(SmCode(m))
        OBVIOUS
      <4>2. k \in SmCode(m)
        <5>1. SmCode(m) \subseteq Nat
          BY <1>2, CodeInLines
        <5>2. \E x \in SmCode(m) : \A y \in SmCode(m) : x <= y
          BY <2>3, <5>1, LeastExists
        <5> QED BY <4>1, <5>2 DEF Least
      <4>3. k \in Lines
        BY <4>2, CodeInLines
      <4>4. Place(k) \in Nat
        BY <1>1, <1>2, <1>13, <1>17, <4>3, PlaceStays
      <4> QED BY <2>1, <2>3, <4>1, <4>4
    <3>2. sms'[m].first_pc = sms[m].first_pc
      BY <1>2, <1>3, <1>16, <3>1 DEF StartAt
    <3>3. SmCode(m)' = SmCode(m) \cup {n + 1}
      BY <1>13
    <3> QED BY <1>1, <1>2, <1>3, <1>13, <1>17, <2>3, <3>2, <3>3, StartKept DEF Written
  <2> QED BY <2>2, <2>3
<1> QED BY <1>3, <1>8, <1>12, <1>14, <1>15, <1>16, <1>18, <1>19

\* An instruction of a state machine is written at the end of its PIO.
LEMMA AddInstructionWrites ==
    ASSUME CountsFit', TablesOK, FileOK, PlacesOK, Written, NEW s \in Statements, AddInstruction(s)
    PROVE  Written' /\ PlacesOK' /\ FileOK'
<1>1. PICK n : n = Len(text)
  OBVIOUS
<1>2. /\ text \in Seq(Statements) /\ n \in Nat /\ n < MaxLines /\ Reads(s)
      /\ s.k \in {"jmp", "other"} /\ UNCHANGED <<procs, current, used>>
      /\ line_count' = line_count + 1
      /\ text' \in Seq(Statements) /\ Len(text') = n + 1
      /\ Lines' = Lines \cup {n + 1} /\ text'[n + 1] = s
  BY <1>1, OneMoreLine DEF FileOK, AddInstruction, Reading, Done, Reads
<1>3. /\ LinesStay /\ \A q : UserCode(q)' = UserCode(q)
      /\ \A p : CodeOf(p)' = CodeOf(p) \/ CodeOf(p)' = CodeOf(p) \cup {n + 1}
  BY <1>1, <1>2, CodeNext
<1>4. /\ \A p \in PIOs : PioWritten(p)' /\ pios'[p].next <= NumInstructions
      /\ \A m \in SMs : /\ StartsAtFirst(m)'
                        /\ sms'[m].wrap = sms[m].wrap
                        /\ sms'[m].wrap_target = sms[m].wrap_target
      /\ sms' \in [SMs -> [first_pc : Int, wrap : Int, wrap_target : Int]]
  BY AddInstructionPio
<1>5. ASSUME NEW k \in Lines' PROVE WrapWritten(k)'
  <2>1. CASE k \in Lines
    <3>1. SmAt(k) \in SMs
      <4>1. k \in 1..(Len(text) + 1)
        BY <1>1, <1>2, <2>1 DEF Lines
      <4> QED BY <4>1 DEF PlacesOK
    <3>2. sms'[SmAt(k)].wrap = sms[SmAt(k)].wrap
          /\ sms'[SmAt(k)].wrap_target = sms[SmAt(k)].wrap_target
      BY <1>4, <3>1
    <3> QED BY <1>1, <1>2, <1>3, <2>1, <3>2, WrapKept DEF Written
  <2>2. CASE k \notin Lines
    BY <1>2, <2>2 DEF WrapWritten
  <2> QED BY <2>1, <2>2
<1>6. ASSUME NEW q \in UPs \cup IHs PROVE ProcWritten(q)'
  <2>1. SameCode(procs[q], procs'[q]) /\ procs'[q].pc = procs[q].pc
        /\ DOMAIN procs[q].cells = ProcSlots
    BY <1>2, TablesParts DEF SameCode
  <2> QED BY <1>2, <1>3, <2>1, ProcKept DEF Written, FileOK
<1>7. Written'
  BY <1>4, <1>5, <1>6, Zenon DEF Written, PIOs, SMs, UPs, IHs
<1>8. PlacesOK'
  BY <1>2, PlacesStep
<1>9. FileOK'
  <2>1. line_count' = Len(text') /\ Len(text') <= MaxLines
    BY <1>1, <1>2, LoaderAssumption DEF FileOK
  <2> QED BY <1>2, <1>4, <2>1 DEF FileOK
<1> QED BY <1>7, <1>8, <1>9

\* instruction_user_add: the new instruction of the current processor.
LEMMA AddUserInstructionWrites ==
    ASSUME CountsFit', TablesOK, FileOK, PlacesOK, Written, NEW s \in Statements,
           AddUserInstruction(s)
    PROVE  Written' /\ PlacesOK' /\ FileOK'
<1>1. PICK n, q : n = Len(text) /\ q = Processor
  OBVIOUS
<1>2. /\ text \in Seq(Statements) /\ n \in Nat /\ n < MaxLines /\ line_count = n /\ Reads(s)
      /\ s.k \in {"user", "exit"} /\ Lines = 1..n /\ UNCHANGED <<pios, sms, current, used>>
      /\ text' \in Seq(Statements) /\ Len(text') = n + 1 /\ line_count' = n + 1
      /\ Lines' = Lines \cup {n + 1} /\ text'[n + 1] = s
      /\ q \in UPs \cup IHs /\ DOMAIN procs = UPs \cup IHs
  BY <1>1, OneMoreLine, TablesParts DEF FileOK, AddUserInstruction, Reading, Done, Reads
<1>3. q = ProcessorAt(n + 1) /\ current.sm = SmAt(n + 1)
  BY <1>1 DEF PlacesOK, Processor, ProcessorAt, TablesOK
<1>4. PICK C : C = UserCode(q)
  OBVIOUS
<1>5. PICK at : at = Cardinality(C)
  OBVIOUS
<1>6. C \in SUBSET (1..n) /\ C \in SUBSET Lines /\ at \in 0..n
  BY <1>2, <1>4, <1>5, CodeInLines, FiniteLines
<1>7. at = procs[q].next /\ procs[q].cells \in [ProcSlots -> Cell]
  BY <1>2, <1>4, <1>5, TablesParts DEF Written, ProcWritten
<1>8. at < NumUserInstructions /\ Int8(at + 1) = at + 1 /\ at + 1 <= NumUserInstructions
  <2>1. at # NumUserInstructions /\ at <= NumUserInstructions /\ NumUserInstructions \in Nat
    BY <1>1, <1>2, <1>7, LoaderAssumption DEF FileOK, AddUserInstruction
  <2>2. at \in Nat /\ at < NumUserInstructions /\ at < n + 1 /\ n + 1 \in Nat
    BY <1>2, <1>6, <2>1, LoaderAssumption
  <2> QED BY <1>2, <2>2, CountRises
<1> DEFINE new == [EmptyCell(line_count + 1) EXCEPT !.k = s.k, !.sm = current.sm]
<1>9. PICK cells, cell : /\ cells = procs[q].cells /\ cell = new
                         /\ cell.k = s.k /\ cell.sm = SmAt(n + 1) /\ cell.line = n + 1
  <2>1. new.k = s.k /\ new.sm = SmAt(n + 1) /\ new.line = n + 1
    BY <1>2, <1>3 DEF EmptyCell
  <2> HIDE DEF new
  <2> QED BY <2>1
<1>10. procs' = [procs EXCEPT ![q] = [pc |-> IF q \in UPs /\ @.pc < 0 THEN at ELSE @.pc,
                                      next |-> Int8(at + 1),
                                      cells |-> Put(@.cells, at, cell)]]
  BY <1>1, <1>7, <1>9 DEF AddUserInstruction
<1> HIDE DEF new
<1>11. at \in ProcSlots /\ \A a \in 0..at : a \in ProcSlots
  BY <1>2, <1>6, <1>8, LoaderAssumption DEF ProcSlots
<1>12. /\ procs'[q].next = at + 1
       /\ procs'[q].cells = [cells EXCEPT ![at] = cell]
       /\ procs'[q].pc = IF q \in UPs /\ procs[q].pc < 0 THEN at ELSE procs[q].pc
       /\ \A r \in (UPs \cup IHs) \ {q} : procs'[r] = procs[r]
  <2>1. Put(cells, at, cell) = [cells EXCEPT ![at] = cell]
    BY <1>7, <1>9, <1>11 DEF Put
  <2> QED BY <1>2, <1>8, <1>9, <1>10, <2>1
<1>13. /\ LinesStay
       /\ \A r : UserCode(r)' = IF r = q THEN UserCode(r) \cup {n + 1} ELSE UserCode(r)
       /\ \A p : CodeOf(p)' = CodeOf(p)
       /\ \A m : SmCode(m)' = SmCode(m)
  BY <1>1, <1>2, <1>3, CodeNext
<1>14. ProcWritten(q)'
  <2>1. Filed([cells EXCEPT ![at] = cell], C \cup {n + 1})'
    <3>1. Filed(cells, C) /\ cells \in [ProcSlots -> Cell]
      BY <1>2, <1>4, <1>7, <1>9 DEF Written, ProcWritten
    <3> QED BY <1>1, <1>2, <1>5, <1>6, <1>9, <1>11, <3>1, FiledMore
  <2>2. Cardinality(C \cup {n + 1}) = at + 1
    <3>1. n + 1 \in 1..(n + 1)
      BY <1>2
    <3> QED BY <1>2, <1>5, <1>6, <3>1, AddressType
  <2>3. procs'[q].pc = IF q \in UPs THEN 0 ELSE None
    <3>1. procs[q].pc = IF q \in UPs /\ C # {} THEN 0 ELSE None
      BY <1>2, <1>4 DEF Written, ProcWritten
    <3>2. C = {} => at = 0
      BY <1>2, <1>5, <1>6, FiniteLines
    <3> QED BY <1>12, <3>1, <3>2 DEF None
  <2>4. PICK code, after : code = UserCode(q)' /\ after = procs'[q].cells
    OBVIOUS
  <2>5. code = C \cup {n + 1} /\ after = [cells EXCEPT ![at] = cell] /\ code # {}
    BY <1>4, <1>12, <1>13, <2>4
  <2>6. Filed(after, code)'
    BY <2>1, <2>5
  <2> QED BY <1>12, <2>2, <2>3, <2>4, <2>5, <2>6 DEF ProcWritten
<1>15. ASSUME NEW r \in (UPs \cup IHs) \ {q}
       PROVE  ProcWritten(r)' /\ procs'[r].next <= NumUserInstructions
  <2>1. procs'[r] = procs[r] /\ UserCode(r)' = UserCode(r)
    BY <1>12, <1>13
  <2>2. SameCode(procs[r], procs'[r]) /\ DOMAIN procs[r].cells = ProcSlots
    BY <2>1, TablesParts DEF SameCode
  <2> QED BY <1>2, <1>13, <2>1, <2>2, ProcKept DEF Written, FileOK
<1>16. ASSUME NEW p \in PIOs PROVE PioWritten(p)'
  <2>1. SameCode(pios[p], pios'[p]) /\ DOMAIN pios[p].cells = PioSlots
    BY <1>2, TablesParts DEF SameCode
  <2> QED BY <1>2, <1>13, <2>1, PioKept DEF Written, FileOK
<1>17. ASSUME NEW m \in SMs PROVE StartsAtFirst(m)'
  BY <1>1, <1>2, <1>13, StartKept DEF Written
<1>18. ASSUME NEW k \in Lines' PROVE WrapWritten(k)'
  <2>1. CASE k \in Lines
    BY <1>1, <1>2, <1>13, <2>1, WrapKept DEF Written
  <2>2. CASE k \notin Lines
    BY <1>2, <2>2 DEF WrapWritten
  <2> QED BY <2>1, <2>2
<1>19. \A r \in UPs \cup IHs : ProcWritten(r)' /\ procs'[r].next <= NumUserInstructions
  BY <1>8, <1>12, <1>14, <1>15
<1>20. Written'
  BY <1>16, <1>17, <1>18, <1>19, Zenon DEF Written, PIOs, SMs, UPs, IHs
<1>21. PlacesOK'
  BY <1>2, PlacesStep
<1>22. FileOK'
  <2>1. Len(text') <= MaxLines
    BY <1>2, LoaderAssumption
  <2> QED BY <1>2, <1>19, <2>1 DEF FileOK
<1> QED BY <1>20, <1>21, <1>22

\* A directive or a label stands before the next instruction of the current PIO.
LEMMA PlaceNext ==
    ASSUME FileOK, PlacesOK, Written, NEW s \in Statements, Reads(s), s.k \notin {"jmp", "other"},
           NEW k, k = Len(text) + 1
    PROVE  Place(k)' = pios[current.pio].next
<1>1. PICK n, p, C : n = Len(text) /\ p = current.pio /\ C = CodeOf(p)
  OBVIOUS
<1>2. text \in Seq(Statements) /\ n \in Nat /\ C \in SUBSET (1..n) /\ k = n + 1 /\ k \in 1..(n + 1)
  BY <1>1, CodeInLines DEF FileOK, Lines
<1>3. p = PioAt(k) /\ p \in PIOs
  BY <1>1, <1>2 DEF PlacesOK
<1>4. PioAt(k)' = p /\ CodeOf(p)' = C
  BY <1>1, <1>2, <1>3, PlacesNext, CodeNext
<1>5. Place(k)' = Address(C, k)
  <2>1. Place(k)' = Address(CodeOf(p)', k)
    BY <1>4 DEF Place, Address
  <2> QED BY <1>4, <2>1
<1>6. Address(C, k) = Cardinality(C)
  BY <1>2, AddressType
<1>7. pios[p].next = Cardinality(C)
  BY <1>1, <1>3 DEF Written, PioWritten
<1> QED BY <1>1, <1>5, <1>6, <1>7

\* hardware_set_wrap and hardware_set_wrap_target: only the new directive's field is set,
\* which no earlier line of its kind has set.
LEMMA SetWrapWrites ==
    ASSUME TablesOK, FileOK, PlacesOK, Written, NEW s \in Statements, SetWrap(s), s.k \notin used
    PROVE  Written' /\ PlacesOK' /\ FileOK'
<1>1. PICK n, p, m : n = Len(text) /\ p = current.pio /\ m = current.sm
  OBVIOUS
<1>2. /\ text \in Seq(Statements) /\ n \in Nat /\ n < MaxLines /\ line_count = n /\ Reads(s)
      /\ s.k \in {"wrap", "wrap_target"} /\ Lines = 1..n /\ UNCHANGED <<pios, procs, current>>
      /\ text' \in Seq(Statements) /\ Len(text') = n + 1 /\ line_count' = n + 1
      /\ Lines' = Lines \cup {n + 1} /\ text'[n + 1] = s /\ used' = used \cup {s.k}
      /\ sms \in [SMs -> [first_pc : Int, wrap : Int, wrap_target : Int]]
  BY <1>1, OneMoreLine DEF FileOK, SetWrap, Reading, Done, Reads
<1>3. n + 1 \in 1..(n + 1) /\ p = PioAt(n + 1) /\ m = SmAt(n + 1) /\ p \in PIOs /\ m \in SMs
  <2>1. n + 1 \in 1..(n + 1)
    BY <1>2
  <2> QED BY <1>1, <2>1 DEF PlacesOK
<1>4. PICK at : at = pios[p].next
  OBVIOUS
<1>5. sms' = [sms EXCEPT ![m] = IF s.k = "wrap" THEN [@ EXCEPT !.wrap = at - 1]
                                ELSE [@ EXCEPT !.wrap_target = at]]
  BY <1>1, <1>4 DEF SetWrap
<1>6. at \in Int
  BY <1>3, <1>4, TablesParts DEF Location
<1>7. /\ sms' \in [SMs -> [first_pc : Int, wrap : Int, wrap_target : Int]]
      /\ \A r \in SMs : /\ sms'[r].first_pc = sms[r].first_pc
                        /\ s.k # "wrap" => sms'[r].wrap = sms[r].wrap
                        /\ s.k # "wrap_target" => sms'[r].wrap_target = sms[r].wrap_target
      /\ s.k = "wrap" => sms'[m].wrap = at - 1
      /\ s.k = "wrap_target" => sms'[m].wrap_target = at
  <2>1. \A r \in SMs : sms[r] \in [first_pc : Int, wrap : Int, wrap_target : Int]
    BY <1>2
  <2> DEFINE set == IF s.k = "wrap" THEN [sms[m] EXCEPT !.wrap = at - 1]
                    ELSE [sms[m] EXCEPT !.wrap_target = at]
  <2>2. sms' = [sms EXCEPT ![m] = set]
    BY <1>5
  <2>3. /\ set \in [first_pc : Int, wrap : Int, wrap_target : Int]
        /\ set.first_pc = sms[m].first_pc
        /\ s.k # "wrap" => set.wrap = sms[m].wrap
        /\ s.k # "wrap_target" => set.wrap_target = sms[m].wrap_target
        /\ s.k = "wrap" => set.wrap = at - 1
        /\ s.k = "wrap_target" => set.wrap_target = at
    <3>1. PICK c : c = sms[m]
      OBVIOUS
    <3>2. c = [first_pc |-> c.first_pc, wrap |-> c.wrap, wrap_target |-> c.wrap_target]
          /\ c.first_pc \in Int /\ c.wrap \in Int /\ c.wrap_target \in Int
      BY <1>3, <2>1, <3>1
    <3>3. at - 1 \in Int
      BY <1>6
    <3>4. CASE s.k = "wrap"
      <4>1. set = [first_pc |-> c.first_pc, wrap |-> at - 1, wrap_target |-> c.wrap_target]
        BY <3>1, <3>2, <3>4
      <4> QED BY <3>1, <3>2, <3>3, <3>4, <4>1
    <3>5. CASE s.k = "wrap_target"
      <4>1. set = [first_pc |-> c.first_pc, wrap |-> c.wrap, wrap_target |-> at]
        BY <3>1, <3>2, <3>5
      <4> QED BY <1>6, <3>1, <3>2, <3>5, <4>1
    <3> QED BY <1>2, <3>4, <3>5
  <2> HIDE DEF set
  <2> QED BY <1>2, <1>3, <2>2, <2>3
<1>8. /\ LinesStay
      /\ \A r : CodeOf(r)' = CodeOf(r) /\ SmCode(r)' = SmCode(r) /\ UserCode(r)' = UserCode(r)
  BY <1>1, <1>2, CodeNext
<1>9. ASSUME NEW r \in PIOs PROVE PioWritten(r)'
  <2>1. SameCode(pios[r], pios'[r]) /\ DOMAIN pios[r].cells = PioSlots
    BY <1>2, TablesParts DEF SameCode
  <2> QED BY <1>2, <1>8, <2>1, PioKept DEF Written, FileOK
<1>10. ASSUME NEW q \in UPs \cup IHs PROVE ProcWritten(q)'
  <2>1. SameCode(procs[q], procs'[q]) /\ procs'[q].pc = procs[q].pc
        /\ DOMAIN procs[q].cells = ProcSlots
    BY <1>2, TablesParts DEF SameCode
  <2> QED BY <1>2, <1>8, <2>1, ProcKept DEF Written, FileOK
<1>11. ASSUME NEW r \in SMs PROVE StartsAtFirst(r)'
  BY <1>1, <1>2, <1>7, <1>8, StartKept DEF Written
<1>12. ASSUME NEW k \in Lines PROVE WrapWritten(k)'
  <2>1. SmAt(k) \in SMs /\ text[k].k # s.k
    <3>1. k \in 1..(Len(text) + 1)
      BY <1>1, <1>2
    <3> QED BY <1>2, <3>1 DEF PlacesOK
  <2>2. /\ text[k].k = "wrap" => sms'[SmAt(k)].wrap = sms[SmAt(k)].wrap
        /\ text[k].k = "wrap_target" => sms'[SmAt(k)].wrap_target = sms[SmAt(k)].wrap_target
    BY <1>7, <2>1
  <2> QED BY <1>1, <1>2, <1>8, <2>2, WrapKept DEF Written
<1>13. WrapWritten(n + 1)'
  <2>1. PICK k : k = n + 1
    OBVIOUS
  <2>2. SmAt(k)' = m
    BY <1>1, <1>2, <1>3, <2>1, PlacesNext
  <2>3. Place(k)' = at
    BY <1>1, <1>2, <1>4, <2>1, PlaceNext
  <2>4. text'[k] = s
    BY <1>2, <2>1
  <2>5. WrapWritten(k)'
    BY <1>7, <2>2, <2>3, <2>4 DEF WrapWritten
  <2> QED BY <2>1, <2>5
<1>14. PICK z : z = n + 1
  OBVIOUS
<1>15. \A k \in Lines' : WrapWritten(k)'
  BY <1>2, <1>12, <1>13, <1>14
<1>16. Written'
  BY <1>9, <1>10, <1>11, <1>15, Zenon DEF Written, PIOs, SMs, UPs, IHs
<1>17. PlacesOK'
  BY <1>2, PlacesStep
<1>18. FileOK'
  <2>1. Len(text') <= MaxLines
    BY <1>2, LoaderAssumption
  <2> QED BY <1>2, <1>7, <2>1 DEF FileOK
<1> QED BY <1>16, <1>17, <1>18

\* The statements that only choose a processor, or nothing, and labels.
LEMMA OtherStatementWrites ==
    ASSUME TablesOK, FileOK, PlacesOK, Written, NEW s \in Statements,
           Reading(s, {"pio", "sm", "user_processor", "interrupt_handler", "label", "blank"}),
           Done(s), UNCHANGED <<pios, sms, procs, used>>,
           s.k = "pio" => s.n \in PIOs, s.k = "sm" => s.n < SMsPerPIO,
           current'.pio = IF s.k = "pio" THEN s.n ELSE current.pio,
           current'.sm = IF s.k = "sm" THEN current.pio * SMsPerPIO + s.n ELSE current.sm,
           current'.up = IF s.k = "user_processor" THEN AtMost(s.n, NumUPs - 1) ELSE current.up,
           current'.ih = IF s.k = "interrupt_handler" THEN AtMost(s.n, NumIHs - 1)
                         ELSE current.ih,
           current'.context = IF s.k = "user_processor" THEN "up"
                              ELSE IF s.k = "interrupt_handler" THEN "ih" ELSE current.context
    PROVE  Written' /\ PlacesOK' /\ FileOK'
<1>1. PICK n : n = Len(text)
  OBVIOUS
<1>2. /\ text \in Seq(Statements) /\ n \in Nat /\ n < MaxLines /\ line_count = n /\ Reads(s)
      /\ Lines = 1..n
      /\ s.k \in {"pio", "sm", "user_processor", "interrupt_handler", "label", "blank"}
      /\ text' \in Seq(Statements) /\ Len(text') = n + 1 /\ line_count' = n + 1
      /\ Lines' = Lines \cup {n + 1} /\ text'[n + 1] = s
  BY <1>1, OneMoreLine DEF FileOK, Reading, Done, Reads
<1>3. /\ LinesStay
      /\ \A r : CodeOf(r)' = CodeOf(r) /\ SmCode(r)' = SmCode(r) /\ UserCode(r)' = UserCode(r)
  BY <1>1, <1>2, CodeNext
<1>4. Written'
  <2>1. \A k \in Lines' : k \in Lines \/ text'[k].k \notin {"wrap", "wrap_target"}
    BY <1>2
  <2>2. /\ \A p \in PIOs : SameCode(pios[p], pios'[p])
        /\ \A q \in UPs \cup IHs : SameCode(procs[q], procs'[q]) /\ procs'[q].pc = procs[q].pc
    BY DEF SameCode
  <2> QED BY <1>1, <1>3, <2>1, <2>2, WrittenKept
<1>5. PlacesOK'
  BY <1>2, PlacesStep
<1>6. FileOK'
  <2>1. /\ current'.up < NumUPs /\ current'.ih < NumIHs
    BY LoaderAssumption DEF FileOK, AtMost, Statement
  <2>2. Len(text') <= MaxLines
    BY <1>2, LoaderAssumption
  <2> QED BY <1>2, <2>1, <2>2 DEF FileOK
<1> QED BY <1>4, <1>5, <1>6

\* A step that reads nothing changes nothing that depends on the file only.
LEMMA SameText ==
    ASSUME UNCHANGED <<text, since>>
    PROVE  /\ LinesStay /\ Lines' = Lines
           /\ \A k : PioAt(k)' = PioAt(k) /\ SmAt(k)' = SmAt(k) /\ UpAt(k)' = UpAt(k)
                     /\ IhAt(k)' = IhAt(k) /\ ContextAt(k)' = ContextAt(k)
           /\ \A r : CodeOf(r)' = CodeOf(r) /\ SmCode(r)' = SmCode(r) /\ UserCode(r)' = UserCode(r)
<1>1. Lines' = Lines
  BY DEF Lines
<1>2. ASSUME NEW k, NEW kinds PROVE LastLine(k, kinds)' = LastLine(k, kinds)
  <2>1. {j \in Lines' : j < k /\ text'[j].k \in kinds} = {j \in Lines : j < k /\ text[j].k \in kinds}
    BY <1>1
  <2> QED BY <2>1 DEF LastLine
<1>3. ASSUME NEW k, NEW kind, NEW first PROVE Latest(k, kind, first)' = Latest(k, kind, first)
  BY <1>2 DEF Latest
<1>4. ASSUME NEW k
      PROVE  PioAt(k)' = PioAt(k) /\ UpAt(k)' = UpAt(k) /\ IhAt(k)' = IhAt(k)
             /\ ContextAt(k)' = ContextAt(k)
  <2>1. PICK u, h : u = since.up /\ h = since.ih
    OBVIOUS
  <2>2. /\ UpAt(k) = AtMost(Latest(k, "user_processor", u), NumUPs - 1)
        /\ UpAt(k)' = AtMost(Latest(k, "user_processor", u)', NumUPs - 1)
        /\ IhAt(k) = AtMost(Latest(k, "interrupt_handler", h), NumIHs - 1)
        /\ IhAt(k)' = AtMost(Latest(k, "interrupt_handler", h)', NumIHs - 1)
    BY <2>1 DEF UpAt, IhAt, Latest
  <2> QED BY <1>2, <1>3, <2>2 DEF PioAt, ContextAt
<1>5. ASSUME NEW k PROVE SmAt(k)' = SmAt(k) /\ ProcessorAt(k)' = ProcessorAt(k)
  BY <1>2, <1>4 DEF SmAt, ProcessorAt
<1>6. \A r : CodeOf(r)' = CodeOf(r) /\ SmCode(r)' = SmCode(r) /\ UserCode(r)' = UserCode(r)
  BY <1>1, <1>4, <1>5 DEF CodeOf, SmCode, UserCode
<1>7. LinesStay
  BY <1>4, <1>5 DEF LinesStay
<1> QED BY <1>1, <1>4, <1>5, <1>6, <1>7

\* The ends of the parse, breakpoints and the other commands.
LEMMA NothingReadWrites ==
    ASSUME TablesOK, FileOK, UNCHANGED <<text, since, sms, current, used, line_count>>,
           \A p \in PIOs : SameCode(pios[p], pios'[p]),
           \A q \in UPs \cup IHs : SameCode(procs[q], procs'[q]) /\ procs'[q].pc = procs[q].pc
    PROVE  FileOK' /\ (PlacesOK => PlacesOK') /\ (PlacesOK /\ Written => Written')
<1>1. PICK n : n = Len(text)
  OBVIOUS
<1>2. FileOK'
  BY DEF FileOK, SameCode
<1>3. ASSUME PlacesOK PROVE PlacesOK'
  <2>1. PICK k : k = Len(text) + 1
    OBVIOUS
  <2>2. (Len(text) + 1)' = k /\ Len(text)' = Len(text)
    BY <2>1
  <2> QED BY <1>3, <2>1, <2>2, SameText DEF PlacesOK
<1>4. ASSUME Written PROVE Written'
  <2>1. \A k \in Lines' : k \in Lines \/ text'[k].k \notin {"wrap", "wrap_target"}
    BY SameText
  <2>2. LinesStay /\ UNCHANGED sms
        /\ \A r : CodeOf(r)' = CodeOf(r) /\ SmCode(r)' = SmCode(r) /\ UserCode(r)' = UserCode(r)
    BY SameText
  <2> QED BY <1>1, <1>4, <2>1, <2>2, WrittenKept
<1> QED BY <1>2, <1>3, <1>4

\* A file of no lines says nothing.
LEMMA NoText ==
    ASSUME text' = <<>>
    PROVE  /\ Lines' = {}
           /\ \A r : CodeOf(r)' = {} /\ SmCode(r)' = {} /\ UserCode(r)' = {}
           /\ PioAt(1)' = 0 /\ SmAt(1)' = 0 /\ UpAt(1)' = AtMost(since'.up, NumUPs - 1)
           /\ IhAt(1)' = AtMost(since'.ih, NumIHs - 1) /\ ContextAt(1)' = since'.context
<1>1. Lines' = {}
  BY DEF Lines
<1>2. \A k, kinds : LastLine(k, kinds)' = 0
  BY <1>1 DEF LastLine, LastOf
<1>3. \A k, kind, first : Latest(k, kind, first)' = first
  BY <1>2 DEF Latest
<1>4. PICK u, h : u = since'.up /\ h = since'.ih
  OBVIOUS
<1>5. UpAt(1)' = AtMost(Latest(1, "user_processor", u)', NumUPs - 1)
      /\ IhAt(1)' = AtMost(Latest(1, "interrupt_handler", h)', NumIHs - 1)
  BY <1>4 DEF UpAt, IhAt, Latest
<1>6. PioAt(1)' = 0 /\ SmAt(1)' = 0 /\ ContextAt(1)' = since'.context
  BY <1>2, <1>3 DEF PioAt, SmAt, ContextAt
<1>7. \A r : CodeOf(r)' = {} /\ SmCode(r)' = {} /\ UserCode(r)' = {}
  BY <1>1 DEF CodeOf, SmCode, UserCode
<1> QED BY <1>1, <1>3, <1>4, <1>5, <1>6, <1>7

\* system_init: the tables are those of an empty file.
LEMMA SystemInitWrites ==
    ASSUME TablesOK, FileOK, SystemInit PROVE FileOK' /\ PlacesOK' /\ Written'
<1>1. /\ text' = <<>> /\ line_count' = 0 /\ used' = {}
      /\ current' = [current EXCEPT !.pio = 0, !.sm = 0] /\ since' = current'
      /\ pios' = [p \in PIOs |-> Emptied(pios[p])]
      /\ procs' = [q \in UPs \cup IHs |-> [Emptied(procs[q]) EXCEPT !.pc = None]]
      /\ sms' = [m \in SMs |-> NewSM]
  BY TablesParts DEF SystemInit, DefaultSMs
<1>2. /\ current'.pio = 0 /\ current'.sm = 0 /\ current'.up = current.up
      /\ current'.ih = current.ih /\ current'.context = current.context
      /\ current.up \in Int /\ current.ih \in Int
  BY <1>1 DEF TablesOK
<1>3. 0 \in PIOs /\ 0 \in SMs
  <2>1. SMsPerPIO \in Nat /\ 0 < SMsPerPIO /\ 0 \in PIOs
    BY LoaderAssumption DEF PIOs
  <2>2. 0 * SMsPerPIO + 0 \in SMs
    BY <2>1, SmNumber
  <2> QED BY <2>1, <2>2
<1>4. ASSUME NEW p \in PIOs
      PROVE  /\ pios'[p].next = 0
             /\ \A i \in DOMAIN pios'[p].cells : pios'[p].cells[i].k = "empty"
  <2>1. pios[p] \in PioTable
    BY DEF TablesOK
  <2>2. pios'[p] = Emptied(pios[p])
    BY <1>1
  <2>3. pios'[p].next = 0
    BY <2>1, <2>2, EmptiedPio
  <2>4. \A i \in DOMAIN Emptied(pios[p]).cells : Emptied(pios[p]).cells[i].k = "empty"
    BY <2>1 DEF Emptied, EmptyCell, PioTable
  <2> QED BY <2>2, <2>3, <2>4
<1>5. ASSUME NEW q \in UPs \cup IHs PROVE procs'[q].next = 0 /\ procs'[q].pc = None
  <2>1. procs[q] \in ProcTable
    BY DEF TablesOK
  <2>2. procs'[q] = [Emptied(procs[q]) EXCEPT !.pc = None]
    BY <1>1
  <2>3. procs'[q].next = 0
    BY <2>1, <2>2, EmptiedProc
  <2>4. [Emptied(procs[q]) EXCEPT !.pc = None].pc = None
    BY <2>1 DEF Emptied, ProcTable
  <2> QED BY <2>2, <2>3, <2>4
<1>6. Cardinality({}) = 0
  BY FS_EmptySet
<1>7. /\ Lines' = {}
      /\ \A r : CodeOf(r)' = {} /\ SmCode(r)' = {} /\ UserCode(r)' = {}
  BY <1>1, NoText
<1>8. ASSUME NEW p \in PIOs PROVE PioWritten(p)'
  <2>1. PICK C, cells : C = CodeOf(p)' /\ cells = pios'[p].cells
    OBVIOUS
  <2>2. Filed(cells, C)'
    BY <1>7, <2>1 DEF Filed
  <2> QED BY <1>4, <1>6, <1>7, <2>1, <2>2 DEF PioWritten
<1>9. ASSUME NEW q \in UPs \cup IHs PROVE ProcWritten(q)'
  <2>1. PICK C, cells : C = UserCode(q)' /\ cells = procs'[q].cells
    OBVIOUS
  <2>2. Filed(cells, C)'
    BY <1>7, <2>1 DEF Filed
  <2> QED BY <1>5, <1>6, <1>7, <2>1, <2>2 DEF ProcWritten
<1>10. ASSUME NEW m \in SMs PROVE StartsAtFirst(m)'
  BY <1>1, <1>7 DEF StartsAtFirst, NewSM
<1>11. Written'
  BY <1>7, <1>8, <1>9, <1>10, Zenon DEF Written, PIOs, SMs, UPs, IHs
<1>12. PlacesOK'
  <2>1. PICK k : k = 1 /\ (Len(text) + 1)' = k
    BY <1>1
  <2>2. /\ PioAt(k)' = 0 /\ SmAt(k)' = 0 /\ ContextAt(k)' = since'.context
        /\ UpAt(k)' = AtMost(since'.up, NumUPs - 1) /\ IhAt(k)' = AtMost(since'.ih, NumIHs - 1)
    BY <1>1, <2>1, NoText
  <2>3. AtMost(since'.up, NumUPs - 1) = current.up /\ AtMost(since'.ih, NumIHs - 1) = current.ih
    BY <1>1, <1>2, LoaderAssumption DEF FileOK, AtMost
  <2>4. \A j \in 1..k : j = k
    BY <2>1
  <2> QED BY <1>1, <1>2, <1>3, <1>7, <2>1, <2>2, <2>3, <2>4 DEF PlacesOK
<1>13. FileOK'
  <2>1. sms' \in [SMs -> [first_pc : Int, wrap : Int, wrap_target : Int]]
    BY <1>1 DEF NewSM, None
  <2>2. text' \in Seq(Statements) /\ Len(text') = 0
    BY <1>1
  <2>3. 0 <= NumInstructions /\ 0 <= NumUserInstructions /\ 0 <= MaxLines
    BY LoaderAssumption
  <2>4. current'.up < NumUPs /\ current'.ih < NumIHs
    BY <1>2 DEF FileOK
  <2>5. /\ \A p \in PIOs : pios'[p].next <= NumInstructions
        /\ \A q \in UPs \cup IHs : procs'[q].next <= NumUserInstructions
    BY <1>4, <1>5, <2>3
  <2>6. line_count' = Len(text') /\ Len(text') <= MaxLines
    BY <1>1, <2>2, <2>3
  <2> QED BY <2>1, <2>2, <2>4, <2>5, <2>6 DEF FileOK
<1> QED BY <1>11, <1>12, <1>13

-----------------------------------------------------------------------------
(* The invariant of loading, of every step *)

LoadInv == IInv /\ FileOK /\ (parse # "idle" /\ CountsFit => PlacesOK /\ Written)

\* Before the first build nothing is loaded.
LEMMA InitLoadInv == MInit => LoadInv
<1> SUFFICES ASSUME MInit PROVE LoadInv
  OBVIOUS
<1>1. IInv
  BY InitIInv
<1>2. /\ text = <<>> /\ line_count = 0 /\ parse = "idle"
      /\ current = [pio |-> None, sm |-> None, up |-> None, ih |-> None, context |-> "up"]
      /\ sms = [m \in SMs |-> [first_pc |-> 0, wrap |-> 0, wrap_target |-> 0]]
      /\ \A p \in PIOs : pios[p].next = 0
      /\ \A q \in UPs \cup IHs : procs[q].next = 0
  BY DEF MInit, LInit
<1>3. text \in Seq(Statements) /\ Len(text) = 0
  BY <1>2
<1>4. FileOK
  BY <1>2, <1>3, LoaderAssumption DEF FileOK, None
<1> QED BY <1>1, <1>2, <1>4 DEF LoadInv

\* The end of the parse.
LEMMA EndParseWrites ==
    ASSUME IInv, FileOK, PlacesOK, Written, NEW rc, EndParse(rc)
    PROVE  FileOK' /\ PlacesOK' /\ Written'
<1>1. /\ TablesOK /\ LinesDiffer
      /\ UNCHANGED <<text, since, sms, current, used, line_count, procs>>
  BY DEF EndParse, IInv
<1>2. /\ \A p \in PIOs : SameCode(pios[p], pios'[p])
      /\ \A q \in UPs \cup IHs : SameCode(procs[q], procs'[q]) /\ procs'[q].pc = procs[q].pc
  BY <1>1, EndParseKeeps DEF SameCode
<1> QED BY <1>1, <1>2, NothingReadWrites

\* Every statement the parser reads keeps the program as the file says.
LEMMA LNextWrites ==
    ASSUME CountsFit', IInv, FileOK, PlacesOK, Written, LNext
    PROVE  FileOK' /\ PlacesOK' /\ Written'
<1>0. TablesOK
  BY DEF IInv
<1>1. ASSUME NEW s \in Statements, AddInstruction(s) PROVE FileOK' /\ PlacesOK' /\ Written'
  BY <1>0, <1>1, AddInstructionWrites
<1>2. ASSUME NEW s \in Statements, AddUserInstruction(s) PROVE FileOK' /\ PlacesOK' /\ Written'
  BY <1>0, <1>2, AddUserInstructionWrites
<1>3. ASSUME NEW s \in Statements, TableFull(s) PROVE FileOK' /\ PlacesOK' /\ Written'
  BY <1>3, EndParseWrites DEF TableFull
<1> DEFINE Currents == [pio : Int, sm : Int, up : Int, ih : Int, context : {"up", "ih"}]
<1>4. current \in Currents
  BY <1>0 DEF TablesOK
<1>5. ASSUME NEW s \in Statements, SetPio(s) PROVE FileOK' /\ PlacesOK' /\ Written'
  <2>1. CASE s.n \in PIOs
    <3>1. /\ s.k = "pio" /\ current' = [current EXCEPT !.pio = s.n] /\ Done(s)
          /\ UNCHANGED <<pios, sms, procs, used>> /\ Reading(s, {"pio"})
      BY <1>5, <2>1 DEF SetPio, Reading
    <3>2. /\ current'.pio = s.n /\ current'.sm = current.sm /\ current'.up = current.up
          /\ current'.ih = current.ih /\ current'.context = current.context
      BY <1>4, <3>1
    <3>3. Reading(s, {"pio", "sm", "user_processor", "interrupt_handler", "label", "blank"})
      BY <3>1 DEF Reading
    <3> QED BY <1>0, <2>1, <3>1, <3>2, <3>3, OtherStatementWrites
  <2>2. CASE s.n \notin PIOs
    BY <1>5, <2>2, EndParseWrites DEF SetPio
  <2> QED BY <2>1, <2>2
<1>6. ASSUME NEW s \in Statements, SetSm(s) PROVE FileOK' /\ PlacesOK' /\ Written'
  <2>1. CASE s.n < SMsPerPIO
    <3>1. /\ s.k = "sm" /\ Done(s)
          /\ current' = [current EXCEPT !.sm = current.pio * SMsPerPIO + s.n]
          /\ UNCHANGED <<pios, sms, procs, used>> /\ Reading(s, {"sm"})
      BY <1>6, <2>1 DEF SetSm, Reading
    <3>2. /\ current'.sm = current.pio * SMsPerPIO + s.n /\ current'.pio = current.pio
          /\ current'.up = current.up /\ current'.ih = current.ih
          /\ current'.context = current.context
      BY <1>4, <3>1
    <3>3. Reading(s, {"pio", "sm", "user_processor", "interrupt_handler", "label", "blank"})
      BY <3>1 DEF Reading
    <3> QED BY <1>0, <2>1, <3>1, <3>2, <3>3, OtherStatementWrites
  <2>2. CASE ~(s.n < SMsPerPIO)
    BY <1>6, <2>2, EndParseWrites DEF SetSm
  <2> QED BY <2>1, <2>2
<1>7. ASSUME NEW s \in Statements, SetProcessor(s) PROVE FileOK' /\ PlacesOK' /\ Written'
  <2>1. /\ s.k \in {"user_processor", "interrupt_handler"} /\ Done(s)
        /\ UNCHANGED <<pios, sms, procs, used>>
        /\ Reading(s, {"user_processor", "interrupt_handler"})
    BY <1>7 DEF SetProcessor, Reading
  <2>2. /\ current'.pio = current.pio /\ current'.sm = current.sm
        /\ current'.up = IF s.k = "user_processor" THEN AtMost(s.n, NumUPs - 1) ELSE current.up
        /\ current'.ih = IF s.k = "interrupt_handler" THEN AtMost(s.n, NumIHs - 1)
                         ELSE current.ih
        /\ current'.context = IF s.k = "user_processor" THEN "up"
                              ELSE IF s.k = "interrupt_handler" THEN "ih" ELSE current.context
    <3>1. PICK up, ih : up = AtMost(s.n, NumUPs - 1) /\ ih = AtMost(s.n, NumIHs - 1)
      OBVIOUS
    <3>2. current' = IF s.k = "user_processor"
                     THEN [current EXCEPT !.up = up, !.context = "up"]
                     ELSE [current EXCEPT !.ih = ih, !.context = "ih"]
      BY <1>7, <3>1 DEF SetProcessor
    <3>3. CASE s.k = "user_processor"
      BY <1>4, <3>1, <3>2, <3>3
    <3>4. CASE s.k = "interrupt_handler"
      BY <1>4, <3>1, <3>2, <3>4
    <3> QED BY <2>1, <3>3, <3>4
  <2>3. Reading(s, {"pio", "sm", "user_processor", "interrupt_handler", "label", "blank"})
    BY <2>1 DEF Reading
  <2> QED BY <1>0, <2>1, <2>2, <2>3, OtherStatementWrites
<1>8. ASSUME NEW s \in Statements, SetWrap(s) PROVE FileOK' /\ PlacesOK' /\ Written'
  <2>1. CASE s.k \in used
    BY <1>8, <2>1, EndParseWrites DEF SetWrap
  <2>2. CASE s.k \notin used
    BY <1>0, <1>8, <2>2, SetWrapWrites
  <2> QED BY <2>1, <2>2
<1>9. ASSUME NEW s \in Statements, AddLabel(s) \/ Blank(s) PROVE FileOK' /\ PlacesOK' /\ Written'
  <2>1. /\ s.k \in {"label", "blank"} /\ Done(s)
        /\ UNCHANGED <<pios, sms, procs, used, current>>
        /\ Reading(s, {"label", "blank"})
    BY <1>9 DEF AddLabel, Blank, Reading
  <2>2. Reading(s, {"pio", "sm", "user_processor", "interrupt_handler", "label", "blank"})
    BY <2>1 DEF Reading
  <2> QED BY <1>0, <2>1, <2>2, OtherStatementWrites
<1>10. CASE EndOfFile \/ SyntaxError
  BY <1>10, EndParseWrites DEF EndOfFile, SyntaxError
<1> QED
  BY <1>1, <1>2, <1>3, <1>5, <1>6, <1>7, <1>8, <1>9, <1>10 DEF LNext

\* The text, its length and the counts stay in their bounds, whether counts fit or not.
LEMMA OneMoreRead ==
    ASSUME FileOK, NEW s \in Statements, NEW kinds, Reading(s, kinds), Done(s)
    PROVE  /\ text' \in Seq(Statements) /\ line_count' = Len(text') /\ Len(text') <= MaxLines
           /\ Len(text') = Len(text) + 1
<1>1. /\ text \in Seq(Statements) /\ line_count = Len(text) /\ Len(text) < MaxLines
      /\ text' = Append(text, s) /\ line_count' = line_count + 1
  BY DEF FileOK, Reading, Done
<1>2. text' \in Seq(Statements) /\ Len(text') = Len(text) + 1 /\ Len(text) \in Nat
  BY <1>1, AppendProperties
<1> QED BY <1>1, <1>2, LoaderAssumption

LEMMA CountStays ==
    ASSUME NEW slots \in Nat, NEW c \in Int, c <= slots, c # slots
    PROVE  Int8(c + 1) <= slots
  BY LoaderAssumption DEF Int8

LEMMA FileStays ==
    ASSUME IInv, FileOK, LNext PROVE FileOK'
<1> DEFINE SmTable == [first_pc : Int, wrap : Int, wrap_target : Int]
<1>0. TablesOK /\ LinesDiffer /\ sms \in [SMs -> SmTable]
  BY DEF IInv, FileOK
<1>1. ASSUME NEW rc, EndParse(rc) PROVE FileOK'
  <2>1. UNCHANGED <<text, since, sms, current, used, line_count, procs>>
    BY <1>1 DEF EndParse
  <2>2. /\ \A p \in PIOs : SameCode(pios[p], pios'[p])
        /\ \A q \in UPs \cup IHs : SameCode(procs[q], procs'[q]) /\ procs'[q].pc = procs[q].pc
    BY <1>0, <1>1, <2>1, EndParseKeeps DEF SameCode
  <2> QED BY <1>0, <2>1, <2>2, NothingReadWrites
<1>2. ASSUME NEW s \in Statements, NEW kinds, Reading(s, kinds), Done(s),
             current'.up < NumUPs, current'.ih < NumIHs, sms' \in [SMs -> SmTable],
             \A p \in PIOs : pios'[p].next <= NumInstructions,
             \A q \in UPs \cup IHs : procs'[q].next <= NumUserInstructions
      PROVE  FileOK'
  BY <1>2, OneMoreRead DEF FileOK
<1>3. ASSUME NEW s \in Statements, AddInstruction(s) PROVE FileOK'
  <2>1. PICK at : at = pios[current.pio].next
    OBVIOUS
  <2>2. current.pio \in PIOs /\ pios \in [PIOs -> PioTable] /\ at \in Int
    BY <1>0, <1>3, <2>1, LoaderAssumption, SMTT(20)
       DEF TablesOK, AddInstruction, Reading, PioTable, Location
  <2>3. at # NumInstructions /\ at <= NumInstructions
    BY <1>3, <2>1, <2>2 DEF AddInstruction, FileOK
  <2>4. Int8(at + 1) <= NumInstructions
    BY <2>2, <2>3, CountStays, LoaderAssumption
  <2>5. PICK cells : pios' = [pios EXCEPT ![current.pio] = [next |-> Int8(at + 1), cells |-> cells]]
    BY <1>3, <2>1 DEF AddInstruction
  <2>6. \A p \in PIOs : pios'[p].next <= NumInstructions
    BY <2>2, <2>4, <2>5 DEF FileOK
  <2>7. sms' \in [SMs -> SmTable]
    <3>1. sms' = [sms EXCEPT ![current.sm] = StartAt(@, at)]
      BY <1>3, <2>1 DEF AddInstruction
    <3>2. current.sm \in SMs => StartAt(sms[current.sm], at) \in SmTable
      BY <1>0, <2>2 DEF StartAt
    <3> QED BY <1>0, <3>1, <3>2
  <2>8. UNCHANGED <<procs, current>> /\ Reading(s, {"jmp", "other"}) /\ Done(s)
    BY <1>3 DEF AddInstruction
  <2> QED BY <1>2, <2>6, <2>7, <2>8 DEF FileOK
<1>4. ASSUME NEW s \in Statements, AddUserInstruction(s) PROVE FileOK'
  <2>1. PICK q, at : q = Processor /\ at = procs[q].next
    OBVIOUS
  <2>2. q \in UPs \cup IHs /\ procs \in [UPs \cup IHs -> ProcTable] /\ at \in Int
    BY <1>0, <1>4, <2>1, LoaderAssumption, SMTT(20)
       DEF TablesOK, AddUserInstruction, ProcTable, Location
  <2>3. at # NumUserInstructions /\ at <= NumUserInstructions
    BY <1>4, <2>1, <2>2 DEF AddUserInstruction, FileOK
  <2>4. Int8(at + 1) <= NumUserInstructions
    BY <2>2, <2>3, CountStays, LoaderAssumption
  <2>5. PICK pc, cells :
            procs' = [procs EXCEPT ![q] = [pc |-> pc, next |-> Int8(at + 1), cells |-> cells]]
    BY <1>4, <2>1 DEF AddUserInstruction
  <2>6. \A r \in UPs \cup IHs : procs'[r].next <= NumUserInstructions
    BY <2>2, <2>4, <2>5 DEF FileOK
  <2>7. UNCHANGED <<pios, sms, current>> /\ Reading(s, {"user", "exit"}) /\ Done(s)
    BY <1>4 DEF AddUserInstruction
  <2> QED BY <1>0, <1>2, <2>6, <2>7 DEF FileOK
<1>5. ASSUME NEW s \in Statements, SetPio(s) \/ SetSm(s), ~\E rc : EndParse(rc) PROVE FileOK'
  <2>1. /\ \/ \E p : current' = [current EXCEPT !.pio = p]
           \/ \E m : current' = [current EXCEPT !.sm = m]
        /\ Reading(s, {"pio", "sm"}) /\ Done(s) /\ UNCHANGED <<pios, sms, procs>>
    BY <1>5 DEF SetPio, SetSm, Reading
  <2>2. current'.up = current.up /\ current'.ih = current.ih
    BY <1>0, <2>1 DEF TablesOK
  <2> QED BY <1>0, <1>2, <2>1, <2>2 DEF FileOK
<1>6. ASSUME NEW s \in Statements, SetProcessor(s) PROVE FileOK'
  <2>1. /\ Reading(s, {"user_processor", "interrupt_handler"}) /\ Done(s)
        /\ UNCHANGED <<pios, sms, procs>>
    BY <1>6 DEF SetProcessor
  <2>2. PICK up, ih : up = AtMost(s.n, NumUPs - 1) /\ ih = AtMost(s.n, NumIHs - 1)
    OBVIOUS
  <2>3. up < NumUPs /\ ih < NumIHs
    BY <2>2, LoaderAssumption DEF AtMost, Statement
  <2>4. \/ current' = [current EXCEPT !.up = up, !.context = "up"]
        \/ current' = [current EXCEPT !.ih = ih, !.context = "ih"]
    BY <1>6, <2>2 DEF SetProcessor
  <2>5. current'.up \in {current.up, up} /\ current'.ih \in {current.ih, ih}
    BY <1>0, <2>4 DEF TablesOK
  <2> QED BY <1>0, <1>2, <2>1, <2>3, <2>5 DEF FileOK
<1>7. ASSUME NEW s \in Statements, SetWrap(s), ~\E rc : EndParse(rc) PROVE FileOK'
  <2>1. PICK at : at = pios[current.pio].next
    OBVIOUS
  <2>2. /\ Reading(s, {"wrap", "wrap_target"}) /\ Done(s) /\ UNCHANGED <<pios, procs, current>>
        /\ \/ sms' = [sms EXCEPT ![current.sm] = [@ EXCEPT !.wrap = at - 1]]
           \/ sms' = [sms EXCEPT ![current.sm] = [@ EXCEPT !.wrap_target = at]]
    BY <1>7, <2>1 DEF SetWrap
  <2>3. at \in Int
    BY <1>0, <2>1, <2>2, LoaderAssumption DEF TablesOK, Reading, PioTable, Location
  <2>4. sms' \in [SMs -> SmTable]
    <3>1. \A m \in SMs : sms[m] \in SmTable
      BY <1>0
    <3>2. \A m \in SMs : /\ [sms[m] EXCEPT !.wrap = at - 1] \in SmTable
                         /\ [sms[m] EXCEPT !.wrap_target = at] \in SmTable
      BY <2>3, <3>1
    <3> QED BY <1>0, <2>2, <3>2
  <2> QED BY <1>0, <1>2, <2>2, <2>4 DEF FileOK
<1>8. ASSUME NEW s \in Statements, AddLabel(s) \/ Blank(s) PROVE FileOK'
  <2>1. /\ Reading(s, {"label", "blank"}) /\ Done(s) /\ UNCHANGED <<pios, sms, procs, current>>
    BY <1>8 DEF AddLabel, Blank, Reading
  <2> QED BY <1>0, <1>2, <2>1 DEF FileOK
<1>9. ASSUME EndOfFile \/ SyntaxError \/ (\E s \in Statements : TableFull(s)) PROVE FileOK'
  BY <1>1, <1>9 DEF EndOfFile, SyntaxError, TableFull
<1> QED BY <1>1, <1>3, <1>4, <1>5, <1>6, <1>7, <1>8, <1>9 DEF LNext

\* What is parsed only grows within a build.
LEMMA CountsFitBefore ==
    ASSUME FileOK, LNext, CountsFit' PROVE CountsFit
<1>1. PICK m, n : m = Len(text) /\ n = Len(text')
  OBVIOUS
<1>2. ASSUME NEW s \in Statements, NEW kinds, Reading(s, kinds), Done(s)
      PROVE  m \in Nat /\ n \in Nat /\ m <= n
  BY <1>1, <1>2, OneMoreRead DEF FileOK
<1>3. ASSUME NEW rc, EndParse(rc) PROVE m \in Nat /\ n \in Nat /\ m <= n
  BY <1>1, <1>3 DEF EndParse, FileOK
<1>4. m \in Nat /\ n \in Nat /\ m <= n
  <2>1. \/ \E rc : EndParse(rc)
        \/ \E s \in Statements : \E kinds : Reading(s, kinds) /\ Done(s)
    BY DEF LNext, AddInstruction, AddUserInstruction, TableFull, SetPio, SetSm, SetProcessor,
           SetWrap, AddLabel, Blank, EndOfFile, SyntaxError
  <2> QED BY <1>2, <1>3, <2>1
<1>5. \A slots \in {NumInstructions, NumUserInstructions} : slots < Int8Bound \/ n < Int8Bound
  BY <1>1 DEF CountsFit
<1>6. \A slots \in {NumInstructions, NumUserInstructions} : slots < Int8Bound \/ m < Int8Bound
  BY <1>4, <1>5, LoaderAssumption
<1> QED BY <1>1, <1>6 DEF CountsFit

\* Every step keeps the invariant of loading.
LEMMA LoadInvInductive == LoadInv /\ [MNext]_mvars => LoadInv'
<1> SUFFICES ASSUME LoadInv, [MNext]_mvars PROVE LoadInv'
  OBVIOUS
<1>1. /\ IInv /\ FileOK /\ TablesOK /\ LinesDiffer
      /\ (parse # "idle" /\ CountsFit => PlacesOK /\ Written)
  BY DEF LoadInv, IInv
<1>2. IInv'
  BY <1>1, IInvInductive
<1>3. CASE StartBuild
  BY <1>1, <1>2, <1>3, SystemInitWrites DEF StartBuild, LoadInv
<1>4. CASE Parse
  <2>1. LNext
    BY <1>4 DEF Parse
  <2>2. parse = "reading"
    BY <2>1 DEF LNext, AddInstruction, AddUserInstruction, TableFull, SetPio, SetSm, SetProcessor,
                SetWrap, AddLabel, Blank, Reading, EndOfFile, SyntaxError
  <2>3. FileOK'
    BY <1>1, <2>1, FileStays
  <2>4. ASSUME CountsFit' PROVE PlacesOK' /\ Written'
    BY <1>1, <2>1, <2>2, <2>4, CountsFitBefore, LNextWrites
  <2> QED BY <1>2, <2>3, <2>4 DEF LoadInv
<1>5. CASE ToggleIt
  <2>1. UNCHANGED <<text, since, sms, current, used, line_count, parse>>
    BY <1>5 DEF ToggleIt
  <2>2. /\ \A p \in PIOs : SameCode(pios[p], pios'[p])
        /\ \A q \in UPs \cup IHs : SameCode(procs[q], procs'[q]) /\ procs'[q].pc = procs[q].pc
    BY <1>1, <1>5, ToggleKeeps
  <2> QED BY <1>1, <1>2, <2>1, <2>2, NothingReadWrites DEF LoadInv, CountsFit
<1>6. ASSUME UNCHANGED lvars PROVE LoadInv'
  <2>1. UNCHANGED <<text, since, sms, current, used, line_count, parse, pios, procs>>
    BY <1>6 DEF lvars, tables
  <2>2. /\ \A p \in PIOs : SameCode(pios[p], pios'[p])
        /\ \A q \in UPs \cup IHs : SameCode(procs[q], procs'[q]) /\ procs'[q].pc = procs[q].pc
    BY <2>1 DEF SameCode
  <2> QED BY <1>1, <1>2, <2>1, <2>2, NothingReadWrites DEF LoadInv, CountsFit
<1>7. StepFirst \/ StepIt \/ NotBuilt \/ RunIt \/ (\E key \in BOOLEAN : RunStep(key))
        \/ UNCHANGED mvars => UNCHANGED lvars
  BY DEF StepFirst, StepIt, NotBuilt, RunIt, RunStep, mvars
<1> QED BY <1>3, <1>4, <1>5, <1>6, <1>7 DEF MNext

\* The invariant of loading is what the run checks, and more.
LEMMA LoadInvLoads == LoadInv => (CountsFit => LoadedIsWritten)
<1> SUFFICES ASSUME LoadInv, parse # "idle" PROVE Written => LoadedIsWritten
  BY DEF LoadInv, LoadedIsWritten
<1>1. DOMAIN procs = UPs \cup IHs
  BY TablesParts DEF LoadInv, IInv
<1> QED BY <1>1 DEF Written, LoadedIsWritten

\* The program in the tables is what was parsed, whatever was in them before, until a
\* table with more places than its count can reach is filled from as many lines.
THEOREM FilesAreLoaded == Spec => [](CountsFit => LoadedIsWritten)
<1>1. LoadInv /\ [MNext]_mvars => LoadInv'
  BY LoadInvInductive
<1> QED BY <1>1, InitLoadInv, LoadInvLoads, PTL DEF Spec

-----------------------------------------------------------------------------
(* Labels and jumps *)

\* label_locations has the labels of the file, in their order.
LabelAt(k) == Address(LabelLines, k) + 1

LabelsOK ==
    /\ Len(labels) = Cardinality(LabelLines)
    /\ \A k \in LabelLines : labels[LabelAt(k)].label = text[k].name
                             /\ labels[LabelAt(k)].location = Place(k)
    /\ \A i \in 1..Len(labels) : \E k \in LabelLines : i = LabelAt(k)

\* A jump has no location yet, or that of the first label of its name.
JumpOK(p, k) ==
    LET c == pios[p].cells[Address(CodeOf(p), k)]
    IN /\ c.name = text[k].name
       /\ c.location = NoLocation \/ Target(labels, c.location, c.name)

Jumps(p) == {k \in CodeOf(p) : text[k].k = "jmp"}
JumpsOK == \A p \in PIOs : \A k \in Jumps(p) : JumpOK(p, k)

\* After a successful build none is left without.
AllResolved ==
    parse = "built" => \A p \in PIOs : \A k \in Jumps(p) :
                           pios[p].cells[Address(CodeOf(p), k)].location # NoLocation

\* A later label does not change which is the first.
LEMMA TargetStays ==
    ASSUME NEW ls \in Seq(Label), NEW l, NEW location \in Int, NEW name, Target(ls, location, name)
    PROVE  Target(Append(ls, l), location, name)
<1>1. /\ DOMAIN ls = 1..Len(ls) /\ Len(ls) \in Nat
      /\ DOMAIN Append(ls, l) = 1..(Len(ls) + 1)
      /\ \A i \in 1..Len(ls) : Append(ls, l)[i] = ls[i]
  OBVIOUS
<1>2. /\ location + 1 \in 1..Len(ls) /\ ls[location + 1].label = name
      /\ \A j \in 1..location : ls[j].label # name
  BY <1>1 DEF Target
<1>3. location + 1 \in 1..(Len(ls) + 1) /\ \A j \in 1..location : j \in 1..Len(ls)
  BY <1>1, <1>2
<1> QED BY <1>1, <1>2, <1>3 DEF Target

\* An instruction of the file is in the program.
LEMMA InProgram ==
    ASSUME TablesOK, FileOK, Written, NEW p \in PIOs, NEW k \in CodeOf(p)
    PROVE  /\ Address(CodeOf(p), k) \in PioSlots /\ Address(CodeOf(p), k) < pios[p].next
           /\ pios[p].cells[Address(CodeOf(p), k)].k = text[k].k
           /\ pios[p].cells[Address(CodeOf(p), k)] \in Cell
<1>1. PICK n, C : n = Len(text) /\ C = CodeOf(p)
  OBVIOUS
<1>2. n \in Nat /\ C \in SUBSET (1..n) /\ k \in C
  BY <1>1, CodeInLines DEF FileOK, Lines
<1>3. k \in 1..(n + 1)
  BY <1>2
<1>4. Address(C, k) \in 0..Cardinality(C) /\ Address(C, k) < Cardinality(C)
  BY <1>2, <1>3, AddressType
<1>5. Cardinality(C) \in 0..n
  BY <1>2, FiniteLines
<1>6. pios[p].next = Cardinality(C) /\ Filed(pios[p].cells, C)
  BY <1>1 DEF Written, PioWritten
<1>7. Cardinality(C) <= NumInstructions /\ NumInstructions \in Nat
  BY <1>6, LoaderAssumption DEF FileOK
<1>8. Address(C, k) \in PioSlots
  BY <1>2, <1>4, <1>5, <1>7 DEF PioSlots
<1>9. pios[p].cells[Address(C, k)] \in Cell
  BY <1>8, TablesParts
<1>10. pios[p].cells[Address(C, k)].k = text[k].k
  BY <1>2, <1>6 DEF Filed
<1> QED BY <1>1, <1>4, <1>6, <1>8, <1>9, <1>10

\* One jump, of which only a label was added.
LEMMA JumpKept ==
    ASSUME TablesOK, FileOK, Written, LinesStay, NEW p \in PIOs, NEW k \in CodeOf(p), JumpOK(p, k),
           labels' = labels \/ (\E l : labels' = Append(labels, l)),
           Address(CodeOf(p), k)' = Address(CodeOf(p), k),
           LET a == Address(CodeOf(p), k)
           IN /\ pios'[p].cells[a].name = pios[p].cells[a].name
              /\ pios'[p].cells[a].location = pios[p].cells[a].location
    PROVE  JumpOK(p, k)'
<1>1. PICK a, c, d : a = Address(CodeOf(p), k) /\ c = pios[p].cells[a] /\ d = pios'[p].cells[a]
  OBVIOUS
<1>2. c.name = text[k].name /\ (c.location = NoLocation \/ Target(labels, c.location, c.name))
  BY <1>1 DEF JumpOK
<1>3. c.location \in Int
  BY <1>1, InProgram DEF Cell
<1>4. d.name = c.name /\ d.location = c.location
  BY <1>1
<1>5. text'[k] = text[k]
  BY CodeInLines DEF LinesStay
<1>6. Target(labels, c.location, c.name) => Target(labels', c.location, c.name)
  <2>1. CASE labels' = labels
    BY <2>1
  <2>2. CASE \E l : labels' = Append(labels, l)
    <3>1. labels \in Seq(Label)
      BY DEF TablesOK
    <3>2. PICK l : labels' = Append(labels, l)
      BY <2>2
    <3>3. PICK ls, location, name : ls = labels /\ location = c.location /\ name = c.name
      OBVIOUS
    <3>4. Target(ls, location, name) => Target(Append(ls, l), location, name)
      BY <1>3, <3>1, <3>3, TargetStays
    <3> QED BY <3>2, <3>3, <3>4
  <2> QED BY <2>1, <2>2
<1>7. Address(CodeOf(p), k)' = a /\ pios'[p].cells[a] = d
  BY <1>1
<1>8. JumpOK(p, k)' = /\ d.name = text'[k].name
                      /\ d.location = NoLocation \/ Target(labels', d.location, d.name)
  BY <1>7 DEF JumpOK, Target
<1> QED BY <1>2, <1>4, <1>5, <1>6, <1>8

\* A step that adds no instruction to a PIO and writes no location.
LEMMA JumpsKept ==
    ASSUME TablesOK, FileOK, Written, JumpsOK, LinesStay,
           labels' = labels \/ (\E l : labels' = Append(labels, l)),
           \A p : CodeOf(p)' = CodeOf(p),
           \A p \in PIOs : SameCode(pios[p], pios'[p]) /\ SameLocations(pios[p], pios'[p])
    PROVE  JumpsOK'
<1> SUFFICES ASSUME NEW p \in PIOs, NEW k \in Jumps(p)' PROVE JumpOK(p, k)'
  BY Zenon DEF JumpsOK, PIOs
<1>1. k \in Jumps(p) /\ k \in CodeOf(p)
  BY CodeInLines DEF Jumps, LinesStay
<1>2. Address(CodeOf(p), k)' = Address(CodeOf(p), k)
  <2>1. PICK C : C = CodeOf(p)
    OBVIOUS
  <2>2. CodeOf(p)' = C
    BY <2>1
  <2> QED BY <2>1, <2>2 DEF Address
<1>3. DOMAIN pios[p].cells = PioSlots
  BY TablesParts
<1>4. LET a == Address(CodeOf(p), k)
      IN /\ pios'[p].cells[a].name = pios[p].cells[a].name
         /\ pios'[p].cells[a].location = pios[p].cells[a].location
  BY <1>1, <1>3, InProgram DEF SameCode, SameLocations
<1> QED BY <1>1, <1>2, <1>4, JumpKept DEF JumpsOK

\* A step that adds no label.
LEMMA LabelsKept ==
    ASSUME FileOK, LabelsOK, LinesStay, NEW n, n = Len(text), UNCHANGED labels,
           LabelLines' = LabelLines,
           \A p : CodeOf(p)' = CodeOf(p) \/ CodeOf(p)' = CodeOf(p) \cup {n + 1}
    PROVE  LabelsOK'
<1>1. PICK C : C = LabelLines
  OBVIOUS
<1>2. C \in SUBSET Lines /\ LabelLines' = C
  BY <1>1, CodeInLines
<1>3. ASSUME NEW k \in C
      PROVE  LabelAt(k)' = LabelAt(k) /\ Place(k)' = Place(k) /\ text'[k] = text[k]
  <2>1. LabelAt(k) = Address(C, k) + 1 /\ LabelAt(k)' = Address(C, k) + 1
    BY <1>1, <1>2 DEF LabelAt, Address
  <2>2. Place(k)' = Place(k)
    BY <1>2, PlaceStays DEF FileOK
  <2> QED BY <1>2, <2>1, <2>2 DEF LinesStay
<1>4. /\ Len(labels') = Cardinality(C)
      /\ \A k \in C : labels'[LabelAt(k)'].label = text'[k].name
                      /\ labels'[LabelAt(k)'].location = Place(k)'
      /\ \A i \in 1..Len(labels') : \E k \in C : i = LabelAt(k)'
  BY <1>1, <1>3 DEF LabelsOK
<1> QED BY <1>2, <1>4 DEF LabelsOK

\* instruction_add_label: the new label is the last.
LEMMA AddLabelKeeps ==
    ASSUME TablesOK, FileOK, PlacesOK, Written, LabelsOK, NEW s \in Statements, AddLabel(s)
    PROVE  LabelsOK'
<1>1. PICK n, C, ls, l : /\ n = Len(text) /\ C = LabelLines /\ ls = labels
                         /\ l = [label |-> s.name, location |-> pios[current.pio].next]
  OBVIOUS
<1>2. /\ text \in Seq(Statements) /\ n \in Nat /\ s.k = "label" /\ Reads(s) /\ Lines = 1..n
      /\ text'[n + 1] = s /\ labels' = Append(ls, l) /\ ls \in Seq(Label)
  BY <1>1, OneMoreLine DEF FileOK, AddLabel, Reading, Done, Reads, TablesOK
<1>3. LinesStay /\ LabelLines' = C \cup {n + 1} /\ \A p : CodeOf(p)' = CodeOf(p)
  BY <1>1, <1>2, CodeNext
<1>4. C \in SUBSET (1..n) /\ C \in SUBSET Lines /\ Len(ls) = Cardinality(C) /\ Len(ls) \in Nat
  BY <1>1, <1>2, CodeInLines DEF LabelsOK
<1>5. /\ Len(labels') = Len(ls) + 1 /\ labels'[Len(ls) + 1] = l
      /\ \A i \in 1..Len(ls) : labels'[i] = ls[i]
  BY <1>2
<1>6. n + 1 \in 1..(n + 1) /\ Cardinality(C \cup {n + 1}) = Cardinality(C) + 1
  <2>1. n + 1 \in 1..(n + 1)
    BY <1>2
  <2> QED BY <1>2, <1>4, <2>1, AddressType
<1>7. ASSUME NEW k \in C \cup {n + 1} PROVE LabelAt(k)' = Address(C \cup {n + 1}, k) + 1
  BY <1>3 DEF LabelAt, Address
<1>8. ASSUME NEW k \in C
      PROVE  /\ LabelAt(k)' = LabelAt(k) /\ LabelAt(k) \in 1..Len(ls)
             /\ Place(k)' = Place(k) /\ text'[k] = text[k]
  <2>1. k \in 1..(n + 1) /\ k \in Lines
    BY <1>2, <1>4
  <2>2. Address(C, k) \in 0..Cardinality(C) /\ Address(C, k) < Cardinality(C)
        /\ Address(C \cup {n + 1}, k) = Address(C, k)
    BY <1>2, <1>4, <2>1, AddressType
  <2>3. LabelAt(k) = Address(C, k) + 1
    BY <1>1 DEF LabelAt
  <2>4. Place(k)' = Place(k)
    BY <1>1, <1>2, <1>3, <2>1, PlaceStays
  <2>5. text'[k] = text[k]
    BY <1>3, <2>1 DEF LinesStay
  <2>6. LabelAt(k)' = Address(C, k) + 1
    BY <1>7, <2>2
  <2> QED BY <1>4, <2>2, <2>3, <2>4, <2>5, <2>6
<1>9. PICK m : m = n + 1
  OBVIOUS
<1>10. LabelAt(m)' = Len(ls) + 1
  <2>1. Address(C \cup {n + 1}, n + 1) = Cardinality(C)
    BY <1>2, <1>4, <1>6, AddressType
  <2> QED BY <1>4, <1>7, <1>9, <2>1
<1>11. Place(m)' = l.location
  <2>1. Place(m)' = pios[current.pio].next
    BY <1>1, <1>2, <1>9, PlaceNext
  <2> QED BY <1>1, <2>1
<1>12. /\ \A k \in C : ls[LabelAt(k)].label = text[k].name /\ ls[LabelAt(k)].location = Place(k)
       /\ \A i \in 1..Len(ls) : \E k \in C : i = LabelAt(k)
  BY <1>1 DEF LabelsOK
<1>13. ASSUME NEW k \in C \cup {m}
       PROVE  labels'[LabelAt(k)'].label = text'[k].name /\ labels'[LabelAt(k)'].location = Place(k)'
  <2>1. CASE k \in C
    BY <1>5, <1>8, <1>12, <2>1
  <2>2. CASE k = m
    BY <1>1, <1>2, <1>5, <1>9, <1>10, <1>11, <2>2
  <2> QED BY <2>1, <2>2
<1>14. ASSUME NEW i \in 1..(Len(ls) + 1) PROVE \E k \in C \cup {m} : i = LabelAt(k)'
  <2>1. CASE i \in 1..Len(ls)
    BY <1>8, <1>12, <2>1
  <2>2. CASE i = Len(ls) + 1
    BY <1>10, <2>2
  <2> QED BY <1>4, <2>1, <2>2
<1>15. LabelLines' = C \cup {m}
  BY <1>3, <1>9
<1>16. Len(labels') = Cardinality(C \cup {m})
  BY <1>4, <1>5, <1>6, <1>9
<1>17. \A i \in 1..Len(labels') : \E k \in C \cup {m} : i = LabelAt(k)'
  BY <1>5, <1>14
<1> QED BY <1>13, <1>15, <1>16, <1>17 DEF LabelsOK

\* instruction_add: a new jump goes to the first label of its name, if there is one.
LEMMA AddInstructionJumps ==
    ASSUME TablesOK, FileOK, PlacesOK, Written, JumpsOK, NEW s \in Statements, AddInstruction(s)
    PROVE  JumpsOK'
<1>1. PICK n, p, C : n = Len(text) /\ p = current.pio /\ C = CodeOf(p)
  OBVIOUS
<1>2. /\ text \in Seq(Statements) /\ n \in Nat /\ Reads(s) /\ s.k \in {"jmp", "other"}
      /\ Lines = 1..n /\ text'[n + 1] = s /\ UNCHANGED labels
  BY <1>1, OneMoreLine DEF FileOK, AddInstruction, Reading, Done, Reads
<1>3. n + 1 \in 1..(n + 1) /\ p = PioAt(n + 1) /\ p \in PIOs
  <2>1. n + 1 \in 1..(n + 1)
    BY <1>2
  <2> QED BY <1>1, <2>1 DEF PlacesOK
<1>4. PICK at : at = Cardinality(C)
  OBVIOUS
<1>5. C \in SUBSET (1..n) /\ at \in 0..n
  BY <1>1, <1>2, <1>4, CodeInLines, FiniteLines
<1>6. at = pios[p].next /\ at \in PioSlots
  <2>1. at = pios[p].next
    BY <1>1, <1>3, <1>4 DEF Written, PioWritten
  <2>2. at # NumInstructions /\ at <= NumInstructions /\ NumInstructions \in Nat
    BY <1>1, <1>3, <2>1, LoaderAssumption DEF FileOK, AddInstruction
  <2> QED BY <1>2, <1>5, <2>1, <2>2 DEF PioSlots
<1> DEFINE new == [k |-> s.k, line |-> line_count + 1, sm |-> current.sm, name |-> s.name,
                   location |-> IF s.k = "jmp" THEN FindLabel(labels, s.name) ELSE NoLocation,
                   is_breakpoint |-> FALSE]
<1>7. PICK cell, location :
          /\ cell = new /\ location = FindLabel(labels, s.name)
          /\ cell.name = s.name /\ (s.k = "jmp" => cell.location = location)
  <2>1. new.name = s.name /\ (s.k = "jmp" => new.location = FindLabel(labels, s.name))
    OBVIOUS
  <2> HIDE DEF new
  <2> QED BY <2>1
<1>8. pios' = [pios EXCEPT ![p] = [next |-> Int8(at + 1), cells |-> Put(@.cells, at, cell)]]
  BY <1>1, <1>6, <1>7 DEF AddInstruction
<1> HIDE DEF new
<1>9. /\ pios'[p].cells[at] = cell
      /\ \A a \in PioSlots : a # at => pios'[p].cells[a] = pios[p].cells[a]
      /\ \A r \in PIOs \ {p} : pios'[r] = pios[r]
  <2>1. pios[p].cells \in [PioSlots -> Cell] /\ DOMAIN pios = PIOs
    BY <1>3, TablesParts
  <2>2. Put(pios[p].cells, at, cell) = [pios[p].cells EXCEPT ![at] = cell]
    BY <1>6, <2>1 DEF Put
  <2> QED BY <1>3, <1>6, <1>8, <2>1, <2>2
<1>10. LinesStay /\ \A r : CodeOf(r)' = IF r = p THEN CodeOf(r) \cup {n + 1} ELSE CodeOf(r)
  BY <1>1, <1>2, <1>3, CodeNext
<1> SUFFICES ASSUME NEW r \in PIOs, NEW k \in Jumps(r)' PROVE JumpOK(r, k)'
  BY Zenon DEF JumpsOK, PIOs
<1>11. k \in CodeOf(r)' /\ text'[k].k = "jmp"
  BY DEF Jumps
<1>12. CASE k \in CodeOf(r)
  <2>1. k \in Lines /\ k \in 1..(n + 1)
    BY <1>2, <1>12, CodeInLines
  <2>2. k \in Jumps(r)
    BY <1>10, <1>11, <1>12, <2>1 DEF Jumps, LinesStay
  <2>3. PICK D : D = CodeOf(r)
    OBVIOUS
  <2>4. D \in SUBSET (1..n)
    BY <1>2, <2>3, CodeInLines
  <2>5. Address(D \cup {n + 1}, k) = Address(D, k)
    BY <1>2, <2>1, <2>4, AddressType
  <2>6. Address(CodeOf(r), k)' = Address(CodeOf(r), k)
    <3>1. CodeOf(r)' = D \/ CodeOf(r)' = D \cup {n + 1}
      BY <1>10, <2>3
    <3>2. Address(CodeOf(r), k)' = Address(CodeOf(r)', k)
      BY DEF Address
    <3> QED BY <2>3, <2>5, <3>1, <3>2
  <2>7. LET a == Address(CodeOf(r), k)
        IN /\ pios'[r].cells[a].name = pios[r].cells[a].name
           /\ pios'[r].cells[a].location = pios[r].cells[a].location
    <3>1. CASE r = p
      <4>1. PICK a : a = Address(CodeOf(r), k)
        OBVIOUS
      <4>2. a \in PioSlots /\ a < pios[r].next
        BY <1>12, <4>1, InProgram
      <4>3. a # at
        BY <1>2, <1>5, <1>6, <3>1, <4>2 DEF PioSlots
      <4> QED BY <1>9, <3>1, <4>1, <4>2, <4>3
    <3>2. CASE r # p
      BY <1>9, <3>2
    <3> QED BY <3>1, <3>2
  <2> QED BY <1>2, <1>10, <1>12, <2>2, <2>6, <2>7, JumpKept DEF JumpsOK
<1>13. CASE k \notin CodeOf(r)
  <2>1. r = p /\ k = n + 1 /\ s.k = "jmp"
    BY <1>2, <1>10, <1>11, <1>13
  <2>2. CodeOf(p)' = C \cup {n + 1}
    BY <1>1, <1>10
  <2>3. Address(CodeOf(p), k)' = at
    <3>1. Address(CodeOf(p), k)' = Address(CodeOf(p)', k)
      BY DEF Address
    <3>2. Address(C \cup {n + 1}, n + 1) = at
      BY <1>2, <1>3, <1>4, <1>5, AddressType
    <3> QED BY <2>1, <2>2, <3>1, <3>2
  <2>4. location = NoLocation \/ Target(labels, location, s.name)
    BY <1>7, FindLabelType DEF TablesOK
  <2>5. cell.location = location /\ cell.name = s.name /\ text'[k] = s
    BY <1>2, <1>7, <2>1
  <2>6. labels' = labels
    BY <1>2
  <2>7. JumpOK(p, k)' = /\ cell.name = text'[k].name
                        /\ cell.location = NoLocation
                           \/ Target(labels', cell.location, cell.name)
    BY <1>9, <2>3 DEF JumpOK, Target
  <2> QED BY <2>1, <2>4, <2>5, <2>6, <2>7
<1> QED BY <1>12, <1>13

\* What JumpsGoToLabels rests on.
JumpInv == LoadInv /\ (parse # "idle" /\ CountsFit => LabelsOK /\ JumpsOK /\ AllResolved)

\* A step that reads nothing and adds no label.
LEMMA NothingReadJumps ==
    ASSUME TablesOK, FileOK, Written, LabelsOK, JumpsOK, UNCHANGED <<text, since, labels>>,
           \A p \in PIOs : SameCode(pios[p], pios'[p]) /\ SameLocations(pios[p], pios'[p])
    PROVE  LabelsOK' /\ JumpsOK'
<1>1. LinesStay /\ \A p : CodeOf(p)' = CodeOf(p)
  BY SameText
<1>2. LabelLines' = LabelLines
  BY SameText DEF LabelLines
<1>3. PICK n : n = Len(text)
  OBVIOUS
<1> QED BY <1>1, <1>2, <1>3, JumpsKept, LabelsKept

\* A jump whose label is looked for again when the parse has ended.
LEMMA FixForwardJumps ==
    ASSUME TablesOK, FileOK, Written, LabelsOK, JumpsOK, UNCHANGED <<text, since, labels>>,
           FixForwardLabels
    PROVE  /\ LabelsOK' /\ JumpsOK'
           /\ Dangling = {} => \A p \in PIOs : \A k \in Jumps(p)' :
                                   pios'[p].cells[Address(CodeOf(p), k)'].location # NoLocation
<1>1. /\ LinesStay /\ \A p : CodeOf(p)' = CodeOf(p)
      /\ \A p \in PIOs : SameCode(pios[p], pios'[p])
      /\ \A p \in PIOs : \A i \in PioSlots : pios'[p].cells[i] = FixedCell(p, i)
  BY SameText, FixForwardKeepsCode
<1>2. LabelLines' = LabelLines
  BY SameText DEF LabelLines
<1>3. LabelsOK'
  <2>1. PICK n : n = Len(text)
    OBVIOUS
  <2> QED BY <1>1, <1>2, <2>1, LabelsKept
<1>4. ASSUME NEW p \in PIOs, NEW k \in Jumps(p)'
      PROVE  /\ JumpOK(p, k)'
             /\ Dangling = {} => pios'[p].cells[Address(CodeOf(p), k)'].location # NoLocation
  <2>1. k \in Jumps(p) /\ k \in CodeOf(p) /\ text[k].k = "jmp" /\ text'[k] = text[k]
    BY <1>1, CodeInLines DEF Jumps, LinesStay
  <2>2. PICK a, c, d : a = Address(CodeOf(p), k) /\ c = pios[p].cells[a] /\ d = pios'[p].cells[a]
    OBVIOUS
  <2>3. Address(CodeOf(p), k)' = a
    <3>1. Address(CodeOf(p), k)' = Address(CodeOf(p)', k)
      BY DEF Address
    <3> QED BY <1>1, <2>2, <3>1
  <2>4. a \in PioSlots /\ a < pios[p].next /\ c.k = "jmp" /\ c \in Cell
    BY <2>1, <2>2, InProgram
  <2>5. d = IF Resolved(p, a) THEN [c EXCEPT !.location = FindLabel(labels, c.name)] ELSE c
    BY <1>1, <2>2, <2>4 DEF FixedCell
  <2>6. c.name = text[k].name /\ (c.location = NoLocation \/ Target(labels, c.location, c.name))
    BY <2>1, <2>2 DEF JumpsOK, JumpOK
  <2>7. PICK location : /\ location = FindLabel(labels, c.name)
                        /\ location = NoLocation \/ Target(labels, location, c.name)
    BY FindLabelType DEF TablesOK
  <2>8. d.name = c.name /\ d.location = IF Resolved(p, a) THEN location ELSE c.location
    BY <2>4, <2>5, <2>7 DEF Cell
  <2>9. d.name = text'[k].name /\ (d.location = NoLocation \/ Target(labels', d.location, d.name))
    BY <2>1, <2>6, <2>7, <2>8
  <2>10. JumpOK(p, k)' = /\ d.name = text'[k].name
                         /\ d.location = NoLocation \/ Target(labels', d.location, d.name)
    BY <2>2, <2>3 DEF JumpOK, Target
  <2>11. ASSUME Dangling = {} PROVE d.location # NoLocation
    <3>1. CASE c.location = NoLocation
      <4>1. <<p, a>> \in Unresolved
        BY <2>2, <2>4, <3>1 DEF Unresolved, PioSlots
      <4>2. location # NoLocation
        BY <2>2, <2>7, <2>11, <4>1 DEF Dangling
      <4>3. Resolved(p, a)
        BY <2>11, <4>1 DEF Resolved
      <4> QED BY <2>8, <4>2, <4>3
    <3>2. CASE c.location # NoLocation
      <4>1. <<p, a>> \notin Unresolved
        BY <2>2, <3>2 DEF Unresolved
      <4> QED BY <2>8, <3>2, <4>1 DEF Resolved
    <3> QED BY <3>1, <3>2
  <2> QED BY <2>2, <2>3, <2>9, <2>10, <2>11
<1>5. JumpsOK'
  BY <1>4, Zenon DEF JumpsOK, PIOs
<1> QED BY <1>3, <1>4, <1>5

\* The end of a file resolves the jumps that wait for a label.
LEMMA EndParseJumps ==
    ASSUME IInv, FileOK, Written, LabelsOK, JumpsOK, NEW rc, EndParse(rc)
    PROVE  LabelsOK' /\ JumpsOK' /\ AllResolved'
<1>1. TablesOK /\ UNCHANGED <<text, since, labels>>
  BY DEF EndParse, IInv
<1>2. CASE rc = 0
  <2>1. FixForwardLabels /\ parse' = IF Dangling = {} THEN "built" ELSE "failed"
    BY <1>2 DEF EndParse
  <2>2. /\ LabelsOK' /\ JumpsOK'
        /\ Dangling = {} => \A p \in PIOs : \A k \in Jumps(p)' :
                                pios'[p].cells[Address(CodeOf(p), k)'].location # NoLocation
    BY <1>1, <2>1, FixForwardJumps
  <2>3. AllResolved'
    <3> SUFFICES ASSUME parse' = "built", NEW p \in PIOs, NEW k \in Jumps(p)'
                 PROVE  pios'[p].cells[Address(CodeOf(p), k)'].location # NoLocation
      BY Zenon DEF AllResolved, PIOs
    <3> QED BY <2>1, <2>2
  <2> QED BY <2>2, <2>3
<1>3. CASE rc # 0
  <2>1. parse' = "failed" /\ UNCHANGED pios
    BY <1>3 DEF EndParse
  <2>2. \A p \in PIOs : SameCode(pios[p], pios'[p]) /\ SameLocations(pios[p], pios'[p])
    BY <2>1 DEF SameCode, SameLocations
  <2>3. AllResolved'
    BY <2>1 DEF AllResolved
  <2> QED BY <1>1, <2>2, <2>3, NothingReadJumps
<1> QED BY <1>2, <1>3

\* A statement that adds neither an instruction to a PIO nor a label.
LEMMA OtherStatementJumps ==
    ASSUME TablesOK, FileOK, Written, LabelsOK, JumpsOK, NEW s \in Statements, Done(s),
           UNCHANGED <<pios, labels>>, s.k \notin {"jmp", "other", "label"}
    PROVE  LabelsOK' /\ JumpsOK'
<1>1. PICK n : n = Len(text)
  OBVIOUS
<1>2. text \in Seq(Statements) /\ Reads(s)
  BY DEF FileOK, Done, Reads
<1>3. LinesStay /\ LabelLines' = LabelLines /\ \A p : CodeOf(p)' = CodeOf(p)
  BY <1>1, <1>2, CodeNext
<1>4. \A p \in PIOs : SameCode(pios[p], pios'[p]) /\ SameLocations(pios[p], pios'[p])
  BY DEF SameCode, SameLocations
<1> QED BY <1>1, <1>3, <1>4, JumpsKept, LabelsKept

\* Every statement the parser reads keeps the labels and the jumps.
LEMMA LNextJumps ==
    ASSUME IInv, FileOK, PlacesOK, Written, LabelsOK, JumpsOK, LNext
    PROVE  LabelsOK' /\ JumpsOK' /\ AllResolved'
<1>0. TablesOK
  BY DEF IInv
<1>1. ASSUME NEW s \in Statements, Reading(s, {s.k}), Done(s) PROVE AllResolved'
  BY <1>1 DEF Reading, Done, AllResolved
<1>2. ASSUME NEW s \in Statements, AddInstruction(s) PROVE LabelsOK' /\ JumpsOK' /\ AllResolved'
  <2>1. PICK n : n = Len(text)
    OBVIOUS
  <2>2. /\ text \in Seq(Statements) /\ Reads(s) /\ s.k \in {"jmp", "other"} /\ UNCHANGED labels
        /\ Reading(s, {s.k}) /\ Done(s)
    BY <1>2 DEF FileOK, AddInstruction, Reading, Done, Reads
  <2>3. /\ LinesStay /\ LabelLines' = LabelLines
        /\ \A p : CodeOf(p)' = CodeOf(p) \/ CodeOf(p)' = CodeOf(p) \cup {n + 1}
    BY <2>1, <2>2, CodeNext
  <2>4. LabelsOK'
    BY <2>1, <2>2, <2>3, LabelsKept
  <2> QED BY <1>0, <1>1, <1>2, <2>2, <2>4, AddInstructionJumps
<1>3. ASSUME NEW s \in Statements, AddLabel(s) PROVE LabelsOK' /\ JumpsOK' /\ AllResolved'
  <2>1. PICK n : n = Len(text)
    OBVIOUS
  <2>2. /\ text \in Seq(Statements) /\ Reads(s) /\ s.k = "label" /\ UNCHANGED pios
        /\ Reading(s, {s.k}) /\ Done(s) /\ \E l : labels' = Append(labels, l)
    BY <1>3 DEF FileOK, AddLabel, Reading, Done, Reads
  <2>3. LinesStay /\ \A p : CodeOf(p)' = CodeOf(p)
    BY <2>1, <2>2, CodeNext
  <2>4. \A p \in PIOs : SameCode(pios[p], pios'[p]) /\ SameLocations(pios[p], pios'[p])
    BY <2>2 DEF SameCode, SameLocations
  <2>5. JumpsOK'
    BY <1>0, <2>2, <2>3, <2>4, JumpsKept
  <2> QED BY <1>0, <1>1, <1>3, <2>2, <2>5, AddLabelKeeps
<1>4. ASSUME NEW s \in Statements,
             AddUserInstruction(s) \/ SetPio(s) \/ SetSm(s) \/ SetProcessor(s) \/ SetWrap(s) \/ Blank(s)
      PROVE  LabelsOK' /\ JumpsOK' /\ AllResolved'
  <2>1. CASE \E rc : EndParse(rc)
    BY <2>1, EndParseJumps
  <2>2. CASE ~\E rc : EndParse(rc)
    <3>1. /\ Reading(s, {s.k}) /\ Done(s) /\ UNCHANGED <<pios, labels>>
          /\ s.k \notin {"jmp", "other", "label"}
      BY <1>4, <2>2 DEF AddUserInstruction, SetPio, SetSm, SetProcessor, SetWrap, Blank, Reading
    <3> QED BY <1>0, <1>1, <3>1, OtherStatementJumps
  <2> QED BY <2>1, <2>2
<1>5. ASSUME \E rc : EndParse(rc) PROVE LabelsOK' /\ JumpsOK' /\ AllResolved'
  BY <1>5, EndParseJumps
<1>6. ASSUME NEW s \in Statements, TableFull(s) PROVE \E rc : EndParse(rc)
  BY <1>6 DEF TableFull
<1>7. ASSUME EndOfFile \/ SyntaxError PROVE \E rc : EndParse(rc)
  BY <1>7 DEF EndOfFile, SyntaxError
<1> QED BY <1>2, <1>3, <1>4, <1>5, <1>6, <1>7 DEF LNext

\* An empty file has no labels and no jumps.
LEMMA SystemInitJumps == SystemInit => LabelsOK' /\ JumpsOK' /\ AllResolved'
<1> SUFFICES ASSUME SystemInit PROVE LabelsOK' /\ JumpsOK' /\ AllResolved'
  OBVIOUS
<1>1. text' = <<>> /\ labels' = <<>> /\ parse' = "reading"
  BY DEF SystemInit
<1>2. Lines' = {} /\ \A r : CodeOf(r)' = {}
  BY <1>1, NoText
<1>3. LabelLines' = {}
  BY <1>2 DEF LabelLines
<1>4. LabelsOK'
  <2>1. Len(labels') = 0 /\ Cardinality({}) = 0
    BY <1>1, FS_EmptySet
  <2>2. \A i \in 1..Len(labels') : FALSE
    BY <2>1
  <2> QED BY <1>3, <2>1, <2>2 DEF LabelsOK
<1>5. JumpsOK'
  BY <1>2, Zenon DEF JumpsOK, Jumps, PIOs
<1> QED BY <1>1, <1>4, <1>5 DEF AllResolved

\* Every step keeps the invariant of labels and jumps.
LEMMA JumpInvInductive == JumpInv /\ [MNext]_mvars => JumpInv'
<1> SUFFICES ASSUME JumpInv, [MNext]_mvars PROVE JumpInv'
  OBVIOUS
<1>1. /\ LoadInv /\ IInv /\ FileOK /\ TablesOK /\ LinesDiffer
      /\ (parse # "idle" /\ CountsFit =>
             PlacesOK /\ Written /\ LabelsOK /\ JumpsOK /\ AllResolved)
  BY DEF JumpInv, LoadInv, IInv
<1>2. LoadInv'
  BY <1>1, LoadInvInductive
<1>3. CASE StartBuild
  BY <1>2, <1>3, SystemInitJumps DEF StartBuild, JumpInv
<1>4. CASE Parse
  <2>1. LNext
    BY <1>4 DEF Parse
  <2>2. parse = "reading"
    BY <2>1 DEF LNext, AddInstruction, AddUserInstruction, TableFull, SetPio, SetSm, SetProcessor,
                SetWrap, AddLabel, Blank, Reading, EndOfFile, SyntaxError
  <2>3. ASSUME CountsFit' PROVE LabelsOK' /\ JumpsOK' /\ AllResolved'
    BY <1>1, <2>1, <2>2, <2>3, CountsFitBefore, LNextJumps
  <2> QED BY <1>2, <2>3 DEF JumpInv
<1>5. ASSUME UNCHANGED <<text, since, labels, parse>>,
             \A p \in PIOs : SameCode(pios[p], pios'[p]) /\ SameLocations(pios[p], pios'[p])
      PROVE  JumpInv'
  <2>1. parse # "idle" /\ CountsFit => LabelsOK' /\ JumpsOK'
    BY <1>1, <1>5, NothingReadJumps
  <2>2. ASSUME parse # "idle", CountsFit PROVE AllResolved'
    <3> SUFFICES ASSUME parse' = "built", NEW p \in PIOs, NEW k \in Jumps(p)'
                 PROVE  pios'[p].cells[Address(CodeOf(p), k)'].location # NoLocation
      BY Zenon DEF AllResolved, PIOs
    <3>1. CodeOf(p)' = CodeOf(p) /\ LinesStay
      BY <1>5, SameText
    <3>2. k \in Jumps(p) /\ k \in CodeOf(p)
      BY <3>1, CodeInLines DEF Jumps, LinesStay
    <3>3. PICK a : a = Address(CodeOf(p), k)
      OBVIOUS
    <3>4. Address(CodeOf(p), k)' = a
      <4>1. Address(CodeOf(p), k)' = Address(CodeOf(p)', k)
        BY DEF Address
      <4> QED BY <3>1, <3>3, <4>1
    <3>5. parse = "built" /\ Written /\ AllResolved
      BY <1>1, <1>5, <2>2
    <3>6. a \in PioSlots /\ DOMAIN pios[p].cells = PioSlots
      BY <1>1, <3>2, <3>3, <3>5, InProgram, TablesParts
    <3>7. pios[p].cells[a].location # NoLocation
      BY <3>2, <3>3, <3>5 DEF AllResolved
    <3> QED BY <1>5, <3>4, <3>6, <3>7 DEF SameLocations
  <2> QED BY <1>2, <1>5, <2>1, <2>2 DEF JumpInv, CountsFit
<1>6. CASE ToggleIt
  <2>1. UNCHANGED <<text, since, labels, parse>>
    BY <1>6 DEF ToggleIt
  <2> QED BY <1>1, <1>5, <1>6, <2>1, ToggleKeeps
<1>7. ASSUME UNCHANGED lvars PROVE JumpInv'
  <2>1. UNCHANGED <<text, since, labels, parse, pios>>
    BY <1>7 DEF lvars, tables
  <2> QED BY <1>5, <2>1 DEF SameCode, SameLocations
<1>8. StepFirst \/ StepIt \/ NotBuilt \/ RunIt \/ (\E key \in BOOLEAN : RunStep(key))
        \/ UNCHANGED mvars => UNCHANGED lvars
  BY DEF StepFirst, StepIt, NotBuilt, RunIt, RunStep, mvars
<1> QED BY <1>3, <1>4, <1>6, <1>7, <1>8 DEF MNext

\* The first label of a name is the first line that has it.
LEMMA JumpInvGoes == JumpInv => (CountsFit => JumpsGoToLabels)
<1> SUFFICES ASSUME JumpInv, CountsFit, parse = "built", NEW p \in PIOs, NEW k \in CodeOf(p),
                    text[k].k = "jmp"
             PROVE  LET named == {j \in Lines : text[j].k = "label" /\ text[j].name = text[k].name}
                        location == pios[p].cells[Address(CodeOf(p), k)].location
                    IN /\ named # {} /\ location + 1 \in DOMAIN labels
                       /\ labels[location + 1].location = Place(Least(named))
  BY DEF JumpsGoToLabels
<1>1. TablesOK /\ FileOK /\ Written /\ LabelsOK /\ JumpsOK /\ AllResolved /\ k \in Jumps(p)
  BY DEF JumpInv, LoadInv, IInv, Jumps
<1>2. PICK n, C, name : n = Len(text) /\ C = LabelLines /\ name = text[k].name
  OBVIOUS
<1>3. n \in Nat /\ Lines = 1..n /\ C \in SUBSET (1..n)
  BY <1>1, <1>2, CodeInLines DEF FileOK, Lines
<1>4. PICK c, location : /\ c = pios[p].cells[Address(CodeOf(p), k)] /\ location = c.location
                         /\ location # NoLocation
  BY <1>1 DEF AllResolved
<1>5. Target(labels, location, name)
  BY <1>1, <1>2, <1>4 DEF JumpsOK, JumpOK
<1>6. location \in Int
  BY <1>1, <1>4, InProgram DEF Cell
<1>7. /\ location + 1 \in 1..Len(labels) /\ labels[location + 1].label = name
      /\ \A i \in 1..location : labels[i].label # name
  <2>1. DOMAIN labels = 1..Len(labels)
    BY <1>1 DEF TablesOK
  <2> QED BY <1>5, <2>1 DEF Target
<1>8. PICK l \in C : location + 1 = LabelAt(l)
  BY <1>1, <1>2, <1>7 DEF LabelsOK
<1> DEFINE named == {j \in Lines : text[j].k = "label" /\ text[j].name = name}
<1>9. labels[LabelAt(l)].label = text[l].name /\ labels[LabelAt(l)].location = Place(l)
  BY <1>1, <1>2, <1>8 DEF LabelsOK
<1>10. l \in named
  BY <1>2, <1>3, <1>7, <1>8, <1>9 DEF LabelLines
<1>11. ASSUME NEW j \in named, j < l PROVE FALSE
  <2>1. j \in C /\ text[j].name = name
    BY <1>2 DEF LabelLines
  <2>2. Address(C, j) < Address(C, l)
    BY <1>3, <1>8, <1>11, <2>1, AddressGrows
  <2>3. Address(C, j) \in Nat /\ Address(C, l) \in Nat
    <3>1. j \in 1..(n + 1) /\ l \in 1..(n + 1)
      BY <1>3, <1>8, <2>1
    <3>2. Address(C, j) \in 0..Cardinality(C) /\ Address(C, l) \in 0..Cardinality(C)
      BY <1>3, <3>1, AddressType
    <3> QED BY <3>2
  <2>4. LabelAt(j) = Address(C, j) + 1 /\ LabelAt(l) = Address(C, l) + 1
    BY <1>2 DEF LabelAt
  <2>5. LabelAt(j) \in 1..location
    BY <1>6, <1>8, <2>2, <2>3, <2>4
  <2>6. labels[LabelAt(j)].label = name
    BY <1>1, <1>2, <2>1 DEF LabelsOK
  <2> QED BY <1>7, <2>5, <2>6
<1>12. Least(named) = l
  <2>1. \A j \in named : j \in Int
    BY <1>3
  <2>2. l \in Int /\ \A j \in named : l <= j
    BY <1>10, <1>11, <2>1
  <2> HIDE DEF named
  <2>3. \A i, j \in Int : i <= j /\ j <= i => i = j
    OBVIOUS
  <2> QED BY <1>10, <2>1, <2>2, <2>3 DEF Least
<1>13. location + 1 \in DOMAIN labels /\ labels[location + 1].location = Place(Least(named))
  BY <1>5, <1>8, <1>9, <1>12 DEF Target
<1> QED BY <1>2, <1>4, <1>10, <1>13

\* After a successful build every jump goes to what follows the first label of its name.
THEOREM BuiltJumpsGo == Spec => [](CountsFit => JumpsGoToLabels)
<1>1. JumpInv /\ [MNext]_mvars => JumpInv'
  BY JumpInvInductive
<1>2. MInit => JumpInv
  BY InitLoadInv DEF JumpInv, MInit, LInit
<1> QED BY <1>1, <1>2, JumpInvGoes, PTL DEF Spec
=============================================================================
