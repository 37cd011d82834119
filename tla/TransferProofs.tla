---------------------------- MODULE TransferProofs ----------------------------
(***************************************************************************)
(* What holds of the two sides that move words through the FIFOs.          *)
(*                                                                         *)
(* Of the user instructions of UserData, for data areas and FIFOs of any   *)
(* size and any programs with one reader that write no empty string: the   *)
(* bytes arrive in order, and the lines read are whole.                    *)
(*                                                                         *)
(* Of ShiftPath, for FIFOs of every even size, every set of words, every   *)
(* configuration and every program over its instructions: the types, that  *)
(* no transfer is refused after the instruction counted it as done, that a *)
(* pulled word is sent whole, and that autopush keeps up.                  *)
(***************************************************************************)
EXTENDS UserData, ShiftPath, SequenceTheorems, WellFoundedInduction, TLAPS

-----------------------------------------------------------------------------
(* The user instructions                                                   *)

Reads == {"data_read", "data_readln"}

\* One processor takes what arrives.
OneReader(p, r) == \A u \in UPs \ {r} : \A k \in DOMAIN p[u] : p[u][k].op \notin Reads \cup {"read"}

\* Where the k-th instruction of prog is reached, the data area has a string: the
\* last instruction to fill the area has set one that is not empty.
HasString(prog, k) ==
    \E j \in 1..(k - 1) :
        /\ j \in DOMAIN prog /\ prog[j].op = "data_set" /\ prog[j].arg # <<>>
        /\ \A i \in (j + 1)..(k - 1) : prog[i].op \notin {"data_set", "data_clear"} \cup Reads

WritesStrings(p) ==
    \A u \in UPs : \A k \in DOMAIN p[u] : p[u][k].op = "data_write" => HasString(p[u], k)

\* What the theorems ask of the programs: the order of two readers is nobody's
\* promise, and a DATA WRITE of an empty string does not end (execution.c 1496).
ProgramsFit == \A p \in Programs : (\E r \in UPs : OneReader(p, r)) /\ WritesStrings(p)

\* A NUL is sent only where a WRITE names it.
NulWritten == \E p \in Programs : \E u \in UPs : \E k \in DOMAIN p[u] :
                  p[u][k].op = "write" /\ p[u][k].arg = NUL
Sendable == {v \in Values : v = NUL => NulWritten}

------------------------------------------------------------------------------
(* The inductive invariant *)

At(u, ops) == pc[u] \in DOMAIN program[u] /\ Instr(u).op \in ops

TypesOK ==
    /\ program \in Programs /\ pc \in [UPs -> Nat \ {0}]
    /\ data \in [UPs -> [Cells -> Values]] /\ index \in [UPs -> Cells]
    /\ mode = "BIDI" /\ Len(tx) <= TxCapacity(mode)
    /\ tx \in Seq(Sendable) /\ rx \in Seq(Sendable) /\ wire \in Sendable \cup {None}

\* What a transfer's place says of the data area.
Place(u) ==
    /\ index[u] # 0 => At(u, {"data_write"} \cup Reads)
    /\ At(u, {"data_write"}) => \A k \in 0..index[u] : data[u][k] # NUL
    /\ HasString(program[u], pc[u]) /\ ~At(u, Reads) => data[u][0] # NUL
    /\ At(u, Reads) => \A k \in 0..(index[u] - 1) : data[u][k] \in Sendable
    /\ At(u, {"data_readln"}) => \A k \in 0..(index[u] - 1) : data[u][k] # Stop

\* BytesArriveInOrder with the reader named.
OnTheWire == IF wire = None THEN <<>> ELSE <<wire>>
Conserved(r) == owed = Stored(r) \o rx \o OnTheWire \o tx

LineOK ==
    /\ reader \in Reads => line \in Seq(Sendable) /\ Len(line) >= 1
    /\ reader = "data_readln" =>
          /\ line[Len(line)] = Stop \/ Len(line) = Max
          /\ \A k \in 1..(Len(line) - 1) : line[k] # Stop
    /\ reader = "data_read" => Len(line) = Max

IInv == /\ TypesOK /\ LineOK
        /\ \A u \in UPs : Place(u)
        /\ \E r \in UPs : OneReader(program, r) /\ Conserved(r)

------------------------------------------------------------------------------
(* Sequences *)

\* The facts below are cited by these names, since the provers do not find the
\* instances of the equations themselves.
AppendInside(s, t, v) == Append(s \o t, v) = s \o Append(t, v)
ByteOff(s, r, w, t) == s \o r \o w \o t = Append(s, Head(r)) \o Tail(r) \o w \o t
LineOff(s, r, w, t) ==
    SubSeq(s \o r \o w \o t, Len(s) + 2, Len(s \o r \o w \o t)) = Tail(r) \o w \o t
OneMore(n, f, g) == [k \in 1..(n + 1) |-> g[k - 1]] = Append([k \in 1..n |-> f[k - 1]], g[n])
WordOff(r, w, t) == Tail(<<>> \o r \o w \o t) = <<>> \o Tail(r) \o w \o t

LEMMA Queued ==
    ASSUME NEW S, NEW s \in Seq(S), NEW t \in Seq(S), NEW v \in S
    PROVE  AppendInside(s, t, v)
  BY DEF AppendInside

LEMMA Fetched ==
    ASSUME NEW S, NEW s \in Seq(S), NEW t \in Seq(S), t # <<>>
    PROVE  s \o t = Append(s, Head(t)) \o Tail(t)
  OBVIOUS

LEMMA Rest ==
    ASSUME NEW S, NEW s \in Seq(S), NEW t \in Seq(S), t # <<>>
    PROVE  SubSeq(s \o t, Len(s) + 2, Len(s \o t)) = Tail(t)
  OBVIOUS

LEMMA TailOfBoth ==
    ASSUME NEW S, NEW s \in Seq(S), NEW t \in Seq(S), s # <<>>
    PROVE  Tail(s \o t) = Tail(s) \o t
  OBVIOUS

LEMMA FirstBytes ==
    ASSUME NEW S, NEW n \in Nat, NEW f, \A k \in 0..(n - 1) : f[k] \in S
    PROVE  /\ [k \in 1..n |-> f[k - 1]] \in Seq(S)
           /\ Len([k \in 1..n |-> f[k - 1]]) = n
<1> DEFINE s == [k \in 1..n |-> f[k - 1]]
<1>1. s \in [1..n -> S]
  OBVIOUS
<1>2. s \in Seq(S)
  BY <1>1
<1> QED BY <1>1, <1>2

LEMMA NoBytes == ASSUME NEW f PROVE [k \in 1..0 |-> f[k - 1]] = <<>>
  OBVIOUS

LEMMA OneMoreByte ==
    ASSUME NEW S, NEW n \in Nat, NEW f, NEW g, \A k \in 0..(n - 1) : f[k] \in S /\ g[k] = f[k],
           g[n] \in S
    PROVE  OneMore(n, f, g)
<1> DEFINE s == [k \in 1..n |-> f[k - 1]]
           t == [k \in 1..(n + 1) |-> g[k - 1]]
<1>1. s \in Seq(S) /\ Len(s) = n
  BY FirstBytes
<1>2. t \in Seq(S) /\ Len(t) = n + 1
  BY FirstBytes, n + 1 \in Nat, \A k \in 0..n : g[k] \in S
<1>3. \A k \in 1..n : t[k] = s[k]
  OBVIOUS
<1>4. t[n + 1] = g[n]
  OBVIOUS
<1> HIDE DEF s, t
<1>5. t = Append(s, g[n])
  BY <1>1, <1>2, <1>3, <1>4
<1> QED BY <1>5 DEF s, t, OneMore

------------------------------------------------------------------------------
(* One processor's part of a step *)

\* The turn is u's: nothing the others have of their own changes.
OthersKept(u) == /\ program' = program
                 /\ \A w \in UPs \ {u} : pc'[w] = pc[w] /\ index'[w] = index[w] /\ data'[w] = data[w]

Typed == /\ pc' \in [UPs -> Nat \ {0}] /\ index' \in [UPs -> Cells]
         /\ data' \in [UPs -> [Cells -> Values]]

LEMMA PlaceKept ==
    ASSUME NEW w, program' = program, pc'[w] = pc[w], index'[w] = index[w], data'[w] = data[w]
    PROVE  Place(w)' = Place(w) /\ Stored(w)' = Stored(w)
<1>1. Instr(w)' = Instr(w)
  BY DEF Instr
<1>2. \A ops : At(w, ops)' = At(w, ops)
  BY <1>1 DEF At
<1>3. Place(w)' = Place(w)
  BY <1>2 DEF Place
<1>4. Stored(w)' = Stored(w)
  BY <1>1 DEF Stored
<1> QED BY <1>3, <1>4

\* What can make a string be there for the next instruction.
LEMMA StringNext ==
    ASSUME NEW prog, NEW k \in Nat \ {0}, HasString(prog, k + 1)
    PROVE  \/ prog[k].op = "data_set" /\ prog[k].arg # <<>>
           \/ HasString(prog, k) /\ prog[k].op \notin {"data_set", "data_clear"} \cup Reads
<1>1. PICK j \in 1..k :
          /\ j \in DOMAIN prog /\ prog[j].op = "data_set" /\ prog[j].arg # <<>>
          /\ \A i \in (j + 1)..k : prog[i].op \notin {"data_set", "data_clear"} \cup Reads
  BY DEF HasString
<1>2. CASE j = k
  BY <1>1, <1>2
<1>3. CASE j # k
  <2>1. j \in 1..(k - 1) /\ k \in (j + 1)..k /\ \A i \in (j + 1)..(k - 1) : i \in (j + 1)..k
    BY <1>3
  <2>2. prog[k].op \notin {"data_set", "data_clear"} \cup Reads
    BY <1>1, <2>1
  <2>3. HasString(prog, k)
    BY <1>1, <2>1 DEF HasString
  <2> QED BY <2>2, <2>3
<1> QED BY <1>2, <1>3

\* The next instruction begins at the first byte.
LEMMA PlaceDone ==
    ASSUME TypesOK, WritesStrings(program), NEW u \in UPs, program' = program,
           index'[u] = 0, HasString(program[u], pc'[u]) => data'[u][0] # NUL
    PROVE  Place(u)' /\ Stored(u)' = <<>>
<1>1. At(u, {"data_write"})' => HasString(program[u], pc'[u])
  BY DEF At, Instr, WritesStrings
<1>2. \A k \in 0..0 : k = 0
  OBVIOUS
<1>3. \A k \in 0..(0 - 1) : FALSE
  OBVIOUS
<1>4. Place(u)'
  BY <1>1, <1>2, <1>3 DEF Place
<1>5. Stored(u)' = <<>>
  <2>1. CASE At(u, Reads)'
    BY <2>1, NoBytes DEF Stored, At, Reads
  <2>2. CASE ~At(u, Reads)'
    BY <2>2 DEF Stored, At, Reads
  <2> QED BY <2>1, <2>2
<1> QED BY <1>4, <1>5

\* An instruction that reads nothing into the data area has stored nothing.
LEMMA NothingStored == ASSUME NEW u, ~At(u, Reads) PROVE Stored(u) = <<>>
  BY DEF Stored, At, Reads

LEMMA StoredType ==
    ASSUME IInv, NEW u \in UPs
    PROVE  /\ Stored(u) \in Seq(Sendable)
           /\ At(u, Reads) => Len(Stored(u)) = index[u]
<1>1. index[u] \in Nat
  BY DEF IInv, TypesOK, Cells
<1>2. CASE At(u, Reads)
  <2>1. \A k \in 0..(index[u] - 1) : data[u][k] \in Sendable
    BY <1>2 DEF IInv, Place
  <2>2. Stored(u) = [k \in 1..index[u] |-> data[u][k - 1]]
    BY <1>2 DEF At, Reads, Stored
  <2> QED BY <1>1, <2>1, <2>2, FirstBytes
<1>3. CASE ~At(u, Reads)
  <2>1. Stored(u) = <<>>
    BY <1>3, NothingStored
  <2> QED BY <1>3, <2>1
<1> QED BY <1>2, <1>3

\* What a step of u has to show.
LEMMA TurnKeeps ==
    ASSUME IInv, NEW u \in UPs, OthersKept(u), TypesOK', LineOK', Place(u)',
           \A r \in UPs : OneReader(program, r) /\ Conserved(r) => Conserved(r)'
    PROVE  IInv'
<1>1. ASSUME NEW w \in UPs PROVE Place(w)'
  <2>1. CASE w = u
    BY <2>1
  <2>2. CASE w # u
    BY <2>2, PlaceKept DEF OthersKept, IInv
  <2> QED BY <2>1, <2>2
<1>2. \E r \in UPs : OneReader(program', r) /\ Conserved(r)'
  BY DEF IInv, OthersKept
<1> QED BY <1>1, <1>2 DEF IInv

LEMMA QuietTurnKeeps ==
    ASSUME IInv, NEW u \in UPs, OthersKept(u), Typed,
           UNCHANGED <<qvars, wire, owed, line, reader>>, Place(u)', Stored(u)' = Stored(u)
    PROVE  IInv'
<1>1. UNCHANGED <<mode, tx, rx, wire, owed, line, reader>>
  BY DEF qvars
<1>2. TypesOK'
  BY <1>1 DEF IInv, TypesOK, Typed, OthersKept
<1>3. LineOK'
  BY <1>1 DEF IInv, LineOK
<1>4. ASSUME NEW r \in UPs, Conserved(r) PROVE Conserved(r)'
  <2>1. Stored(r)' = Stored(r)
    BY PlaceKept DEF OthersKept
  <2>2. OnTheWire' = OnTheWire
    BY <1>1 DEF OnTheWire
  <2> QED BY <1>1, <1>4, <2>1, <2>2 DEF Conserved
<1> QED BY <1>2, <1>3, <1>4, TurnKeeps

------------------------------------------------------------------------------
(* What is on its way *)

LEMMA ByteTaken ==
    ASSUME NEW S, NEW s \in Seq(S), NEW r \in Seq(S), r # <<>>, NEW w, NEW t
    PROVE  ByteOff(s, r, w, t)
<1>1. s \o r = Append(s, Head(r)) \o Tail(r)
  BY Fetched
<1> QED BY <1>1 DEF ByteOff

LEMMA LineTaken ==
    ASSUME NEW S, NEW s \in Seq(S), NEW r \in Seq(S), NEW w \in Seq(S), NEW t \in Seq(S),
           r # <<>>
    PROVE  LineOff(s, r, w, t)
<1> DEFINE a == r \o w
           b == a \o t
<1>1. a \in Seq(S) /\ a # <<>>
  <2>1. Len(r) \in Nat \ {0}
    OBVIOUS
  <2>2. Len(w) \in Nat /\ a \in Seq(S) /\ Len(a) = Len(r) + Len(w)
    OBVIOUS
  <2> HIDE DEF a
  <2>3. Len(a) # 0
    BY <2>1, <2>2
  <2> QED BY <2>2, <2>3
<1>2. s \o r \o w = s \o a
  OBVIOUS
<1> HIDE DEF a
<1>3. b \in Seq(S) /\ b # <<>>
  BY <1>1
<1>4. (s \o a) \o t = s \o b
  BY <1>1
<1>5. Tail(a) = Tail(r) \o w
  BY TailOfBoth DEF a
<1>6. Tail(b) = Tail(a) \o t
  BY <1>1, TailOfBoth
<1> HIDE DEF b
<1>7. SubSeq(s \o b, Len(s) + 2, Len(s \o b)) = Tail(b)
  BY <1>3, Rest
<1> QED BY <1>2, <1>4, <1>5, <1>6, <1>7 DEF LineOff

LEMMA WordTaken ==
    ASSUME NEW S, NEW r \in Seq(S), NEW w \in Seq(S), NEW t \in Seq(S), r # <<>>
    PROVE  WordOff(r, w, t)
<1> DEFINE a == r \o w
<1>1. a \in Seq(S) /\ a # <<>> /\ Tail(a) = Tail(r) \o w
  BY TailOfBoth
<1>2. <<>> \o r = r /\ <<>> \o Tail(r) = Tail(r)
  OBVIOUS
<1> HIDE DEF a
<1>3. Tail(a \o t) = Tail(a) \o t
  BY <1>1, TailOfBoth
<1> QED BY <1>1, <1>2, <1>3 DEF a, WordOff

LEMMA WirePulled ==
    ASSUME NEW S, NEW s \in Seq(S), NEW t \in Seq(S), t # <<>>
    PROVE  s \o <<>> \o t = s \o <<Head(t)>> \o Tail(t)
  OBVIOUS

LEMMA WirePushed ==
    ASSUME NEW S, NEW s \in Seq(S), NEW r \in Seq(S), NEW v \in S, NEW t
    PROVE  s \o r \o <<v>> \o t = s \o Append(r, v) \o <<>> \o t
<1>1. s \o r \o <<v>> = s \o Append(r, v) \o <<>>
  OBVIOUS
<1> QED BY <1>1

LEMMA WireType == ASSUME TypesOK PROVE OnTheWire \in Seq(Sendable)
  BY DEF TypesOK, OnTheWire

\* A byte written goes to the end of what is on its way.
LEMMA WriteConserves ==
    ASSUME IInv, NEW u \in UPs, NEW v \in Sendable, ~NoRoom, QWrite(v), owed' = Append(owed, v),
           wire' = wire, OthersKept(u), Stored(u)' = Stored(u)
    PROVE  /\ mode' = mode /\ Len(tx') <= TxCapacity(mode)
           /\ tx' \in Seq(Sendable) /\ rx' = rx
           /\ \A r \in UPs : Conserved(r) => Conserved(r)'
<1>1. /\ mode = "BIDI" /\ Len(tx) <= TxCapacity(mode) /\ tx \in Seq(Sendable)
      /\ rx \in Seq(Sendable) /\ TxCapacity("BIDI") \in Int
  BY SizeAssumption DEF IInv, TypesOK, TxCapacity
<1>2. Len(tx) < TxCapacity(mode)
  BY <1>1 DEF NoRoom
<1>3. tx' = Append(tx, v) /\ mode' = mode /\ rx' = rx
  BY <1>2 DEF QWrite
<1>4. tx' \in Seq(Sendable) /\ Len(tx') <= TxCapacity(mode)
  BY <1>1, <1>2, <1>3
<1>5. ASSUME NEW r \in UPs, Conserved(r) PROVE Conserved(r)'
  <2>1. Stored(r)' = Stored(r)
    BY PlaceKept DEF OthersKept
  <2>2. Stored(r) \in Seq(Sendable) /\ OnTheWire \in Seq(Sendable) /\ OnTheWire' = OnTheWire
    BY StoredType, WireType DEF OnTheWire, IInv
  <2>3. Stored(r) \o rx \o OnTheWire \in Seq(Sendable)
    BY <1>1, <2>2
  <2>4. owed' = Stored(r) \o rx \o OnTheWire \o Append(tx, v)
    <3> DEFINE front == Stored(r) \o rx \o OnTheWire
    <3>1. owed = front \o tx /\ front \in Seq(Sendable)
      BY <1>5, <2>3 DEF Conserved
    <3> HIDE DEF front
    <3>2. AppendInside(front, tx, v)
      BY <1>1, <3>1, Queued
    <3> QED BY <3>1, <3>2 DEF front, AppendInside
  <2> QED BY <1>3, <2>1, <2>2, <2>4 DEF Conserved
<1> QED BY <1>3, <1>4, <1>5

\* A word read leaves the front of what is on its way: for a variable, for the rest
\* of a line, or with the line it ends.
LEMMA ReadConserves ==
    ASSUME IInv, NEW u \in UPs, OneReader(program, u), rx # <<>>, QRead, wire' = wire,
           OthersKept(u), Conserved(u),
           \/ ~At(u, Reads) /\ Stored(u)' = <<>> /\ owed' = Tail(owed)
           \/ Stored(u)' = Append(Stored(u), Head(rx)) /\ owed' = owed
           \/ /\ At(u, Reads) /\ Stored(u)' = <<>>
              /\ owed' = SubSeq(owed, index[u] + 2, Len(owed))
    PROVE  Conserved(u)'
<1> DEFINE s == Stored(u)
           w == OnTheWire
<1>1. /\ s \in Seq(Sendable) /\ rx \in Seq(Sendable) /\ w \in Seq(Sendable)
      /\ tx \in Seq(Sendable) /\ (At(u, Reads) => Len(s) = index[u])
  BY StoredType, WireType DEF IInv, TypesOK
<1>2. rx' = Tail(rx) /\ tx' = tx /\ OnTheWire' = w
  BY DEF QRead, OnTheWire
<1>3. owed = s \o rx \o w \o tx
  BY DEF Conserved
<1>4. ~At(u, Reads) => s = <<>>
  BY NothingStored
<1>5. SUFFICES owed' = Stored(u)' \o Tail(rx) \o w \o tx
  BY <1>2 DEF Conserved
<1>6. CASE ~At(u, Reads) /\ Stored(u)' = <<>> /\ owed' = Tail(owed)
  <2> HIDE DEF s, w
  <2>1. WordOff(rx, w, tx)
    BY <1>1, WordTaken
  <2> QED BY <1>3, <1>4, <1>6, <2>1 DEF WordOff
<1>7. CASE Stored(u)' = Append(Stored(u), Head(rx)) /\ owed' = owed
  <2>1. Stored(u)' = Append(s, Head(rx)) /\ owed' = owed
    BY <1>7
  <2> HIDE DEF s, w
  <2>2. ByteOff(s, rx, w, tx)
    BY <1>1, ByteTaken
  <2> QED BY <1>3, <2>1, <2>2 DEF ByteOff
<1>8. CASE /\ At(u, Reads) /\ Stored(u)' = <<>>
           /\ owed' = SubSeq(owed, index[u] + 2, Len(owed))
  <2> HIDE DEF s, w
  <2>1. LineOff(s, rx, w, tx)
    BY <1>1, LineTaken
  <2>3. Len(s) = index[u]
    BY <1>1, <1>8
  <2>4. owed' = Tail(rx) \o w \o tx
    BY <1>3, <1>8, <2>1, <2>3 DEF LineOff
  <2>2. <<>> \o Tail(rx) = Tail(rx)
    BY <1>1
  <2> QED BY <1>8, <2>2, <2>4, Zenon
<1> QED BY <1>6, <1>7, <1>8

LEMMA OnlyReader ==
    ASSUME IInv, NEW u \in UPs, At(u, Reads \cup {"read"}), NEW r \in UPs, OneReader(program, r)
    PROVE  r = u
  BY DEF At, Instr, OneReader

------------------------------------------------------------------------------
(* The instructions *)

\* The program and the places are the only thing Finish and Continue change.
LEMMA FinishIs ==
    ASSUME IInv, NEW u \in UPs, pc[u] \in DOMAIN program[u], Finish(u)
    PROVE  /\ pc' \in [UPs -> Nat \ {0}] /\ index' \in [UPs -> Cells]
           /\ pc'[u] = pc[u] + 1 /\ index'[u] = 0 /\ pc[u] \in Nat \ {0}
           /\ \A w \in UPs \ {u} : pc'[w] = pc[w] /\ index'[w] = index[w]
<1>1. pc \in [UPs -> Nat \ {0}] /\ index \in [UPs -> Cells] /\ 0 \in Cells
  BY UserAssumption DEF IInv, TypesOK, Cells
<1> QED BY <1>1 DEF Finish

LEMMA ContinueIs ==
    ASSUME IInv, NEW u \in UPs, NEW k \in Cells, Continue(u, k)
    PROVE  /\ pc' = pc /\ index' \in [UPs -> Cells] /\ index'[u] = k
           /\ \A w \in UPs \ {u} : index'[w] = index[w]
  BY DEF IInv, TypesOK, Continue

\* A turn that changes nothing but delays and the program's end.
LEMMA StillKeeps ==
    ASSUME IInv, NEW u \in UPs, UNCHANGED <<qvars, program, wire, owed, line, reader>>,
           pc' = pc, index' = index, data' = data
    PROVE  IInv'
<1>1. Place(u)' = Place(u) /\ Stored(u)' = Stored(u)
  BY PlaceKept
<1>2. Typed /\ OthersKept(u) /\ Place(u)
  BY DEF Typed, OthersKept, IInv, TypesOK
<1> QED BY <1>1, <1>2, QuietTurnKeeps

LEMMA BlockedKeeps ==
    ASSUME IInv, NEW u \in UPs, Blocked(u), UNCHANGED <<program, wire>>
    PROVE  IInv'
<1>1. index[u] \in Cells /\ index \in [UPs -> Cells]
  BY DEF IInv, TypesOK
<1>2. Continue(u, index[u]) /\ UNCHANGED <<qvars, data, owed, line, reader>>
  BY DEF Blocked
<1>3. pc' = pc /\ index' = index
  BY <1>1, <1>2 DEF Continue
<1> QED BY <1>2, <1>3, StillKeeps

\* A turn that completes an instruction on the processor's own state.
LEMMA OwnTurnKeeps ==
    ASSUME IInv, ProgramsFit, NEW u \in UPs, ~At(u, Reads), pc[u] \in DOMAIN program[u],
           UNCHANGED <<qvars, program, wire, owed, line, reader>>,
           data' \in [UPs -> [Cells -> Values]], \A w \in UPs \ {u} : data'[w] = data[w],
           \/ /\ Finish(u)
              /\ \/ data'[u][0] # NUL
                 \/ data' = data
                 \/ Instr(u).op = "data_clear"
           \/ /\ pc' = [pc EXCEPT ![u] = 1] /\ index' = [index EXCEPT ![u] = 0]
              /\ data' = data,
           Instr(u).op = "data_set" /\ Instr(u).arg # <<>> => data'[u][0] # NUL
    PROVE  IInv'
<1>1. /\ pc \in [UPs -> Nat \ {0}] /\ index \in [UPs -> Cells] /\ 0 \in Cells
      /\ program \in Programs /\ TypesOK
  <2>1. 0 \in Cells
    BY UserAssumption DEF Cells
  <2> QED BY <2>1 DEF IInv, TypesOK
<1>2. /\ Typed /\ OthersKept(u) /\ index'[u] = 0
      /\ pc'[u] = pc[u] + 1 \/ (pc'[u] = 1 /\ data' = data)
  <2>1. CASE Finish(u)
    BY <1>1, <2>1, FinishIs DEF Typed, OthersKept
  <2>2. CASE pc' = [pc EXCEPT ![u] = 1] /\ index' = [index EXCEPT ![u] = 0] /\ data' = data
    BY <1>1, <2>2 DEF Typed, OthersKept
  <2> QED BY <2>1, <2>2
<1>3. ASSUME HasString(program[u], pc'[u]) PROVE data'[u][0] # NUL
  <2>1. pc'[u] # 1
    BY <1>3 DEF HasString
  <2>2. pc'[u] = pc[u] + 1 /\ pc[u] \in Nat \ {0}
    BY <1>1, <1>2, <2>1
  <2>3. \/ Instr(u).op = "data_set" /\ Instr(u).arg # <<>>
        \/ HasString(program[u], pc[u]) /\ Instr(u).op # "data_clear"
    BY <1>3, <2>2, StringNext DEF Instr
  <2>4. HasString(program[u], pc[u]) => data[u][0] # NUL
    BY DEF IInv, Place, At
  <2>5. pc' # [pc EXCEPT ![u] = 1]
    BY <1>1, <2>1
  <2> QED BY <2>3, <2>4, <2>5
<1>4. WritesStrings(program)
  BY <1>1 DEF ProgramsFit
<1>5. Place(u)' /\ Stored(u)' = <<>>
  BY <1>1, <1>2, <1>3, <1>4, PlaceDone DEF OthersKept
<1>6. Stored(u) = <<>>
  BY NothingStored
<1> QED BY <1>2, <1>5, <1>6, QuietTurnKeeps

LEMMA DataSetKeeps ==
    ASSUME IInv, ProgramsFit, NEW u \in UPs, DataSet(u) PROVE IInv'
<1> DEFINE s == Instr(u).arg
           n == IF Len(s) < Max THEN Len(s) ELSE Max - 1
           area == [k \in Cells |-> IF k < n THEN s[k + 1] ELSE IF k = n THEN NUL ELSE data[u][k]]
<1>1. /\ pc[u] \in DOMAIN program[u] /\ Instr(u).op = "data_set" /\ Finish(u)
      /\ UNCHANGED <<qvars, program, wire, owed, line, reader>>
      /\ data' = [data EXCEPT ![u] = area]
  BY DEF DataSet, Runs, Active, Elsewhere
<1>2. s \in Seq(Values \ {NUL}) /\ NUL \in Values /\ Max \in Nat \ {0, 1}
  BY <1>1, UserAssumption DEF IInv, TypesOK, Instr
<1>3. n \in Nat /\ n <= Len(s) /\ (s # <<>> => n > 0)
  BY <1>2
<1>4. data \in [UPs -> [Cells -> Values]]
  BY DEF IInv, TypesOK
<1>5. ASSUME NEW k \in Cells PROVE area[k] \in Values
  <2>1. k < n => s[k + 1] \in Values
    BY <1>2, <1>3 DEF Cells
  <2> HIDE DEF s, n
  <2> QED BY <1>2, <1>4, <2>1
<1>6. data' \in [UPs -> [Cells -> Values]] /\ data'[u] = area /\ \A w \in UPs \ {u} : data'[w] = data[w]
  BY <1>1, <1>4, <1>5
<1>7. s # <<>> => area[0] # NUL
  <2>1. 0 \in Cells
    BY <1>2 DEF Cells
  <2>2. s # <<>> => s[1] # NUL
    BY <1>2
  <2>3. s # <<>> => 0 < n
    BY <1>3
  <2> HIDE DEF s, n
  <2> QED BY <2>1, <2>2, <2>3
<1>8. ~At(u, Reads)
  BY <1>1 DEF At, Reads
<1> HIDE DEF area
<1>9. CASE s # <<>>
  BY <1>1, <1>6, <1>7, <1>8, <1>9, OwnTurnKeeps
<1>10. CASE s = <<>>
  <2>1. WritesStrings(program) /\ TypesOK /\ OthersKept(u) /\ Typed
    BY <1>1, <1>6, FinishIs DEF IInv, TypesOK, ProgramsFit, OthersKept, Typed
  <2>2. ~HasString(program[u], pc'[u])
    BY <1>1, <1>10, FinishIs, StringNext DEF Instr
  <2>3. Place(u)' /\ Stored(u)' = <<>>
    BY <1>1, <2>1, <2>2, FinishIs, PlaceDone
  <2>4. Stored(u) = <<>>
    BY <1>8, NothingStored
  <2> QED BY <1>1, <2>1, <2>3, <2>4, QuietTurnKeeps
<1> QED BY <1>9, <1>10

LEMMA DataClearKeeps ==
    ASSUME IInv, ProgramsFit, NEW u \in UPs, DataClear(u) PROVE IInv'
<1>1. /\ pc[u] \in DOMAIN program[u] /\ Instr(u).op = "data_clear" /\ Finish(u)
      /\ UNCHANGED <<qvars, program, wire, owed, line, reader>>
      /\ data' = [data EXCEPT ![u][0] = NUL]
  BY DEF DataClear, Runs, Active, Elsewhere
<1>2. data \in [UPs -> [Cells -> Values]] /\ 0 \in Cells /\ NUL \in Values
  BY UserAssumption DEF IInv, TypesOK, Cells
<1>3. data' \in [UPs -> [Cells -> Values]] /\ \A w \in UPs \ {u} : data'[w] = data[w]
  BY <1>1, <1>2
<1>4. ~At(u, Reads) /\ Instr(u).op # "data_set"
  BY <1>1 DEF At, Reads
<1> QED BY <1>1, <1>3, <1>4, OwnTurnKeeps

LEMMA ShowKeeps ==
    ASSUME IInv, ProgramsFit, NEW u \in UPs, Show(u) \/ Repeat(u) \/ Exit(u) PROVE IInv'
<1>1. /\ pc[u] \in DOMAIN program[u]
      /\ Instr(u).op \in {"print", "data_print", "pin", "repeat", "exit"}
      /\ UNCHANGED <<qvars, program, wire, owed, line, reader>> /\ data' = data
      /\ Finish(u) \/ (pc' = [pc EXCEPT ![u] = 1] /\ index' = [index EXCEPT ![u] = 0])
  BY DEF Show, Repeat, Exit, Runs, Active, Elsewhere
<1>2. ~At(u, Reads) /\ Instr(u).op # "data_set"
  BY <1>1 DEF At, Reads
<1>3. data' \in [UPs -> [Cells -> Values]]
  BY <1>1 DEF IInv, TypesOK
<1> QED BY <1>1, <1>2, <1>3, OwnTurnKeeps

LEMMA DelayKeeps == ASSUME IInv, NEW u \in UPs, DelayTurn(u) PROVE IInv'
  BY StillKeeps DEF DelayTurn

\* A transfer that completes leaves a string where there was one, or was a READ.
LEMMA TransferDone ==
    ASSUME IInv, ProgramsFit, NEW u \in UPs, pc[u] \in DOMAIN program[u], Finish(u),
           program' = program, Instr(u).op # "data_set", Instr(u).op \in Reads \/ data' = data
    PROVE  Place(u)' /\ Stored(u)' = <<>>
<1>1. TypesOK /\ WritesStrings(program)
  BY DEF IInv, TypesOK, ProgramsFit
<1>2. pc'[u] = pc[u] + 1 /\ index'[u] = 0 /\ pc[u] \in Nat \ {0}
  BY FinishIs
<1>3. ASSUME HasString(program[u], pc'[u]) PROVE data'[u][0] # NUL
  <2>1. HasString(program[u], pc[u]) /\ Instr(u).op \notin Reads
    BY <1>2, <1>3, StringNext DEF Instr
  <2>2. data[u][0] # NUL
    BY <2>1 DEF IInv, Place, At
  <2> QED BY <2>1, <2>2
<1> QED BY <1>1, <1>2, <1>3, PlaceDone

LEMMA WriteKeeps ==
    ASSUME IInv, ProgramsFit, NEW u \in UPs, Write(u) PROVE IInv'
<1> DEFINE v == Instr(u).arg
<1>1. /\ pc[u] \in DOMAIN program[u] /\ Instr(u).op = "write"
      /\ UNCHANGED <<program, wire>>
  BY DEF Write, Runs, Active, Elsewhere
<1>2. CASE NoRoom
  BY <1>1, <1>2, BlockedKeeps DEF Write
<1>3. CASE ~NoRoom
  <2>1. /\ QWrite(v) /\ Finish(u) /\ owed' = Append(owed, v)
        /\ UNCHANGED <<data, line, reader>>
    BY <1>3 DEF Write
  <2>2. v \in Sendable
    <3>1. program \in Programs
      BY DEF IInv, TypesOK
    <3>2. v \in Values
      BY <1>1, <3>1, UserAssumption DEF Instr
    <3>3. v = NUL => NulWritten
      BY <1>1, <3>1 DEF Instr, NulWritten
    <3> QED BY <3>2, <3>3 DEF Sendable
  <2> HIDE DEF v
  <2>3. OthersKept(u)
    BY <1>1, <2>1, FinishIs DEF OthersKept
  <2>4. Place(u)' /\ Stored(u)' = <<>> /\ Stored(u) = <<>>
    <3>1. ~At(u, Reads)
      BY <1>1 DEF At, Reads
    <3> QED BY <1>1, <2>1, <3>1, TransferDone, NothingStored
  <2>5. /\ mode' = mode /\ Len(tx') <= TxCapacity(mode)
        /\ tx' \in Seq(Sendable) /\ rx' = rx
        /\ \A r \in UPs : Conserved(r) => Conserved(r)'
    BY <1>1, <1>3, <2>1, <2>2, <2>3, <2>4, WriteConserves
  <2>6. TypesOK'
    BY <1>1, <2>1, <2>5, FinishIs DEF IInv, TypesOK
  <2>7. LineOK'
    BY <2>1 DEF IInv, LineOK
  <2> QED BY <2>3, <2>4, <2>5, <2>6, <2>7, TurnKeeps
<1> QED BY <1>2, <1>3

\* The end of the string: it has one, and not before its first NUL.
LEMMA StrLenIs ==
    ASSUME NEW u
    PROVE  /\ StrLen(u) \in 0..Max /\ Byte(u, StrLen(u)) = NUL
           /\ \A k \in 0..(StrLen(u) - 1) : Byte(u, k) # NUL
<1> DEFINE T == {n \in 0..Max : Byte(u, n) = NUL}
<1>1. Max \in T /\ T \subseteq Nat
  BY UserAssumption DEF Byte, Cells
<1>2. PICK n \in T : \A k \in T : n <= k
  <2>1. IsWellFoundedOn(OpToRel(<, Nat), Nat)
    BY NatLessThanWellFounded
  <2>2. PICK n \in T : \A k \in T : ~(<<k, n>> \in OpToRel(<, Nat))
    BY <1>1, <2>1, WFMin
  <2>3. \A k \in T : k \in Nat /\ n \in Nat /\ ~(k < n)
    BY <1>1, <2>2 DEF OpToRel
  <2> QED BY <2>3
<1>3. n \in 0..Max /\ Byte(u, n) = NUL /\ \A k \in 0..(n - 1) : Byte(u, k) # NUL
  <2>1. \A k \in 0..(n - 1) : k \in 0..Max /\ ~(n <= k)
    BY UserAssumption
  <2> QED BY <1>2, <2>1
<1> QED BY <1>3 DEF StrLen

LEMMA DataWriteKeeps ==
    ASSUME IInv, ProgramsFit, NEW u \in UPs, DataWrite(u) PROVE IInv'
<1> DEFINE k == index[u]
           v == Byte(u, k)
<1>1. /\ pc[u] \in DOMAIN program[u] /\ Instr(u).op = "data_write"
      /\ UNCHANGED <<program, wire>>
  BY DEF DataWrite, Runs, Active, Elsewhere
<1>2. CASE NoRoom
  BY <1>1, <1>2, BlockedKeeps DEF DataWrite
<1>3. CASE ~NoRoom
  <2>1. /\ QWrite(v) /\ owed' = Append(owed, v) /\ UNCHANGED <<data, line, reader>>
        /\ IF Sent(u, k + 1) THEN Finish(u) ELSE Continue(u, k + 1)
    BY <1>3 DEF DataWrite
  <2>2. /\ k \in Cells /\ k \in Nat /\ Max \in Nat /\ data[u] \in [Cells -> Values]
        /\ \A i \in 0..k : data[u][i] # NUL
    BY <1>1, UserAssumption DEF IInv, TypesOK, Place, At, Cells
  <2>3. v = data[u][k] /\ v \in Sendable
    BY <2>2 DEF Byte, Sendable
  <2>4. ~At(u, Reads)
    BY <1>1 DEF At, Reads
  <2>5. Stored(u) = <<>>
    BY <2>4, NothingStored
  <2>6. /\ OthersKept(u) /\ Typed /\ Place(u)' /\ Stored(u)' = <<>>
    <3>1. CASE Sent(u, k + 1)
      BY <1>1, <2>1, <3>1, FinishIs, TransferDone DEF OthersKept, Typed, IInv, TypesOK
    <3>2. CASE ~Sent(u, k + 1)
      <4>1. \A i \in 0..k : i \in Cells /\ Byte(u, i) = data[u][i]
        BY <2>2 DEF Cells, Byte
      <4>2. StrLen(u) \in Nat /\ ~(StrLen(u) \in 0..k)
        BY <2>2, <4>1, StrLenIs
      <4>3. k + 1 \in 0..(StrLen(u) - 1) /\ StrLen(u) <= Max
        BY <2>2, <3>2, <4>2, StrLenIs DEF Sent
      <4>4. k + 1 \in Cells /\ Byte(u, k + 1) # NUL
        BY <2>2, <4>3, StrLenIs DEF Cells
      <4>5. data[u][k + 1] # NUL
        BY <4>4 DEF Byte
      <4>6. /\ pc' = pc /\ index' \in [UPs -> Cells] /\ index'[u] = k + 1
            /\ \A w \in UPs \ {u} : index'[w] = index[w]
        BY <2>1, <3>2, <4>4, ContinueIs
      <4>7. OthersKept(u) /\ Typed
        BY <1>1, <2>1, <4>6 DEF OthersKept, Typed, IInv, TypesOK
      <4>8. At(u, {"data_write"})' /\ ~At(u, Reads)' /\ ~At(u, {"data_readln"})'
        BY <1>1, <4>6 DEF At, Instr, Reads
      <4>9. At(u, {"data_write"} \cup Reads)'
        BY <4>8 DEF At
      <4>10. \A i \in 0..(k + 1) : data[u][i] # NUL
        BY <2>2, <4>5
      <4>11. data[u][0] # NUL
        BY <2>2
      <4>12. Place(u)'
        BY <1>1, <2>1, <4>6, <4>8, <4>9, <4>10, <4>11 DEF Place
      <4>13. Stored(u)' = <<>>
        BY <4>8 DEF Stored, At, Reads
      <4> QED BY <4>7, <4>12, <4>13
    <3> QED BY <3>1, <3>2
  <2>7. /\ mode' = mode /\ Len(tx') <= TxCapacity(mode)
        /\ tx' \in Seq(Sendable) /\ rx' = rx
        /\ \A r \in UPs : Conserved(r) => Conserved(r)'
    BY <1>1, <1>3, <2>1, <2>3, <2>5, <2>6, WriteConserves
  <2>8. TypesOK'
    BY <1>1, <2>1, <2>6, <2>7 DEF IInv, TypesOK, Typed
  <2>9. LineOK'
    BY <2>1 DEF IInv, LineOK
  <2> QED BY <2>6, <2>7, <2>8, <2>9, TurnKeeps
<1> QED BY <1>2, <1>3

\* What a READ of any kind does to the queues.
LEMMA ReadIs ==
    ASSUME IInv, rx # <<>>, QRead
    PROVE  /\ out' = Head(rx) /\ Head(rx) \in Sendable /\ Head(rx) \in Values
           /\ rx' \in Seq(Sendable) /\ UNCHANGED <<tx, mode>>
<1>1. rx \in Seq(Sendable)
  BY DEF IInv, TypesOK
<1>2. Head(rx) \in Sendable /\ Tail(rx) \in Seq(Sendable)
  BY <1>1
<1> QED BY <1>2 DEF QRead, Sendable

LEMMA ReadKeeps ==
    ASSUME IInv, ProgramsFit, NEW u \in UPs, Read(u) PROVE IInv'
<1>1. /\ pc[u] \in DOMAIN program[u] /\ Instr(u).op = "read"
      /\ UNCHANGED <<program, wire>>
  BY DEF Read, Runs, Active, Elsewhere
<1>2. CASE rx = <<>>
  BY <1>1, <1>2, BlockedKeeps DEF Read
<1>3. CASE rx # <<>>
  <2>1. /\ QRead /\ Finish(u) /\ owed' = Tail(owed)
        /\ line' = <<out'>> /\ reader' = "read" /\ data' = data
    BY <1>3 DEF Read
  <2>2. ~At(u, Reads) /\ At(u, Reads \cup {"read"})
    BY <1>1 DEF At, Reads
  <2>3. OthersKept(u) /\ Typed
    BY <1>1, <2>1, FinishIs DEF OthersKept, Typed, IInv, TypesOK
  <2>4. Place(u)' /\ Stored(u)' = <<>>
    BY <1>1, <2>1, TransferDone
  <2>5. TypesOK'
    BY <1>1, <1>3, <2>1, <2>3, ReadIs DEF IInv, TypesOK, Typed
  <2>6. LineOK'
    BY <2>1 DEF LineOK, Reads
  <2>7. ASSUME NEW r \in UPs, OneReader(program, r), Conserved(r) PROVE Conserved(r)'
    <3>1. r = u
      BY <2>2, <2>7, OnlyReader
    <3> QED BY <1>1, <1>3, <2>1, <2>2, <2>3, <2>4, <2>7, <3>1, ReadConserves
  <2> QED BY <2>3, <2>4, <2>5, <2>6, <2>7, TurnKeeps
<1> QED BY <1>2, <1>3

LEMMA DataReadKeeps ==
    ASSUME IInv, ProgramsFit, NEW u \in UPs, DataRead(u) PROVE IInv'
<1> DEFINE n == index[u]
           v == Head(rx)
           area == [k \in Cells |-> IF k = n THEN v ELSE data[u][k]]
<1>1. /\ pc[u] \in DOMAIN program[u] /\ Instr(u).op \in Reads
      /\ UNCHANGED <<program, wire>>
  BY DEF DataRead, Runs, Active, Elsewhere, Reads
<1>2. CASE rx = <<>>
  BY <1>1, <1>2, BlockedKeeps DEF DataRead
<1>3. CASE rx # <<>>
  <2>1. QRead
    BY <1>3 DEF DataRead
  <2>2. /\ out' = v /\ v \in Sendable /\ v \in Values
        /\ rx' \in Seq(Sendable) /\ UNCHANGED <<tx, mode>>
    BY <1>3, <2>1, ReadIs
  <2>3. /\ data' = [data EXCEPT ![u] = [k \in Cells |-> IF k = n THEN v ELSE data[u][k]]]
        /\ IF Ends(u, v)
           THEN /\ Finish(u)
                /\ line' = [k \in 1..(n + 1) |-> data'[u][k - 1]]
                /\ reader' = Instr(u).op
                /\ owed' = SubSeq(owed, n + 2, Len(owed))
           ELSE Continue(u, n + 1) /\ UNCHANGED <<owed, line, reader>>
    BY <1>3, <2>2 DEF DataRead
  <2> HIDE DEF v
  <2>4. /\ n \in Cells /\ n \in Nat /\ Max \in Nat /\ data \in [UPs -> [Cells -> Values]]
        /\ \A k \in 0..(n - 1) : data[u][k] \in Sendable /\ k \in Cells
        /\ Instr(u).op = "data_readln" => \A k \in 0..(n - 1) : data[u][k] # Stop
    <3>1. /\ index \in [UPs -> Cells] /\ data \in [UPs -> [Cells -> Values]] /\ Place(u)
          /\ Max \in Nat
      BY UserAssumption DEF IInv, TypesOK
    <3>2. /\ n \in Cells /\ n \in Nat /\ \A k \in 0..(n - 1) : k \in Cells
      BY <3>1 DEF Cells
    <3>3. \A k \in 0..(n - 1) : data[u][k] \in Sendable
      BY <1>1, <3>1 DEF Place, At
    <3>4. Instr(u).op = "data_readln" => \A k \in 0..(n - 1) : data[u][k] # Stop
      BY <1>1, <3>1 DEF Place, At
    <3> QED BY <3>1, <3>2, <3>3, <3>4
  <2>5. /\ data' \in [UPs -> [Cells -> Values]] /\ data'[u] = area
        /\ \A w \in UPs \ {u} : data'[w] = data[w]
    BY <2>2, <2>3, <2>4
  <2>6. /\ area[n] = v /\ \A k \in 0..(n - 1) : area[k] = data[u][k] /\ area[k] \in Sendable
        /\ Instr(u).op = "data_readln" => \A k \in 0..(n - 1) : area[k] # Stop
    BY <2>4
  <2> HIDE DEF area
  <2>7. \A k \in 0..n : area[k] \in Sendable
    BY <2>2, <2>4, <2>6
  <2>8. At(u, Reads) /\ At(u, Reads \cup {"read"})
    BY <1>1 DEF At, Reads
  <2>9. CASE Ends(u, v)
    <3>1. /\ Finish(u) /\ reader' = Instr(u).op
          /\ line' = [k \in 1..(n + 1) |-> area[k - 1]]
          /\ owed' = SubSeq(owed, n + 2, Len(owed))
      BY <2>3, <2>5, <2>9
    <3>2. OthersKept(u) /\ Typed
      BY <1>1, <2>5, <3>1, FinishIs DEF OthersKept, Typed
    <3>3. Place(u)' /\ Stored(u)' = <<>>
      BY <1>1, <3>1, TransferDone DEF Reads
    <3>4. TypesOK'
      BY <1>1, <2>2, <3>2 DEF IInv, TypesOK, Typed
    <3>5. LineOK'
      <4>1. n + 1 \in Nat /\ \A k \in 0..((n + 1) - 1) : area[k] \in Sendable
        BY <2>4, <2>7
      <4>2. line' \in Seq(Sendable) /\ Len(line') = n + 1
        BY <3>1, <4>1, FirstBytes
      <4>3. line'[n + 1] = v /\ \A k \in 1..n : line'[k] = area[k - 1] /\ k - 1 \in 0..(n - 1)
        BY <2>4, <2>6, <3>1
      <4>4. (v = Stop /\ Instr(u).op = "data_readln") \/ n + 1 = Max
        BY <2>9 DEF Ends
      <4>5. Instr(u).op = "data_readln" => \A k \in 1..n : line'[k] # Stop
        BY <2>6, <4>3
      <4>6. Len(line') >= 1 /\ Len(line') - 1 = n
        BY <2>4, <4>2
      <4> QED BY <3>1, <4>2, <4>3, <4>4, <4>5, <4>6 DEF LineOK
    <3>6. ASSUME NEW r \in UPs, OneReader(program, r), Conserved(r) PROVE Conserved(r)'
      <4>1. r = u
        BY <2>8, <3>6, OnlyReader
      <4> QED BY <1>1, <1>3, <2>1, <2>8, <3>1, <3>2, <3>3, <3>6, <4>1, ReadConserves
    <3> QED BY <3>2, <3>3, <3>4, <3>5, <3>6, TurnKeeps
  <2>10. CASE ~Ends(u, v)
    <3>1. Continue(u, n + 1) /\ UNCHANGED <<owed, line, reader>>
      BY <2>3, <2>10
    <3>2. n + 1 \in Cells /\ (Instr(u).op = "data_readln" => v # Stop)
      BY <2>4, <2>10 DEF Ends, Cells
    <3>3. /\ pc' = pc /\ index' \in [UPs -> Cells] /\ index'[u] = n + 1
          /\ \A w \in UPs \ {u} : index'[w] = index[w]
      BY <3>1, <3>2, ContinueIs
    <3>4. OthersKept(u) /\ Typed
      BY <1>1, <2>5, <3>3 DEF OthersKept, Typed, IInv, TypesOK
    <3>5. TypesOK'
      BY <1>1, <2>2, <3>4 DEF IInv, TypesOK, Typed
    <3>6. LineOK'
      BY <3>1 DEF IInv, LineOK
    <3>7. Instr(u)' = Instr(u) /\ pc'[u] \in DOMAIN program'[u]
      BY <1>1, <3>3 DEF Instr
    <3>8. Place(u)'
      <4>1. /\ At(u, {"data_write"} \cup Reads)' /\ ~At(u, {"data_write"})'
            /\ At(u, {"data_readln"})' => Instr(u).op = "data_readln"
        BY <1>1, <3>7 DEF At, Reads
      <4>2. \A k \in 0..((n + 1) - 1) : k \in 0..n /\ (k = n \/ k \in 0..(n - 1))
        BY <2>4
      <4>4. \A k \in 0..((n + 1) - 1) : area[k] \in Sendable
        BY <2>7, <4>2
      <4>5. Instr(u).op = "data_readln" => \A k \in 0..((n + 1) - 1) : area[k] # Stop
        BY <2>6, <3>2, <4>2
      <4>6. At(u, Reads)'
        BY <1>1, <3>7 DEF At
      <4> QED BY <1>1, <2>5, <3>3, <4>1, <4>4, <4>5, <4>6 DEF Place
    <3>9. Stored(u)' = Append(Stored(u), v)
      <4>1. Stored(u) = [k \in 1..n |-> data[u][k - 1]]
        BY <1>1 DEF Stored, Reads
      <4>2. Stored(u)' = [k \in 1..(n + 1) |-> area[k - 1]]
        BY <1>1, <2>5, <3>3, <3>7 DEF Stored, Reads
      <4>3. /\ \A k \in 0..(n - 1) : data[u][k] \in Sendable /\ area[k] = data[u][k]
            /\ area[n] \in Sendable
        BY <2>2, <2>4, <2>6
      <4> HIDE DEF n
      <4>4. OneMore(n, data[u], area)
        BY <2>4, <4>3, OneMoreByte
      <4> QED BY <2>6, <4>1, <4>2, <4>4 DEF OneMore
    <3>10. ASSUME NEW r \in UPs, OneReader(program, r), Conserved(r) PROVE Conserved(r)'
      <4>1. r = u
        BY <2>8, <3>10, OnlyReader
      <4> QED BY <1>1, <1>3, <2>1, <3>1, <3>4, <3>9, <3>10, <4>1, ReadConserves DEF v
    <3> QED BY <3>4, <3>5, <3>6, <3>8, <3>10, TurnKeeps
  <2> QED BY <2>9, <2>10
<1> QED BY <1>2, <1>3

------------------------------------------------------------------------------
(* The invariant *)

LEMMA InitIInv == ASSUME ProgramsFit, Init PROVE IInv
<1>1. TypesOK
  <2>1. <<>> \in Seq(Sendable) /\ Len(<<>>) = 0 /\ 0 \in Cells /\ NUL \in Values
    BY UserAssumption DEF Cells
  <2>2. TxCapacity("BIDI") \in Nat
    BY SizeAssumption DEF TxCapacity
  <2> QED BY <2>1, <2>2 DEF Init, QInit, TypesOK
<1>2. LineOK
  BY DEF Init, LineOK, Reads
<1>3. ASSUME NEW u \in UPs PROVE Place(u) /\ Stored(u) = <<>>
  <2>1. index[u] = 0 /\ pc[u] = 1
    BY <1>3 DEF Init
  <2>2. ~HasString(program[u], 1)
    BY DEF HasString
  <2>3. WritesStrings(program)
    BY <1>1 DEF TypesOK, ProgramsFit
  <2>4. ~At(u, {"data_write"})
    BY <2>1, <2>2, <2>3 DEF At, Instr, WritesStrings
  <2>5. \A k \in 0..(0 - 1) : FALSE
    OBVIOUS
  <2>6. Place(u)
    BY <2>1, <2>2, <2>4, <2>5 DEF Place
  <2>7. Stored(u) = <<>>
    BY <2>1, NoBytes DEF Stored
  <2> QED BY <2>6, <2>7
<1>4. \E r \in UPs : OneReader(program, r) /\ Conserved(r)
  <2>1. PICK r \in UPs : OneReader(program, r)
    BY <1>1 DEF TypesOK, ProgramsFit
  <2>2. Conserved(r)
    BY <1>3 DEF Init, QInit, Conserved, OnTheWire
  <2> QED BY <2>1, <2>2
<1> QED BY <1>1, <1>2, <1>3, <1>4 DEF IInv

\* The state machine moves a byte from one queue to the other.
LEMMA MachineKeeps == ASSUME IInv, SmPull \/ SmPush PROVE IInv'
<1>1. /\ tx \in Seq(Sendable) /\ rx \in Seq(Sendable) /\ wire \in Sendable \cup {None}
      /\ mode = "BIDI" /\ Len(tx) <= TxCapacity(mode) /\ TxCapacity("BIDI") \in Nat
  BY SizeAssumption DEF IInv, TypesOK, TxCapacity
<1>2. None \notin Sendable
  BY UserAssumption DEF Sendable
<1>3. UNCHANGED <<program, pc, data, index, owed, line, reader>>
  BY DEF SmPull, SmPush
<1>4. /\ tx' \in Seq(Sendable) /\ rx' \in Seq(Sendable) /\ wire' \in Sendable \cup {None}
      /\ mode' = mode /\ Len(tx') <= TxCapacity(mode)
      /\ \A s \in Seq(Sendable) : s \o rx' \o OnTheWire' \o tx' = s \o rx \o OnTheWire \o tx
  <2>1. CASE SmPull
    <3>1. /\ tx # <<>> /\ wire = None /\ wire' = Head(tx) /\ tx' = Tail(tx)
          /\ rx' = rx /\ mode' = mode
      BY <2>1 DEF SmPull, QPull
    <3>2. Head(tx) \in Sendable /\ Tail(tx) \in Seq(Sendable) /\ Len(Tail(tx)) <= Len(tx)
      BY <1>1, <3>1
    <3>3. OnTheWire = <<>> /\ OnTheWire' = <<Head(tx)>>
      BY <1>2, <3>1, <3>2 DEF OnTheWire
    <3>4. ASSUME NEW s \in Seq(Sendable)
          PROVE  s \o rx' \o OnTheWire' \o tx' = s \o rx \o OnTheWire \o tx
      <4>1. s \o rx \in Seq(Sendable)
        BY <1>1
      <4> QED BY <1>1, <3>1, <3>3, <4>1, WirePulled
    <3>5. Len(tx') <= TxCapacity(mode)
      BY <1>1, <3>1, <3>2
    <3> QED BY <1>1, <3>1, <3>2, <3>4, <3>5
  <2>2. CASE SmPush
    <3>1. /\ wire # None /\ wire' = None /\ rx' = Append(rx, wire)
          /\ tx' = tx /\ mode' = mode
      BY <2>2 DEF SmPush, QPush
    <3>2. wire \in Sendable /\ Append(rx, wire) \in Seq(Sendable)
      BY <1>1, <3>1
    <3>3. OnTheWire = <<wire>> /\ OnTheWire' = <<>>
      BY <3>1 DEF OnTheWire
    <3>4. ASSUME NEW s \in Seq(Sendable)
          PROVE  s \o rx' \o OnTheWire' \o tx' = s \o rx \o OnTheWire \o tx
      BY <1>1, <3>1, <3>2, <3>3, WirePushed
    <3> QED BY <1>1, <3>1, <3>2, <3>4
  <2> QED BY <2>1, <2>2
<1>5. TypesOK'
  BY <1>3, <1>4 DEF IInv, TypesOK
<1>6. LineOK'
  BY <1>3 DEF IInv, LineOK
<1>7. ASSUME NEW u \in UPs PROVE Place(u)' /\ (Conserved(u) => Conserved(u)')
  <2>1. Place(u)' = Place(u) /\ Stored(u)' = Stored(u)
    BY <1>3, PlaceKept
  <2>2. Stored(u) \in Seq(Sendable)
    BY StoredType
  <2> QED BY <1>3, <1>4, <2>1, <2>2 DEF Conserved, IInv
<1> QED BY <1>3, <1>5, <1>6, <1>7 DEF IInv

LEMMA IInvInductive == ASSUME ProgramsFit, IInv, [Next]_vars PROVE IInv'
<1>1. CASE SmPull \/ SmPush
  BY <1>1, MachineKeeps
<1>2. CASE \E u \in UPs : UserTurn(u)
  <2>1. PICK u \in UPs : UserTurn(u)
    BY <1>2
  <2>2. CASE DelayTurn(u)
    BY <2>2, DelayKeeps
  <2>3. CASE Write(u)
    BY <2>3, WriteKeeps
  <2>4. CASE Read(u)
    BY <2>4, ReadKeeps
  <2>5. CASE DataWrite(u)
    BY <2>5, DataWriteKeeps
  <2>6. CASE DataRead(u)
    BY <2>6, DataReadKeeps
  <2>7. CASE DataSet(u)
    BY <2>7, DataSetKeeps
  <2>8. CASE DataClear(u)
    BY <2>8, DataClearKeeps
  <2>9. CASE Show(u) \/ Repeat(u) \/ Exit(u)
    BY <2>9, ShowKeeps
  <2> QED BY <2>1, <2>2, <2>3, <2>4, <2>5, <2>6, <2>7, <2>8, <2>9 DEF UserTurn
<1>3. CASE UNCHANGED vars
  <2>1. UNCHANGED <<qvars, program, wire, owed, line, reader>> /\ pc' = pc /\ index' = index /\ data' = data
    BY <1>3 DEF vars, uvars
  <2>2. PICK r \in UPs : OneReader(program, r)
    BY DEF IInv
  <2> QED BY <2>1, <2>2, StillKeeps
<1>4. CASE Idle
  BY <1>3, <1>4 DEF Idle
<1> QED BY <1>1, <1>2, <1>3, <1>4 DEF Next

LEMMA AlwaysIInv == ProgramsFit /\ Spec => []IInv
<1> SUFFICES ASSUME ProgramsFit PROVE Spec => []IInv
  OBVIOUS
<1>1. Init => IInv
  BY InitIInv
<1>2. IInv /\ [Next]_vars => IInv'
  BY IInvInductive
<1> QED BY <1>1, <1>2, PTL DEF Spec

------------------------------------------------------------------------------
(* The theorems *)

\* Every byte written is, once and in its place, stored, queued or under way, and no
\* transfer leaves its data area, however the turns of the processors and of the
\* state machine fall.
THEOREM BytesInOrder == ProgramsFit /\ Spec => []BytesArriveInOrder
<1>1. IInv => BytesArriveInOrder
  <2> SUFFICES ASSUME IInv PROVE BytesArriveInOrder
    OBVIOUS
  <2>1. PICK r \in UPs : OneReader(program, r) /\ Conserved(r)
    BY DEF IInv
  <2>2. \A w \in UPs \ {r} : Stored(w) = <<>>
    BY <2>1, NothingStored DEF OneReader, At, Instr
  <2>3. owed = Stored(r) \o rx \o (IF wire = None THEN <<>> ELSE <<wire>>) \o tx
    BY <2>1 DEF Conserved, OnTheWire
  <2>4. index \in [UPs -> Cells]
    BY DEF IInv, TypesOK
  <2> QED BY <2>2, <2>3, <2>4 DEF BytesArriveInOrder
<1> QED BY <1>1, AlwaysIInv, PTL

\* A line read ends at its first stop or where the data area ends, and has no byte
\* that was never sent.
THEOREM WholeLines == ProgramsFit /\ ~NulWritten /\ Spec => []LinesAreWhole
<1> SUFFICES ASSUME ~NulWritten PROVE ProgramsFit /\ Spec => []LinesAreWhole
  OBVIOUS
<1>1. IInv => LinesAreWhole
  <2> SUFFICES ASSUME IInv PROVE LinesAreWhole
    OBVIOUS
  <2>1. ASSUME reader \in Reads, NEW k \in DOMAIN line PROVE line[k] # NUL
    <3>1. line \in Seq(Sendable)
      BY <2>1 DEF IInv, LineOK
    <3>2. line[k] \in Sendable
      BY <2>1, <3>1
    <3> QED BY <3>2 DEF Sendable
  <2> QED BY <2>1 DEF IInv, LineOK, LinesAreWhole, Reads
<1> QED BY <1>1, AlwaysIInv, PTL

-----------------------------------------------------------------------------
(* The shift path                                                          *)

USE DEF Modes, Instruction, WordBits, CountMod, Unset

-----------------------------------------------------------------------------
(* The inductive invariant *)

\* The queues and what the last transfer answered.  The types and NeverRefused
\* need each other: a transfer is tried on the fill state alone.
QueuesOK ==
    /\ mode \in Modes /\ ret \in BOOLEAN /\ out \in Values
    /\ tx \in Seq(Values) /\ Len(tx) <= TxCapacity(mode)
    /\ rx \in Seq(Values) /\ Len(rx) <= RxCapacity(mode)
    /\ NeverRefused

\* The configuration.
ConfigOK ==
    /\ shiftctl \in [autopush : BOOLEAN, autopull : BOOLEAN,
                     push : {Unset} \cup 0..31, pull : {Unset} \cup 0..31]
    /\ instr \in Instructions /\ stalled \in BOOLEAN

\* The ISR.  Under autopush the counter is below the size of a word, but for an
\* IN that stalled, which shifts again at every turn.
InOK ==
    /\ shift_in_count \in 0..(CountMod - 1) /\ isr_full \in BOOLEAN /\ collected \in 0..WordBits
    /\ shiftctl.autopush => shift_in_count < WordBits \/ (stalled /\ instr.op = "IN")

\* The OSR.  PulledWordIsSentWhole alone is not inductive: the flag is computed
\* from the counter, which must say how many bits of a pulled word are gone.
OutOK ==
    /\ shift_out_count \in 0..WordBits /\ osr_empty \in BOOLEAN
    /\ shifted_out \in 0..WordBits /\ waited_for \in BOOLEAN
    /\ PulledWordIsSentWhole
    /\ waited_for /\ ~osr_empty => shift_out_count = shifted_out

ShiftInv == QueuesOK /\ ConfigOK /\ InOK /\ OutOK

\* What the state machine is told to do.
LEMMA InstructionType ==
    ASSUME ConfigOK
    PROVE  /\ instr.op \in {"IN", "OUT", "PUSH", "PULL", "MOV_OSR"}
           /\ instr.n \in 0..WordBits /\ instr.cond \in BOOLEAN /\ instr.block \in BOOLEAN
           /\ shiftctl.autopush \in BOOLEAN /\ shiftctl.autopull \in BOOLEAN
           /\ shiftctl.push \in {Unset} \cup 0..31 /\ shiftctl.pull \in {Unset} \cup 0..31
  BY ShiftAssumption DEF ConfigOK

\* Both directions have room when the FIFOs are separate.
LEMMA Capacities ==
    ASSUME mode \in Modes
    PROVE  /\ TxCapacity(mode) \in Nat /\ RxCapacity(mode) \in Nat
           /\ mode = "BIDI" => TxCapacity(mode) > 0 /\ RxCapacity(mode) > 0
  BY SizeAssumption DEF TxCapacity, RxCapacity

-----------------------------------------------------------------------------
(* The transfers, each under the test its caller makes *)

\* The queues do not change when no transfer is made.
LEMMA NoTransferKeeps == QueuesOK /\ UNCHANGED qvars => QueuesOK'
  BY DEF QueuesOK, qvars, NeverRefused, TxCapacity, RxCapacity

\* PUSH and autopush test rx_state; the user's WRITE tests tx_state.
LEMMA PushKeeps == QueuesOK /\ ~RxFull /\ (\E v \in Values : QPush(v)) => QueuesOK'
<1> SUFFICES ASSUME QueuesOK, ~RxFull, NEW v \in Values, QPush(v) PROVE QueuesOK'
  OBVIOUS
<1>1. CASE Len(rx) < RxCapacity(mode)
  <2>1. /\ rx' = Append(rx, v) /\ ret' = TRUE /\ UNCHANGED <<mode, tx, out>>
    BY <1>1 DEF QPush
  <2>2. rx' \in Seq(Values) /\ Len(rx') = Len(rx) + 1
    BY <2>1, AppendProperties DEF QueuesOK
  <2>3. Len(rx') <= RxCapacity(mode)
    BY <1>1, <2>2, Capacities, LenProperties DEF QueuesOK
  <2> QED BY <2>1, <2>2, <2>3 DEF QueuesOK, NeverRefused, TxCapacity, RxCapacity
<1>2. CASE ~(Len(rx) < RxCapacity(mode))
  <2>1. QRefuse
    BY <1>2 DEF QPush
  <2>2. RxCapacity(mode) = 0
    BY <1>2, Capacities, LenProperties DEF QueuesOK, RxFull
  <2>3. mode # "BIDI"
    BY <2>2, Capacities DEF QueuesOK
  <2> QED BY <2>1, <2>3 DEF QRefuse, QueuesOK, NeverRefused, TxCapacity, RxCapacity
<1> QED BY <1>1, <1>2

LEMMA UserWriteKeeps == QueuesOK /\ ~TxFull /\ (\E v \in Values : QWrite(v)) => QueuesOK'
<1> SUFFICES ASSUME QueuesOK, ~TxFull, NEW v \in Values, QWrite(v) PROVE QueuesOK'
  OBVIOUS
<1>1. CASE Len(tx) < TxCapacity(mode)
  <2>1. /\ tx' = Append(tx, v) /\ ret' = TRUE /\ UNCHANGED <<mode, rx, out>>
    BY <1>1 DEF QWrite
  <2>2. tx' \in Seq(Values) /\ Len(tx') = Len(tx) + 1
    BY <2>1, AppendProperties DEF QueuesOK
  <2>3. Len(tx') <= TxCapacity(mode)
    BY <1>1, <2>2, Capacities, LenProperties DEF QueuesOK
  <2> QED BY <2>1, <2>2, <2>3 DEF QueuesOK, NeverRefused, TxCapacity, RxCapacity
<1>2. CASE ~(Len(tx) < TxCapacity(mode))
  <2>1. QRefuse
    BY <1>2 DEF QWrite
  <2>2. TxCapacity(mode) = 0
    BY <1>2, Capacities, LenProperties DEF QueuesOK, TxFull
  <2>3. mode # "BIDI"
    BY <2>2, Capacities DEF QueuesOK
  <2> QED BY <2>1, <2>3 DEF QRefuse, QueuesOK, NeverRefused, TxCapacity, RxCapacity
<1> QED BY <1>1, <1>2

\* PULL and autopull test tx_state; the user's READ tests rx_state.
LEMMA PullKeeps == QueuesOK /\ tx # <<>> /\ QPull => QueuesOK'
<1> SUFFICES ASSUME QueuesOK, tx # <<>>, QPull PROVE QueuesOK'
  OBVIOUS
<1>1. /\ out' = Head(tx) /\ tx' = Tail(tx) /\ ret' = TRUE /\ UNCHANGED <<mode, rx>>
  BY DEF QPull
<1>2. Head(tx) \in Values /\ Tail(tx) \in Seq(Values) /\ Len(Tail(tx)) = Len(tx) - 1
  BY HeadTailProperties DEF QueuesOK
<1>3. Len(tx') <= TxCapacity(mode)
  BY <1>1, <1>2, Capacities, LenProperties DEF QueuesOK
<1> QED BY <1>1, <1>2, <1>3 DEF QueuesOK, NeverRefused, TxCapacity, RxCapacity

LEMMA UserReadKeeps == QueuesOK /\ rx # <<>> /\ QRead => QueuesOK'
<1> SUFFICES ASSUME QueuesOK, rx # <<>>, QRead PROVE QueuesOK'
  OBVIOUS
<1>1. /\ out' = Head(rx) /\ rx' = Tail(rx) /\ ret' = TRUE /\ UNCHANGED <<mode, tx>>
  BY DEF QRead
<1>2. Head(rx) \in Values /\ Tail(rx) \in Seq(Values) /\ Len(Tail(rx)) = Len(rx) - 1
  BY HeadTailProperties DEF QueuesOK
<1>3. Len(rx') <= RxCapacity(mode)
  BY <1>1, <1>2, Capacities, LenProperties DEF QueuesOK
<1> QED BY <1>1, <1>2, <1>3 DEF QueuesOK, NeverRefused, TxCapacity, RxCapacity

-----------------------------------------------------------------------------
(* What an instruction leaves in the registers *)

\* However an instruction ends, the state machine is at an instruction and its
\* configuration is what it was.
LEMMA EndKeepsConfig == ConfigOK /\ (Complete \/ Stall) /\ UNCHANGED shiftctl => ConfigOK'
  BY DEF ConfigOK, Complete, Stall

\* An instruction other than IN leaves the ISR alone or sends it.
LEMMA IsrKept ==
    ASSUME InOK, ConfigOK, instr.op # "IN", UNCHANGED shiftctl,
           \/ UNCHANGED smIn
           \/ shift_in_count' = 0 /\ isr_full' = FALSE /\ collected' = 0
    PROVE  InOK'
<1>1. shiftctl.autopush => shift_in_count < WordBits
  BY DEF InOK
<1>2. shift_in_count' \in 0..(CountMod - 1) /\ collected' \in 0..WordBits
  BY DEF InOK, smIn
<1>3. isr_full' \in BOOLEAN
  BY Zenon DEF InOK, smIn
<1>4. shiftctl.autopush => shift_in_count' < WordBits
  BY <1>1 DEF smIn
<1> QED BY <1>2, <1>3, <1>4 DEF InOK

\* An IN that sends the ISR, stalls over it or shifts into it.  Not sent and not
\* stalled, it leaves less than a word and less than the threshold.
LEMMA InKeeps == InOK /\ ConfigOK /\ UNCHANGED shiftctl /\ In => InOK'
<1> SUFFICES ASSUME InOK, ConfigOK, UNCHANGED shiftctl, In PROVE InOK'
  OBVIOUS
<1> DEFINE count == (shift_in_count + instr.n) % CountMod
           full  == Reached(shiftctl.push, count)
<1>1. count \in 0..(CountMod - 1)
  <2>1. shift_in_count \in Nat /\ instr.n \in Nat
    BY InstructionType DEF InOK
  <2> QED BY <2>1
<1>2. \/ PushIsr
      \/ shift_in_count' = count /\ isr_full' = TRUE /\ UNCHANGED collected /\ Stall
      \/ /\ ~(full /\ shiftctl.autopush) /\ shift_in_count' = count
         /\ isr_full' = (isr_full \/ full) /\ collected' = AtMostWord(collected + instr.n)
  BY DEF In
<1>3. instr.op = "IN"
  BY DEF In
<1>4. full <=> (shiftctl.push > 0 /\ count >= shiftctl.push) \/ count >= WordBits
  BY DEF Reached
<1> HIDE DEF count, full
<1>5. CASE PushIsr
  <2>1. shift_in_count' = 0 /\ collected' = 0
    BY <1>5 DEF PushIsr
  <2>2. isr_full' \in BOOLEAN
    BY <1>5, Zenon DEF PushIsr
  <2> QED BY <2>1, <2>2 DEF InOK
<1>6. CASE shift_in_count' = count /\ isr_full' = TRUE /\ UNCHANGED collected /\ Stall
  BY <1>1, <1>3, <1>6 DEF InOK, Stall
<1>7. CASE /\ ~(full /\ shiftctl.autopush) /\ shift_in_count' = count
           /\ isr_full' = (isr_full \/ full) /\ collected' = AtMostWord(collected + instr.n)
  <2>1. isr_full' \in BOOLEAN
    BY <1>7, Zenon
  <2>2. collected' \in 0..WordBits
    BY <1>7, InstructionType DEF InOK, AtMostWord
  <2>3. shiftctl.autopush => count < WordBits
    BY <1>1, <1>4, <1>7
  <2> QED BY <1>1, <1>7, <2>1, <2>2, <2>3 DEF InOK
<1> QED BY <1>2, <1>5, <1>6, <1>7

\* The OSR is left alone.
LEMMA OsrKept == OutOK /\ UNCHANGED shiftctl /\ UNCHANGED smOut => OutOK'
  BY DEF OutOK, smOut, PulledWordIsSentWhole, OsrEmptyWhenShiftedOut, Reached

\* A threshold is not reached before the first bit.
LEMMA NothingShifted ==
    ASSUME ConfigOK PROVE ~Reached(shiftctl.pull, 0)
  BY InstructionType DEF Reached

\* A pulled word has given up no bit yet.
LEMMA PullToOsrKeeps == ConfigOK /\ UNCHANGED shiftctl /\ PullToOsr => OutOK'
<1> SUFFICES ASSUME ConfigOK, UNCHANGED shiftctl, PullToOsr PROVE OutOK'
  OBVIOUS
<1>1. shift_out_count' = 0 /\ shifted_out' = 0
  BY DEF PullToOsr, LoadOsr
<1>2. osr_empty' = FALSE /\ waited_for' = TRUE
  BY DEF PullToOsr, LoadOsr
<1>3. ~Reached(shiftctl.pull, shifted_out)'
  BY <1>1, NothingShifted DEF Reached
<1>4. osr_empty' \in BOOLEAN /\ waited_for' \in BOOLEAN
  BY <1>2, Zenon
<1> QED BY <1>1, <1>2, <1>3, <1>4 DEF OutOK, PulledWordIsSentWhole, OsrEmptyWhenShiftedOut

\* n bits leave the OSR.
LEMMA ShiftOutKeeps ==
    ASSUME ConfigOK, UNCHANGED shiftctl, NEW count \in 0..WordBits, NEW shifted \in 0..WordBits,
           NEW n \in 0..WordBits, ShiftOut(count, shifted, n), waited_for' \in BOOLEAN,
           waited_for' => count = shifted
    PROVE  OutOK'
<1>1. shift_out_count' \in 0..WordBits /\ shifted_out' \in 0..WordBits
  BY DEF ShiftOut, AtMostWord
<1>2. osr_empty' = Reached(shiftctl.pull, shift_out_count')
  BY DEF ShiftOut
<1>3. osr_empty' \in BOOLEAN
  BY <1>1, <1>2, InstructionType DEF Reached
<1>4. waited_for' => shift_out_count' = shifted_out'
  BY DEF ShiftOut
<1> QED BY <1>1, <1>2, <1>3, <1>4 DEF OutOK, PulledWordIsSentWhole, OsrEmptyWhenShiftedOut

\* PULL: nothing, a stall, scratch x instead of a word, or the next word.
LEMMA PullKeepsOsr == OutOK /\ ConfigOK /\ UNCHANGED shiftctl /\ Pull => OutOK'
<1> SUFFICES ASSUME OutOK, ConfigOK, UNCHANGED shiftctl, Pull PROVE OutOK'
  OBVIOUS
<1>1. CASE UNCHANGED smOut
  BY <1>1, OsrKept
<1>2. CASE /\ shift_out_count' = 0 /\ shifted_out' = 0 /\ waited_for' = FALSE
           /\ UNCHANGED osr_empty
  <2>1. osr_empty' \in BOOLEAN /\ waited_for' \in BOOLEAN
    BY <1>2, Zenon DEF OutOK
  <2> QED BY <1>2, <2>1 DEF OutOK, PulledWordIsSentWhole
<1>3. CASE PullToOsr
  BY <1>3, PullToOsrKeeps
<1> QED BY <1>1, <1>2, <1>3 DEF Pull

\* OUT: of the word that is there, of the next one, or not at all.
LEMMA OutKeepsOsr == OutOK /\ ConfigOK /\ UNCHANGED shiftctl /\ Out => OutOK'
<1> SUFFICES ASSUME OutOK, ConfigOK, UNCHANGED shiftctl, Out PROVE OutOK'
  OBVIOUS
<1>0. instr.n \in 0..WordBits
  BY InstructionType
<1>1. CASE ~osr_empty /\ ShiftOut(shift_out_count, shifted_out, instr.n) /\ UNCHANGED waited_for
  <2>1. shift_out_count \in 0..WordBits /\ shifted_out \in 0..WordBits
    BY DEF OutOK
  <2>2. waited_for' \in BOOLEAN
    BY <1>1, Zenon DEF OutOK
  <2>3. waited_for' => shift_out_count = shifted_out
    BY <1>1 DEF OutOK
  <2> QED BY <1>0, <1>1, <2>1, <2>2, <2>3, ShiftOutKeeps
<1>2. CASE ShiftOut(0, 0, instr.n) /\ waited_for' = TRUE
  <2>1. waited_for' \in BOOLEAN
    BY <1>2, Zenon
  <2> QED BY <1>0, <1>2, <2>1, ShiftOutKeeps
<1>3. CASE UNCHANGED smOut
  BY <1>3, OsrKept
<1> QED BY <1>1, <1>2, <1>3 DEF Out

\* MOV OSR clears the flag and leaves the counter: its word did not wait.
LEMMA MovOsrKeepsOsr == OutOK /\ MovOsr => OutOK'
<1> SUFFICES ASSUME OutOK, MovOsr PROVE OutOK'
  OBVIOUS
<1>1. /\ osr_empty' = FALSE /\ shifted_out' = 0 /\ waited_for' = FALSE
      /\ UNCHANGED shift_out_count
  BY DEF MovOsr
<1>2. osr_empty' \in BOOLEAN /\ waited_for' \in BOOLEAN
  BY <1>1, Zenon
<1> QED BY <1>1, <1>2 DEF OutOK, PulledWordIsSentWhole

-----------------------------------------------------------------------------
(* The invariant *)

LEMMA InitShiftInv == SInit => ShiftInv
<1> SUFFICES ASSUME SInit PROVE ShiftInv
  OBVIOUS
<1>1. mode \in Modes /\ shiftctl.pull \in {Unset} \cup 0..31
  BY ShiftAssumption DEF SInit
<1>2. QueuesOK
  <2>1. <<>> \in Seq(Values) /\ Len(<<>>) = 0
    OBVIOUS
  <2>2. ret \in BOOLEAN
    BY Zenon DEF SInit
  <2> QED BY <1>1, <2>1, <2>2, Capacities DEF SInit, QueuesOK, NeverRefused
<1>3. ConfigOK
  <2>1. stalled \in BOOLEAN
    BY Zenon DEF SInit
  <2> QED BY <2>1, ShiftAssumption DEF SInit, ConfigOK
<1>4. InOK
  <2>1. isr_full \in BOOLEAN
    BY Zenon DEF SInit
  <2> QED BY <2>1 DEF SInit, InOK
<1>5. OutOK
  <2>1. osr_empty \in BOOLEAN /\ waited_for \in BOOLEAN
    BY Zenon DEF SInit
  <2>2. osr_empty /\ shifted_out = WordBits /\ shift_out_count = 0
    BY DEF SInit
  <2>3. Reached(shiftctl.pull, shifted_out)
    BY <2>2 DEF Reached
  <2> QED BY <2>1, <2>2, <2>3 DEF OutOK, PulledWordIsSentWhole, OsrEmptyWhenShiftedOut
<1> QED BY <1>2, <1>3, <1>4, <1>5 DEF ShiftInv

LEMMA ShiftInvInductive == ShiftInv /\ [SNext]_svars => ShiftInv'
<1> SUFFICES ASSUME ShiftInv, [SNext]_svars PROVE ShiftInv'
  OBVIOUS
<1>0. QueuesOK /\ ConfigOK /\ InOK /\ OutOK
  BY DEF ShiftInv
<1>1. ASSUME Push, UNCHANGED shiftctl PROVE ShiftInv'
  <2>1. instr.op # "IN" /\ (Complete \/ Stall) /\ UNCHANGED smOut
    BY <1>1 DEF Push
  <2>2. \/ UNCHANGED qvars /\ UNCHANGED smIn
        \/ ~RxFull /\ PushIsr
    BY <1>1 DEF Push, NoTransfer
  <2>3. QueuesOK'
    BY <1>0, <2>2, NoTransferKeeps, PushKeeps DEF PushIsr
  <2>4. InOK'
    BY <1>0, <1>1, <2>1, <2>2, IsrKept DEF PushIsr
  <2> QED BY <1>0, <1>1, <2>1, <2>3, <2>4, EndKeepsConfig, OsrKept DEF ShiftInv
<1>2. ASSUME In, UNCHANGED shiftctl PROVE ShiftInv'
  <2>1. (Complete \/ Stall) /\ UNCHANGED smOut
    BY <1>2 DEF In
  <2>2. UNCHANGED qvars \/ (~RxFull /\ PushIsr)
    BY <1>2 DEF In, NoTransfer
  <2>3. QueuesOK'
    BY <1>0, <2>2, NoTransferKeeps, PushKeeps DEF PushIsr
  <2> QED BY <1>0, <1>2, <2>1, <2>3, InKeeps, EndKeepsConfig, OsrKept DEF ShiftInv
<1>3. ASSUME Pull, UNCHANGED shiftctl PROVE ShiftInv'
  <2>1. instr.op # "IN" /\ (Complete \/ Stall) /\ UNCHANGED smIn
    BY <1>3 DEF Pull
  <2>2. UNCHANGED qvars \/ (tx # <<>> /\ QPull)
    BY <1>3 DEF Pull, PullToOsr, NoTransfer
  <2>3. QueuesOK'
    BY <1>0, <2>2, NoTransferKeeps, PullKeeps
  <2> QED BY <1>0, <1>3, <2>1, <2>3, PullKeepsOsr, EndKeepsConfig, IsrKept DEF ShiftInv
<1>4. ASSUME Out, UNCHANGED shiftctl PROVE ShiftInv'
  <2>1. instr.op # "IN" /\ (Complete \/ Stall) /\ UNCHANGED smIn
    BY <1>4 DEF Out
  <2>2. UNCHANGED qvars \/ (tx # <<>> /\ QPull)
    BY <1>4 DEF Out, NoTransfer
  <2>3. QueuesOK'
    BY <1>0, <2>2, NoTransferKeeps, PullKeeps
  <2> QED BY <1>0, <1>4, <2>1, <2>3, OutKeepsOsr, EndKeepsConfig, IsrKept DEF ShiftInv
<1>5. ASSUME MovOsr, UNCHANGED shiftctl PROVE ShiftInv'
  <2>1. instr.op # "IN" /\ Complete /\ UNCHANGED smIn /\ UNCHANGED qvars
    BY <1>5 DEF MovOsr, NoTransfer, smIn
  <2> QED BY <1>0, <1>5, <2>1, NoTransferKeeps, MovOsrKeepsOsr, EndKeepsConfig, IsrKept DEF ShiftInv
<1>6. ASSUME UNCHANGED <<shiftctl, instr, stalled, smIn, smOut>>, QueuesOK' PROVE ShiftInv'
  <2>1. ConfigOK'
    BY <1>0, <1>6 DEF ConfigOK
  <2>2. InOK'
    BY <1>0, <1>6 DEF InOK, smIn
  <2> QED BY <1>0, <1>6, <2>1, <2>2, OsrKept DEF ShiftInv
<1>7. CASE UserWrite
  BY <1>0, <1>6, <1>7, UserWriteKeeps DEF UserWrite
<1>8. CASE UserRead
  BY <1>0, <1>6, <1>8, UserReadKeeps DEF UserRead
<1>9. CASE UNCHANGED svars
  BY <1>0, <1>6, <1>9, NoTransferKeeps DEF svars
<1> QED BY <1>1, <1>2, <1>3, <1>4, <1>5, <1>7, <1>8, <1>9 DEF SNext, ExecInstruction

LEMMA AlwaysShiftInv == SSpec => []ShiftInv
  BY InitShiftInv, ShiftInvInductive, PTL DEF SSpec

-----------------------------------------------------------------------------
(* The theorems *)

\* FIFOs within their capacities, counters within their widths, whatever the
\* program and however it interleaves with the user's.
THEOREM TypeCorrect == SSpec => []STypeOK
<1>1. ShiftInv => STypeOK
  BY DEF ShiftInv, QueuesOK, ConfigOK, InOK, OutOK, STypeOK
<1> QED BY <1>1, AlwaysShiftInv, PTL

\* With separate FIFOs an instruction that tests the fill state and ignores the
\* answer of the transfer never loses a word.
THEOREM NoTransferRefused == SSpec => []NeverRefused
<1>1. ShiftInv => NeverRefused
  BY DEF ShiftInv, QueuesOK
<1> QED BY <1>1, AlwaysShiftInv, PTL

\* The bits of a word from the TX FIFO are all sent and none is sent twice.
THEOREM PulledWordsAreSentWhole == SSpec => []PulledWordIsSentWhole
<1>1. ShiftInv => PulledWordIsSentWhole
  BY DEF ShiftInv, OutOK
<1> QED BY <1>1, AlwaysShiftInv, PTL

\* An IN that completes under autopush leaves fewer bits than the threshold.
THEOREM AutopushInTime == SSpec => AutopushKeepsUp
<1> DEFINE Kept == shiftctl.autopush /\ ~stalled /\ collected <= shift_in_count /\ collected' > collected
                      => collected' < WordBits /\ (shiftctl.push > 0 => collected' < shiftctl.push)
<1>1. ASSUME ShiftInv, [SNext]_svars, shiftctl.autopush, ~stalled, collected <= shift_in_count,
             collected' > collected
      PROVE  collected' < WordBits /\ (shiftctl.push > 0 => collected' < shiftctl.push)
  <2>1. ConfigOK /\ InOK
    BY <1>1 DEF ShiftInv
  <2>2. collected \in Nat /\ shift_in_count \in 0..31 /\ instr.n \in 0..32
    BY <1>1, <2>1, InstructionType DEF InOK
  <2>3. collected' # collected /\ collected' # 0
    BY <1>1, <2>2
  <2>4. In
    BY <1>1, <2>3 DEF SNext, ExecInstruction, Push, Pull, Out, MovOsr, UserWrite, UserRead,
                      PushIsr, smIn, svars
  <2> DEFINE count == (shift_in_count + instr.n) % CountMod
  <2>5. ~Reached(shiftctl.push, count) /\ collected' = AtMostWord(collected + instr.n)
    BY <1>1, <2>3, <2>4 DEF In, PushIsr
  <2>6. count = shift_in_count + instr.n
    BY <2>2
  <2>7. collected + instr.n < WordBits
    BY <1>1, <2>2, <2>5, <2>6 DEF Reached
  <2>8. collected' = collected + instr.n
    BY <2>2, <2>5, <2>7 DEF AtMostWord
  <2>9. ~(shiftctl.push > 0 /\ count >= shiftctl.push)
    BY <2>5 DEF Reached
  <2>10. shiftctl.push \in Int
    BY <2>1, InstructionType
  <2> HIDE DEF count
  <2>11. count \in Int
    BY <2>2, <2>6
  <2> QED BY <1>1, <2>2, <2>6, <2>7, <2>8, <2>9, <2>10, <2>11
<1>2. ShiftInv /\ [SNext]_svars => [Kept]_svars
  BY <1>1
<1> QED BY <1>2, AlwaysShiftInv, PTL DEF SSpec, AutopushKeepsUp
===============================================================================
