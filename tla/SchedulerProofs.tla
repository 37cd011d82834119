---------------------------- MODULE SchedulerProofs ----------------------------
(***************************************************************************)
(* What holds of the scheduler for any number of state machines, user      *)
(* processors and interrupt handlers and any user instructions: types,     *)
(* that a prefetched instruction is never stale, the alternation of user   *)
(* and state machine turns, the round robin within each side, and which    *)
(* interrupt handler is enabled.                                           *)
(***************************************************************************)
EXTENDS Scheduler, FiniteSetTheorems, WellFoundedInduction, TLAPS

-----------------------------------------------------------------------------
(* The searches *)

\* A set of naturals has a least element.
LEMMA Least ==
    ASSUME NEW T, T \subseteq Nat, T # {}
    PROVE  \E x \in T : \A y \in T : x <= y
<1>1. IsWellFoundedOn(OpToRel(<, Nat), Nat)
  BY NatLessThanWellFounded
<1>2. PICK x \in T : \A y \in T : ~(<<y, x>> \in OpToRel(<, Nat))
  BY <1>1, WFMin
<1>3. \A y \in T : ~(y < x)
  BY <1>2 DEF OpToRel
<1> QED BY <1>3

\* A search takes the first look that finds an instruction, and otherwise leaves
\* the cursor at the last look.
LEMMA FindFirstHit ==
    ASSUME NEW n \in Nat \ {0}, NEW S, NEW order \in [1..n -> S], NEW run
    PROVE  \/ /\ \A k \in 1..n : order[k] \notin run
              /\ Find(order, run) = [cursor |-> order[n], found |-> None]
           \/ \E k \in 1..n : /\ order[k] \in run
                              /\ \A j \in 1..n : order[j] \in run => k <= j
                              /\ Find(order, run) = [cursor |-> order[k], found |-> order[k]]
<1> DEFINE hits == {k \in DOMAIN order : order[k] \in run}
           first == CHOOSE k \in hits : \A j \in hits : k <= j
<1>1. DOMAIN order = 1..n /\ Cardinality(1..n) = n
  BY FS_Interval
<1>2. Find(order, run) = IF hits = {} THEN [cursor |-> order[n], found |-> None]
                         ELSE [cursor |-> order[first], found |-> order[first]]
  BY <1>1 DEF Find
<1>3. CASE hits = {}
  BY <1>1, <1>2, <1>3
<1>4. CASE hits # {}
  <2>1. hits \subseteq Nat
    BY <1>1
  <2>2. \E k \in hits : \A j \in hits : k <= j
    <3> HIDE DEF hits
    <3> QED BY <1>4, <2>1, Least
  <2>3. first \in hits /\ \A j \in hits : first <= j
    <3> HIDE DEF hits
    <3> QED BY <2>2
  <2> HIDE DEF first
  <2> QED BY <1>1, <1>2, <1>4, <2>3
<1> QED BY <1>3, <1>4

\* A number below twice the modulus.
LEMMA SmallMod ==
    ASSUME NEW n \in Nat \ {0}, NEW a \in Nat, a < n + n
    PROVE  a % n = IF a < n THEN a ELSE a - n
  OBVIOUS

\* How many looks after the cursor p is come to, itself last: round n places.
Fwd(n, cursor, p) == IF p > cursor THEN p - cursor ELSE p - cursor + n

\* A search of the state machines looks at every one of them, in order.
LEMMA SmOrderIs ==
    ASSUME NEW cursor \in SMs \cup {None}
    PROVE  /\ SmOrder(cursor) \in [1..NumSMs -> SMs]
           /\ \A s \in SMs : /\ Fwd(NumSMs, cursor, s) \in 1..NumSMs
                             /\ SmOrder(cursor)[Fwd(NumSMs, cursor, s)] = s
           /\ \A k \in 1..NumSMs : Fwd(NumSMs, cursor, SmOrder(cursor)[k]) = k
<1>1. NumSMs \in Nat \ {0} /\ cursor \in Int /\ -1 <= cursor /\ cursor < NumSMs
  BY SchedulerAssumption DEF SMs, None
<1>2. ASSUME NEW k \in 1..NumSMs
      PROVE  SmOrder(cursor)[k] = IF cursor + k < NumSMs THEN cursor + k ELSE cursor + k - NumSMs
  <2>1. PICK a \in Nat : a = cursor + k /\ a < NumSMs + NumSMs
    BY <1>1
  <2>2. a % NumSMs = IF a < NumSMs THEN a ELSE a - NumSMs
    BY <1>1, <2>1, SmallMod
  <2>3. SmOrder(cursor)[k] = a % NumSMs
    BY <2>1, Zenon DEF SmOrder
  <2> QED BY <1>1, <2>1, <2>2, <2>3
<1>3. \A k \in 1..NumSMs : SmOrder(cursor)[k] \in SMs
  BY <1>1, <1>2 DEF SMs
<1>4. SmOrder(cursor) \in [1..NumSMs -> SMs]
  BY <1>3 DEF SmOrder
<1>5. ASSUME NEW s \in SMs
      PROVE  /\ Fwd(NumSMs, cursor, s) \in 1..NumSMs
             /\ SmOrder(cursor)[Fwd(NumSMs, cursor, s)] = s
  <2>1. Fwd(NumSMs, cursor, s) \in 1..NumSMs
    BY <1>1 DEF Fwd, SMs
  <2> QED BY <1>1, <1>2, <2>1 DEF Fwd, SMs
<1>6. ASSUME NEW k \in 1..NumSMs
      PROVE  Fwd(NumSMs, cursor, SmOrder(cursor)[k]) = k
  BY <1>1, <1>2 DEF Fwd
<1> QED BY <1>4, <1>5, <1>6

\* What a search of the state machines finds: the first one after the cursor, and
\* nothing only if there is nothing.
LEMMA NextSmIs ==
    ASSUME NEW cursor \in SMs \cup {None}, NEW run, run \subseteq SMs
    PROVE  LET f == NextSm(cursor, run)
           IN /\ f.cursor \in SMs
              /\ \/ run = {} /\ f.found = None
                 \/ /\ f.found \in run /\ f.found = f.cursor
                    /\ \A s \in run : Fwd(NumSMs, cursor, f.found) <= Fwd(NumSMs, cursor, s)
<1> DEFINE order == SmOrder(cursor)
<1>1. NumSMs \in Nat \ {0}
  BY SchedulerAssumption
<1>2. /\ order \in [1..NumSMs -> SMs]
      /\ \A s \in SMs : /\ Fwd(NumSMs, cursor, s) \in 1..NumSMs
                        /\ order[Fwd(NumSMs, cursor, s)] = s
      /\ \A k \in 1..NumSMs : Fwd(NumSMs, cursor, order[k]) = k
  BY SmOrderIs
<1>3. NextSm(cursor, run) = Find(order, run)
  BY DEF NextSm
<1> HIDE DEF order
<1>4. CASE /\ \A k \in 1..NumSMs : order[k] \notin run
           /\ Find(order, run) = [cursor |-> order[NumSMs], found |-> None]
  <2>1. run = {}
    BY <1>2, <1>4
  <2> QED BY <1>1, <1>2, <1>3, <1>4, <2>1
<1>5. ASSUME NEW k \in 1..NumSMs, order[k] \in run,
             \A j \in 1..NumSMs : order[j] \in run => k <= j,
             Find(order, run) = [cursor |-> order[k], found |-> order[k]]
      PROVE  LET f == NextSm(cursor, run)
             IN /\ f.cursor \in SMs
                /\ f.found \in run /\ f.found = f.cursor
                /\ \A s \in run : Fwd(NumSMs, cursor, f.found) <= Fwd(NumSMs, cursor, s)
  <2>1. \A s \in run : k <= Fwd(NumSMs, cursor, s)
    BY <1>2, <1>5
  <2> QED BY <1>2, <1>3, <1>5, <2>1
<1>6. \/ /\ \A k \in 1..NumSMs : order[k] \notin run
         /\ Find(order, run) = [cursor |-> order[NumSMs], found |-> None]
      \/ \E k \in 1..NumSMs : /\ order[k] \in run
                              /\ \A j \in 1..NumSMs : order[j] \in run => k <= j
                              /\ Find(order, run) = [cursor |-> order[k], found |-> order[k]]
  BY <1>1, <1>2, FindFirstHit
<1> QED BY <1>4, <1>5, <1>6

\* What the looks of a search of the user processors are.
LEMMA UpOrderIs ==
    ASSUME NEW cursor \in UPs \cup {None}, NEW dont_switch \in BOOLEAN
    PROVE  /\ UpOrder(cursor, dont_switch) \in [1..NumUPs -> UPs \cup {None}]
           /\ ~dont_switch => \A k \in 1..NumUPs : UpOrder(cursor, dont_switch)[k] =
                  IF cursor + k < NumUPs THEN cursor + k
                  ELSE IF cursor + k = NumUPs THEN None ELSE cursor + k - NumUPs - 1
<1>1. NumUPs \in Nat \ {0} /\ cursor \in Int /\ -1 <= cursor /\ cursor < NumUPs
  BY SchedulerAssumption DEF UPs, None
<1>2. ASSUME NEW k \in 1..NumUPs
      PROVE  /\ UpOrder(cursor, dont_switch)[k] \in UPs \cup {None}
             /\ ~dont_switch => UpOrder(cursor, dont_switch)[k] =
                    IF cursor + k < NumUPs THEN cursor + k
                    ELSE IF cursor + k = NumUPs THEN None ELSE cursor + k - NumUPs - 1
  BY <1>1 DEF UpOrder, UPs, None
<1> QED BY <1>2 DEF UpOrder

\* A search of the user processors finds one that can run, or none.
LEMMA NextUserType ==
    ASSUME NEW cursor \in UPs \cup {None}, NEW dont_switch \in BOOLEAN, NEW run
    PROVE  LET f == NextUser(cursor, run, dont_switch)
           IN /\ f.cursor \in UPs \cup {None}
              /\ f.found = None \/ (f.found \in run /\ f.found = f.cursor)
<1> DEFINE order == UpOrder(cursor, dont_switch)
<1>1. NumUPs \in Nat \ {0} /\ order \in [1..NumUPs -> UPs \cup {None}]
  BY UpOrderIs, SchedulerAssumption
<1>2. NextUser(cursor, run, dont_switch) = Find(order, run)
  BY DEF NextUser
<1> HIDE DEF order
<1>3. \/ Find(order, run) = [cursor |-> order[NumUPs], found |-> None]
      \/ \E k \in 1..NumUPs : /\ order[k] \in run
                              /\ Find(order, run) = [cursor |-> order[k], found |-> order[k]]
  BY <1>1, FindFirstHit
<1> QED BY <1>1, <1>2, <1>3

\* It misses at most the processor at the cursor, and then goes back by one.
LEMMA NextUserIs ==
    ASSUME NEW cursor \in UPs \cup {None}, NEW run, run \subseteq UPs,
           NEW dont_switch \in BOOLEAN, ~dont_switch
    PROVE  LET f == NextUser(cursor, run, dont_switch)
           IN \/ /\ f.found = None
                 /\ f.cursor = IF cursor = None THEN NumUPs - 1 ELSE cursor - 1
                 /\ \A u \in run : u = cursor
              \/ /\ f.found \in run /\ f.found = f.cursor
                 /\ \A u \in run : Fwd(NumUPs, cursor, f.found) <= Fwd(NumUPs, cursor, u)
<1> DEFINE order == UpOrder(cursor, dont_switch)
<1>1. /\ NumUPs \in Nat \ {0} /\ cursor \in Int /\ -1 <= cursor /\ cursor < NumUPs
      /\ None = -1 /\ \A u \in run : u \in Nat /\ u < NumUPs
  BY SchedulerAssumption DEF UPs, None
<1>2. order \in [1..NumUPs -> UPs \cup {None}]
  BY UpOrderIs
<1>3. \A k \in 1..NumUPs : order[k] = IF cursor + k < NumUPs THEN cursor + k
                                      ELSE IF cursor + k = NumUPs THEN None
                                      ELSE cursor + k - NumUPs - 1
  BY UpOrderIs
<1>4. NextUser(cursor, run, dont_switch) = Find(order, run)
  BY DEF NextUser
<1> HIDE DEF order
<1>5. ASSUME NEW u \in run, u # cursor
      PROVE  \E j \in 1..NumUPs : /\ order[j] = u
                                  /\ j = IF u > cursor THEN u - cursor ELSE u - cursor + NumUPs + 1
  <2>1. CASE u > cursor
    <3>1. u - cursor \in 1..NumUPs /\ cursor + (u - cursor) = u
      BY <1>1, <2>1
    <3> QED BY <1>1, <1>3, <2>1, <3>1
  <2>2. CASE u < cursor
    <3>1. PICK j \in 1..NumUPs : j = u - cursor + NumUPs + 1
      BY <1>1, <2>2
    <3>2. order[j] = u
      BY <1>1, <1>3, <2>2, <3>1
    <3> QED BY <1>1, <2>2, <3>1, <3>2
  <2> QED BY <1>1, <1>5, <2>1, <2>2
<1>6. CASE /\ \A k \in 1..NumUPs : order[k] \notin run
           /\ Find(order, run) = [cursor |-> order[NumUPs], found |-> None]
  <2>1. \A u \in run : u = cursor
    BY <1>5, <1>6
  <2>2. order[NumUPs] = IF cursor = None THEN NumUPs - 1 ELSE cursor - 1
    BY <1>1, <1>3
  <2>3. /\ NextUser(cursor, run, dont_switch).cursor = order[NumUPs]
        /\ NextUser(cursor, run, dont_switch).found = None
    BY <1>4, <1>6
  <2> QED BY <2>1, <2>2, <2>3
<1>7. ASSUME NEW k \in 1..NumUPs, order[k] \in run,
             \A j \in 1..NumUPs : order[j] \in run => k <= j,
             Find(order, run) = [cursor |-> order[k], found |-> order[k]]
      PROVE  LET f == NextUser(cursor, run, dont_switch)
             IN /\ f.found \in run /\ f.found = f.cursor
                /\ \A u \in run : Fwd(NumUPs, cursor, f.found) <= Fwd(NumUPs, cursor, u)
  <2>1. /\ order[k] \in Nat /\ order[k] < NumUPs
        /\ Fwd(NumUPs, cursor, order[k]) <= k
        /\ Fwd(NumUPs, cursor, order[k]) <= NumUPs
        /\ order[k] < cursor => Fwd(NumUPs, cursor, order[k]) = k - 1
    <3>1. order[k] \in Nat /\ order[k] < NumUPs
      BY <1>1, <1>7
    <3>2. order[k] = IF cursor + k < NumUPs THEN cursor + k
                     ELSE IF cursor + k = NumUPs THEN None ELSE cursor + k - NumUPs - 1
      BY <1>3
    <3> QED BY <1>1, <3>1, <3>2 DEF Fwd
  <2>2. ASSUME NEW u \in run
        PROVE  Fwd(NumUPs, cursor, order[k]) <= Fwd(NumUPs, cursor, u)
    <3>1. CASE u = cursor
      <4>1. Fwd(NumUPs, cursor, u) = NumUPs
        BY <1>1, <3>1 DEF Fwd
      <4> QED BY <1>1, <2>1, <4>1 DEF Fwd
    <3>2. CASE u # cursor
      <4>1. k <= IF u > cursor THEN u - cursor ELSE u - cursor + NumUPs + 1
        BY <1>5, <1>7, <3>2
      <4>2. order[k] = IF cursor + k < NumUPs THEN cursor + k
                       ELSE IF cursor + k = NumUPs THEN None ELSE cursor + k - NumUPs - 1
        BY <1>3
      <4>3. u \in Nat /\ u < NumUPs
        BY <1>1
      <4> QED BY <1>1, <2>1, <3>2, <4>1, <4>2, <4>3 DEF Fwd
    <3> QED BY <3>1, <3>2
  <2>3. /\ NextUser(cursor, run, dont_switch).cursor = order[k]
        /\ NextUser(cursor, run, dont_switch).found = order[k]
    BY <1>4, <1>7
  <2> QED BY <1>7, <2>2, <2>3
<1>8. \/ /\ \A k \in 1..NumUPs : order[k] \notin run
         /\ Find(order, run) = [cursor |-> order[NumUPs], found |-> None]
      \/ \E k \in 1..NumUPs : /\ order[k] \in run
                              /\ \A j \in 1..NumUPs : order[j] \in run => k <= j
                              /\ Find(order, run) = [cursor |-> order[k], found |-> order[k]]
  BY <1>1, <1>2, FindFirstHit
<1> QED BY <1>6, <1>7, <1>8

\* A search that is repeated when it finds nothing is one round of all processors.
LEMMA SearchedTwice ==
    ASSUME NEW cursor \in UPs \cup {None}, NEW run, run \subseteq UPs,
           NEW dont_switch \in BOOLEAN, ~dont_switch
    PROVE  LET f == TryUser(NextUser(cursor, run, dont_switch), run)
           IN /\ f.cursor \in UPs \cup {None}
              /\ \/ run = {} /\ f.found = None
                 \/ /\ f.found \in run /\ f.found = f.cursor
                    /\ \A u \in run : Fwd(NumUPs, cursor, f.found) <= Fwd(NumUPs, cursor, u)
<1> DEFINE f == NextUser(cursor, run, dont_switch)
           g == NextUser(f.cursor, run, FALSE)
<1>1. /\ NumUPs \in Nat \ {0} /\ cursor \in Int /\ -1 <= cursor /\ cursor < NumUPs
      /\ None = -1 /\ None \notin run
  BY SchedulerAssumption DEF UPs, None
<1>2. f.cursor \in UPs \cup {None}
  BY NextUserType
<1>3. TryUser(f, run) = IF f.found = None THEN g ELSE f
  BY DEF TryUser
<1>4. \/ /\ f.found = None
         /\ f.cursor = IF cursor = None THEN NumUPs - 1 ELSE cursor - 1
         /\ \A u \in run : u = cursor
      \/ /\ f.found \in run /\ f.found = f.cursor
         /\ \A u \in run : Fwd(NumUPs, cursor, f.found) <= Fwd(NumUPs, cursor, u)
  BY NextUserIs
<1>5. /\ g.cursor \in UPs \cup {None}
      /\ \/ g.found = None /\ \A u \in run : u = f.cursor
         \/ g.found \in run /\ g.found = g.cursor
  <2> HIDE DEF f
  <2> QED BY <1>2, NextUserIs, NextUserType
<1> HIDE DEF f, g
<1>6. CASE f.found = None
  <2>1. f.cursor # cursor /\ \A u \in run : u = cursor
    BY <1>1, <1>4, <1>6
  <2>2. CASE g.found = None /\ \A u \in run : u = f.cursor
    <3>1. run = {}
      BY <2>1, <2>2
    <3> QED BY <1>3, <1>5, <1>6, <2>2, <3>1 DEF f
  <2>3. CASE g.found \in run /\ g.found = g.cursor
    <3>1. \A u \in run : u = g.found
      BY <2>1, <2>3
    <3>2. g.found = cursor
      BY <2>1, <2>3, Zenon
    <3>3. \A u \in run : Fwd(NumUPs, cursor, g.found) <= Fwd(NumUPs, cursor, u)
      <4>1. Fwd(NumUPs, cursor, cursor) = NumUPs
        BY <1>1 DEF Fwd
      <4>2. \A u \in run : Fwd(NumUPs, cursor, u) = Fwd(NumUPs, cursor, g.found)
        BY <3>1, Zenon
      <4> QED BY <1>1, <3>2, <4>1, <4>2
    <3> QED BY <1>3, <1>5, <1>6, <2>3, <3>3 DEF f
  <2> QED BY <1>5, <2>2, <2>3
<1>7. CASE f.found # None
  BY <1>2, <1>3, <1>4, <1>7 DEF f
<1> QED BY <1>6, <1>7

\* Whatever a user processor's turn lets the search do, it finds one that can run.
LEMMA SearchType ==
    ASSUME NEW cursor \in UPs \cup {None}, NEW dont_switch \in BOOLEAN, NEW run
    PROVE  LET f == TryUser(NextUser(cursor, run, dont_switch), run)
           IN /\ f.cursor \in UPs \cup {None}
              /\ f.found = None \/ (f.found \in run /\ f.found = f.cursor)
<1> DEFINE f == NextUser(cursor, run, dont_switch)
<1>1. /\ f.cursor \in UPs \cup {None}
      /\ f.found = None \/ (f.found \in run /\ f.found = f.cursor)
  BY NextUserType
<1> HIDE DEF f
<1>2. LET g == NextUser(f.cursor, run, FALSE)
      IN /\ g.cursor \in UPs \cup {None}
         /\ g.found = None \/ (g.found \in run /\ g.found = g.cursor)
  BY <1>1, NextUserType
<1>3. TryUser(f, run) = IF f.found = None THEN NextUser(f.cursor, run, FALSE) ELSE f
  BY DEF TryUser
<1>4. /\ TryUser(f, run).cursor \in UPs \cup {None}
      /\ \/ TryUser(f, run).found = None
         \/ TryUser(f, run).found \in run /\ TryUser(f, run).found = TryUser(f, run).cursor
  <2>1. CASE f.found = None
    BY <1>2, <1>3, <2>1
  <2>2. CASE f.found # None
    BY <1>1, <1>3, <2>2
  <2> QED BY <2>1, <2>2
<1> QED BY <1>4 DEF f

-----------------------------------------------------------------------------
(* Types and prefetched instructions *)

Inv == TypeOK /\ PrefetchIsCurrent

\* An assignment to one entry, whichever it is, keeps a table's type.
LEMMA ExceptType ==
    ASSUME NEW S, NEW T, NEW f \in [S -> T], NEW x, NEW v \in T
    PROVE  [f EXCEPT ![x] = v] \in [S -> T]
OBVIOUS

\* What the step about to run finds can run.
LEMMA FoundSmIs ==
    ASSUME Inv
    PROVE  /\ FoundSm.cursor \in SMs \cup {None}
           /\ FoundSm.found \in smRun \/ (FoundSm.found = None /\ smRun = {})
<1>1. sm_cursor \in SMs \cup {None} /\ smRun \subseteq SMs
  BY DEF Inv, TypeOK
<1>2. CASE instruction = None
  <2>1. FoundSm = NextSm(sm_cursor, smRun)
    BY <1>2 DEF FoundSm, TrySm
  <2>2. LET f == NextSm(sm_cursor, smRun)
        IN f.cursor \in SMs /\ (f.found \in smRun \/ (smRun = {} /\ f.found = None))
    BY <1>1, NextSmIs
  <2> QED BY <2>1, <2>2
<1>3. CASE instruction # None
  <2>1. FoundSm.cursor = sm_cursor /\ FoundSm.found = instruction
    BY <1>3 DEF FoundSm, TrySm
  <2> QED BY <1>1, <1>3, <2>1 DEF Inv, PrefetchIsCurrent
<1> QED BY <1>2, <1>3

LEMMA FoundUserIs ==
    ASSUME Inv, ~exited
    PROVE  /\ FoundUser.cursor \in UPs \cup {None}
           /\ FoundUser.found \in UpRun(upInstr) \/ FoundUser.found = None
<1>1. up_cursor \in UPs \cup {None} /\ UpRun(upInstr) \subseteq UPs
  BY DEF Inv, TypeOK, UpRun
<1>2. CASE user_instruction = None
  <2>1. FoundUser = NextUser(up_cursor, UpRun(upInstr), FALSE)
    BY <1>2 DEF FoundUser, TryUser
  <2>2. LET f == NextUser(up_cursor, UpRun(upInstr), FALSE)
        IN f.cursor \in UPs \cup {None} /\ (f.found = None \/ f.found \in UpRun(upInstr))
    BY <1>1, NextUserType
  <2> QED BY <2>1, <2>2
<1>3. CASE user_instruction # None
  <2>1. FoundUser.cursor = up_cursor /\ FoundUser.found = user_instruction
    BY <1>3 DEF FoundUser, TryUser
  <2> QED BY <1>1, <1>3, <2>1 DEF Inv, PrefetchIsCurrent
<1> QED BY <1>2, <1>3

\* The instruction a user processor's turn runs.
LEMMA UserInstrIs ==
    ASSUME Inv, UserTurn
    PROVE  /\ FoundUser.found \in UPs /\ FoundUser.found \in UpRun(upInstr)
           /\ upInstr[FoundUser.found] \in UserInstrs
           /\ upInstr[FoundUser.found] \in UserInstr
<1>1. ~exited /\ FoundUser.found # None
  BY DEF UserTurn, Running
<1>2. FoundUser.found \in UpRun(upInstr)
  BY <1>1, FoundUserIs
<1>3. FoundUser.found \in UPs /\ ~upInstr[FoundUser.found].empty
  BY <1>2 DEF UpRun
<1>4. upInstr[FoundUser.found] \in UserInstrs \cup {Empty}
  BY <1>3 DEF Inv, TypeOK
<1>5. upInstr[FoundUser.found] # Empty
  BY <1>3 DEF Empty
<1> QED BY <1>2, <1>3, <1>4, <1>5, SchedulerAssumption

LEMMA UserTurnInv == Inv /\ UserTurn => Inv'
<1> SUFFICES ASSUME Inv, UserTurn PROVE Inv'
  OBVIOUS
<1> DEFINE u == FoundUser.found
           i == upInstr[u]
           left == Delayed(i, delay_left[u])
           go == Continue(i, delay_left[u])
           completed == left <= 0 /\ ~(i.write /\ tx = Capacity)
<1>1. u \in UPs /\ u \in UpRun(upInstr) /\ i \in UserInstr /\ ~exited
  BY UserInstrIs DEF UserTurn, Running
<1>2. /\ smRun \subseteq SMs /\ upInstr \in [UPs -> UserInstrs \cup {Empty}]
      /\ delay_left \in [UPs -> -1..31] /\ tx \in 0..Capacity /\ Capacity \in Nat
  BY SchedulerAssumption DEF Inv, TypeOK
<1>3. left \in -1..31 /\ go \in BOOLEAN
  <2>1. delay_left[u] \in -1..31
    BY <1>1, <1>2
  <2>2. i.delay \in 0..31 /\ i.continue_user \in BOOLEAN
    BY <1>1 DEF UserInstr
  <2> QED BY <2>1, <2>2 DEF Delayed, Continue
<1>4. upInstr' \in [UPs -> UserInstrs \cup {Empty}] /\ tx' \in 0..Capacity
  <2>1. CASE completed
    <3>1. PICK next \in UserInstrs \cup {Empty} : upInstr' = [upInstr EXCEPT ![u] = next]
      BY <2>1 DEF UserTurn
    <3>2. tx' = IF i.write THEN tx + 1 ELSE tx
      BY <2>1 DEF UserTurn
    <3>3. i.write => tx # Capacity
      BY <2>1
    <3> HIDE DEF u, i
    <3>4. upInstr' \in [UPs -> UserInstrs \cup {Empty}]
      BY <1>2, <3>1, ExceptType
    <3>5. tx' \in 0..Capacity
      BY <1>2, <3>2, <3>3
    <3> QED BY <3>4, <3>5
  <2>2. CASE ~completed
    BY <1>2, <2>2 DEF UserTurn
  <2> QED BY <2>1, <2>2
<1>5. delay_left' \in [UPs -> -1..31]
  <2>1. delay_left' = [delay_left EXCEPT ![u] = -1] \/ delay_left' = [delay_left EXCEPT ![u] = left]
    BY DEF UserTurn
  <2> HIDE DEF left
  <2> QED BY <1>2, <1>3, <2>1
<1>6. exited' \in BOOLEAN /\ try_user_first' \in BOOLEAN
  BY <1>3 DEF UserTurn
<1>7. /\ sm_cursor' \in SMs \cup {None} /\ instruction' \in smRun \cup {None}
      /\ smRun' = smRun
  BY FoundSmIs DEF UserTurn
<1>8. /\ up_cursor' \in UPs \cup {None}
      /\ user_instruction' \in UPs \cup {None}
      /\ ~exited' => user_instruction' \in UpRun(upInstr') \cup {None}
  <2> DEFINE run == UpRun(upInstr')
             next == TryUser(NextUser(FoundUser.cursor, run, go), run)
  <2>1. FoundUser.cursor \in UPs \cup {None}
    BY <1>1, FoundUserIs
  <2>2. IF exited' THEN up_cursor' = FoundUser.cursor /\ user_instruction' = u
                   ELSE up_cursor' = next.cursor /\ user_instruction' = next.found
    BY DEF UserTurn, PrefetchFrom
  <2>3. run \subseteq UPs
    BY DEF UpRun
  <2> HIDE DEF u, go, run
  <2>4. next.cursor \in UPs \cup {None} /\ (next.found = None \/ next.found \in run)
    BY <1>3, <2>1, SearchType
  <2> HIDE DEF next
  <2>5. CASE exited'
    BY <1>1, <2>1, <2>2, <2>5
  <2>6. CASE ~exited'
    BY <2>2, <2>3, <2>4, <2>6 DEF run
  <2> QED BY <2>5, <2>6
<1>9. turn' \in Turns
  <2>1. i.continue_user \in BOOLEAN
    BY <1>1 DEF UserInstr
  <2>2. turn' = [kind |-> "user", who |-> u, go |-> i.continue_user /\ left <= 0]
    BY DEF UserTurn
  <2> HIDE DEF u, i, left
  <2> QED BY <1>1, <2>1, <2>2 DEF Turns
<1>10. UNCHANGED <<exec_context, flags, ihs>>
  BY DEF UserTurn
<1>11. TypeOK'
  BY <1>2, <1>4, <1>5, <1>6, <1>7, <1>8, <1>9, <1>10 DEF Inv, TypeOK, ihs
<1> QED BY <1>7, <1>8, <1>11 DEF Inv, PrefetchIsCurrent

LEMMA SmTurnInv == Inv /\ SmTurn => Inv'
<1> SUFFICES ASSUME Inv, SmTurn PROVE Inv'
  OBVIOUS
<1> DEFINE s == FoundSm.found
           searched == NextSm(FoundSm.cursor, smRun')
           next == TrySm(searched, smRun')
<1>1. s \in SMs /\ s \in smRun /\ ~exited
  BY FoundSmIs DEF SmTurn, Running, Inv, TypeOK
<1>2. smRun' \subseteq SMs /\ flags' \subseteq Flags /\ tx' \in 0..Capacity
  BY SchedulerAssumption DEF SmTurn, Inv, TypeOK
<1>3. /\ searched.cursor \in SMs \cup {None}
      /\ searched.found \in smRun' \cup {None}
  <2>1. FoundSm.cursor \in SMs \cup {None}
    BY FoundSmIs
  <2> QED BY <1>2, <2>1, NextSmIs
<1>4. next.cursor \in SMs \cup {None} /\ next.found \in smRun' \cup {None}
  <2> HIDE DEF searched
  <2>1. LET f == NextSm(searched.cursor, smRun')
        IN f.cursor \in SMs \cup {None} /\ f.found \in smRun' \cup {None}
    BY <1>2, <1>3, NextSmIs
  <2>2. next = IF searched.found = None THEN NextSm(searched.cursor, smRun') ELSE searched
    BY DEF TrySm
  <2> QED BY <1>3, <2>1, <2>2
<1>5. \/ /\ sm_cursor' = searched.cursor /\ instruction' = searched.found
         /\ exec_context' = "interrupt"
         /\ ih_enabled' = [ih_enabled EXCEPT ![FiredHandler(flags')] = TRUE]
         /\ ih_pc' = [ih_pc EXCEPT ![FiredHandler(flags')] = 0]
      \/ /\ sm_cursor' = next.cursor /\ instruction' = next.found
         /\ UNCHANGED <<exec_context, ihs>>
  BY DEF SmTurn, PrefetchFrom
<1> HIDE DEF searched, next
<1>6. /\ sm_cursor' \in SMs \cup {None} /\ instruction' \in smRun' \cup {None}
      /\ exec_context' \in {"normal", "interrupt", "idle"}
  BY <1>3, <1>4, <1>5 DEF Inv, TypeOK
<1>7. ih_enabled' \in [IHs -> BOOLEAN] /\ ih_pc' \in [IHs -> Nat \cup {-1}]
  <2>1. ih_enabled \in [IHs -> BOOLEAN] /\ ih_pc \in [IHs -> Nat \cup {-1}]
    BY DEF Inv, TypeOK
  <2>2. \/ /\ ih_enabled' = [ih_enabled EXCEPT ![FiredHandler(flags')] = TRUE]
           /\ ih_pc' = [ih_pc EXCEPT ![FiredHandler(flags')] = 0]
        \/ ih_enabled' = ih_enabled /\ ih_pc' = ih_pc
    BY <1>5 DEF ihs
  <2>3. [ih_enabled EXCEPT ![FiredHandler(flags')] = TRUE] \in [IHs -> BOOLEAN]
    BY <2>1, ExceptType
  <2>4. [ih_pc EXCEPT ![FiredHandler(flags')] = 0] \in [IHs -> Nat \cup {-1}]
    <3>1. 0 \in Nat \cup {-1}
      OBVIOUS
    <3> QED BY <2>1, <3>1, ExceptType
  <2> QED BY <2>1, <2>2, <2>3, <2>4, Zenon
<1>8. /\ up_cursor' \in UPs \cup {None} /\ upInstr' = upInstr
      /\ user_instruction' \in UpRun(upInstr) \cup {None}
      /\ UpRun(upInstr) \subseteq UPs
  BY <1>1, FoundUserIs DEF SmTurn, UpRun
<1>9. turn' \in Turns /\ try_user_first' \in BOOLEAN
  BY <1>1 DEF SmTurn, Turns
<1>10. UNCHANGED <<delay_left, exited>>
  BY DEF SmTurn
<1>11. TypeOK'
  BY <1>2, <1>6, <1>7, <1>8, <1>9, <1>10 DEF Inv, TypeOK
<1> QED BY <1>6, <1>8, <1>11 DEF Inv, PrefetchIsCurrent

LEMMA InterruptTurnInv ==
    ASSUME Inv, NEW outcome \in IhOutcomes, InterruptTurn(outcome) PROVE Inv'
<1> DEFINE h == Stepped
           past_end == ih_pc[h] >= IhLength
           pc == IF past_end \/ outcome \in {"done", "exit"} THEN ih_pc[h] + 1 ELSE 0
           sm == TrySm(NextSm(sm_cursor, smRun), smRun)
<1>1. /\ smRun \subseteq SMs /\ sm_cursor \in SMs \cup {None} /\ up_cursor \in UPs \cup {None}
      /\ ih_pc \in [IHs -> Nat \cup {-1}] /\ ih_enabled \in [IHs -> BOOLEAN]
  BY DEF Inv, TypeOK
<1>2. ih_pc' = [ih_pc EXCEPT ![h] = pc]
  BY DEF InterruptTurn
<1>3. ih_pc' \in [IHs -> Nat \cup {-1}]
  <2>1. CASE h \in IHs
    <3>1. ih_pc[h] \in Nat \cup {-1}
      BY <1>1, <2>1
    <3>2. pc \in Nat \cup {-1}
      BY <3>1
    <3> HIDE DEF h, pc
    <3> QED BY <1>1, <1>2, <3>2, ExceptType
  <2>2. CASE h \notin IHs
    <3> HIDE DEF h, pc
    <3> QED BY <1>1, <1>2, <2>2
  <2> QED BY <2>1, <2>2
<1>4. ih_enabled' \in [IHs -> BOOLEAN] /\ exec_context' \in {"normal", "interrupt", "idle"}
  <2>1. /\ ih_enabled' = Disable(h) \/ ih_enabled' = ih_enabled
        /\ exec_context' = "normal" \/ exec_context' = exec_context
    BY DEF InterruptTurn
  <2>2. Disable(h) \in [IHs -> BOOLEAN]
    <3> HIDE DEF h
    <3> QED BY <1>1, ExceptType DEF Disable
  <2>3. ih_enabled' \in [IHs -> BOOLEAN]
    BY <1>1, <2>1, <2>2, Zenon
  <2> QED BY <2>1, <2>3 DEF Inv, TypeOK
<1>5. sm_cursor' \in SMs \cup {None} /\ up_cursor' \in UPs \cup {None}
  <2>1. CASE UNCHANGED <<sm_cursor, up_cursor>>
    BY <1>1, <2>1
  <2>2. CASE MoveCursors
    <3>1. sm_cursor' = sm.cursor
      BY <2>2 DEF MoveCursors
    <3>2. up_cursor' = up_cursor \/ up_cursor' = NextUser(up_cursor, UpRun(upInstr), FALSE).cursor
      BY <2>2 DEF MoveCursors
    <3>3. sm.cursor \in SMs
      <4>1. NextSm(sm_cursor, smRun).cursor \in SMs
        BY <1>1, NextSmIs
      <4> DEFINE f == NextSm(sm_cursor, smRun)
      <4>2. f.cursor \in SMs \cup {None}
        BY <4>1
      <4> HIDE DEF f
      <4>3. NextSm(f.cursor, smRun).cursor \in SMs
        BY <1>1, <4>2, NextSmIs
      <4>4. TrySm(f, smRun) = IF f.found = None THEN NextSm(f.cursor, smRun) ELSE f
        BY DEF TrySm
      <4>5. f.cursor \in SMs
        BY <4>1 DEF f
      <4>6. TrySm(f, smRun).cursor \in SMs
        BY <4>3, <4>4, <4>5
      <4> QED BY <4>6 DEF f
    <3>4. NextUser(up_cursor, UpRun(upInstr), FALSE).cursor \in UPs \cup {None}
      BY <1>1, NextUserType
    <3> HIDE DEF sm
    <3> QED BY <1>1, <3>1, <3>2, <3>3, <3>4
  <2>3. UNCHANGED <<sm_cursor, up_cursor>> \/ MoveCursors
    BY DEF InterruptTurn
  <2> QED BY <2>1, <2>2, <2>3
<1>6. exited' \in BOOLEAN /\ ~exited
  BY DEF InterruptTurn, Running
<1>7. UNCHANGED <<programs, instruction, user_instruction, try_user_first, flags, turn, waited>>
  BY DEF InterruptTurn
<1>8. TypeOK'
  BY <1>3, <1>4, <1>5, <1>6, <1>7 DEF Inv, TypeOK, programs
<1> QED BY <1>6, <1>7, <1>8 DEF Inv, PrefetchIsCurrent, programs

LEMMA NothingFoundInv == Inv /\ NothingFound => Inv'
<1> SUFFICES ASSUME Inv, NothingFound PROVE Inv'
  OBVIOUS
<1>1. sm_cursor' \in SMs \cup {None} /\ up_cursor' \in UPs \cup {None}
  BY FoundSmIs, FoundUserIs DEF NothingFound, Running
<1>2. UNCHANGED <<programs, instruction, user_instruction, try_user_first,
                  exec_context, exited, flags, ihs, turn>>
  BY DEF NothingFound
<1> QED BY <1>1, <1>2 DEF Inv, TypeOK, PrefetchIsCurrent, programs, ihs

LEMMA IdleInv == Inv /\ Idle => Inv'
<1> SUFFICES ASSUME Inv, Idle PROVE Inv'
  OBVIOUS
<1>1. exec_context' = "idle"
  BY DEF Idle
<1>2. UNCHANGED <<programs, cursors, try_user_first, exited, flags, ihs, turn>>
  BY DEF Idle
<1> QED BY <1>1, <1>2 DEF Inv, TypeOK, PrefetchIsCurrent, programs, cursors, ihs

LEMMA InitInv == Init => Inv
<1> SUFFICES ASSUME Init PROVE Inv
  OBVIOUS
<1>1. /\ smRun \subseteq SMs /\ upInstr \in [UPs -> UserInstrs \cup {Empty}]
      /\ tx \in 0..Capacity /\ delay_left \in [UPs -> -1..31]
  BY SchedulerAssumption DEF Init
<1>2. ih_pc \in [IHs -> Nat \cup {-1}] /\ ih_enabled \in [IHs -> BOOLEAN]
  BY DEF Init
<1>3. turn \in Turns
  BY DEF Init, Turns
<1> QED BY <1>1, <1>2, <1>3 DEF Init, Inv, TypeOK, PrefetchIsCurrent

LEMMA StutterInv == Inv /\ UNCHANGED vars => Inv'
BY DEF Inv, TypeOK, PrefetchIsCurrent, vars, programs, cursors, ihs

LEMMA InvIsInductive == Inv /\ [Next]_vars => Inv'
<1> SUFFICES ASSUME Inv, [Next]_vars PROVE Inv'
  OBVIOUS
<1>1. CASE UserTurn
  BY <1>1, UserTurnInv
<1>2. CASE SmTurn
  BY <1>2, SmTurnInv
<1>3. CASE \E outcome \in IhOutcomes : InterruptTurn(outcome)
  BY <1>3, InterruptTurnInv
<1>4. CASE NothingFound
  BY <1>4, NothingFoundInv
<1>5. CASE Idle
  BY <1>5, IdleInv
<1>6. CASE UNCHANGED vars
  BY <1>6, StutterInv
<1> QED BY <1>1, <1>2, <1>3, <1>4, <1>5, <1>6 DEF Next

\* The cursors of the two static searches of execution.c stay inside the tables
\* they index, for any number of processors and handlers, although the user
\* search wraps through a look at nothing.
THEOREM TypeCorrect == Spec => []TypeOK
<1>1. Init => Inv
  BY InitInv
<1>2. Inv /\ [Next]_vars => Inv'
  BY InvIsInductive
<1>3. Inv => TypeOK
  BY DEF Inv
<1> QED BY <1>1, <1>2, <1>3, PTL DEF Spec

\* The instruction prefetched by one call of exec_step_programs_next_instruction
\* is still the one at its processor's pc when a later call runs it, across
\* interrupts and the ends of other programs.
THEOREM PrefetchAlwaysCurrent == Spec => []PrefetchIsCurrent
<1>1. Init => Inv
  BY InitInv
<1>2. Inv /\ [Next]_vars => Inv'
  BY InvIsInductive
<1>3. Inv => PrefetchIsCurrent
  BY DEF Inv
<1> QED BY <1>1, <1>2, <1>3, PTL DEF Spec

-----------------------------------------------------------------------------
(* A search that comes back empty *)

\* A search that finds nothing leaves the cursor where it looked last.
LEMMA NextUserMisses ==
    ASSUME NEW cursor \in UPs \cup {None}, NEW run, run \subseteq UPs,
           NEW dont_switch \in BOOLEAN
    PROVE  LET f == NextUser(cursor, run, dont_switch)
           IN f.found = None => f.cursor \notin run
<1> DEFINE order == UpOrder(cursor, dont_switch)
<1>1. NumUPs \in Nat \ {0} /\ order \in [1..NumUPs -> UPs \cup {None}]
  BY UpOrderIs, SchedulerAssumption
<1>2. NextUser(cursor, run, dont_switch) = Find(order, run)
  BY DEF NextUser
<1>3. None \notin run
  BY DEF UPs, None
<1> HIDE DEF order
<1>4. \/ /\ \A k \in 1..NumUPs : order[k] \notin run
         /\ Find(order, run) = [cursor |-> order[NumUPs], found |-> None]
      \/ \E k \in 1..NumUPs : /\ order[k] \in run
                              /\ Find(order, run) = [cursor |-> order[k], found |-> order[k]]
  BY <1>1, FindFirstHit
<1>5. NumUPs \in 1..NumUPs
  BY <1>1
<1>6. Find(order, run).found = None => Find(order, run).cursor \notin run
  <2>1. CASE Find(order, run) = [cursor |-> order[NumUPs], found |-> None]
             /\ \A k \in 1..NumUPs : order[k] \notin run
    BY <1>5, <2>1
  <2>2. CASE \E k \in 1..NumUPs :
               order[k] \in run /\ Find(order, run) = [cursor |-> order[k], found |-> order[k]]
    BY <1>3, <2>2
  <2> QED BY <1>4, <2>1, <2>2
<1> QED BY <1>2, <1>6

\* Searched again when it found nothing, a search finds nothing only if no user
\* processor can run.
LEMMA NothingMeansEmpty ==
    ASSUME NEW cursor \in UPs \cup {None}, NEW run, run \subseteq UPs,
           NEW dont_switch \in BOOLEAN,
           TryUser(NextUser(cursor, run, dont_switch), run).found = None
    PROVE  run = {}
<1> DEFINE f == NextUser(cursor, run, dont_switch)
           g == NextUser(f.cursor, run, FALSE)
<1>1. None \notin run
  BY DEF UPs, None
<1>2. f.cursor \in UPs \cup {None} /\ (f.found = None => f.cursor \notin run)
  BY NextUserMisses, NextUserType
<1>3. TryUser(f, run) = IF f.found = None THEN g ELSE f
  BY DEF TryUser
<1>4. f.found = None /\ g.found = None
  BY <1>3
<1> HIDE DEF f
<1>5. (\A u \in run : u = f.cursor) \/ g.found \in run
  BY <1>2, NextUserIs
<1> HIDE DEF g
<1> QED BY <1>1, <1>2, <1>4, <1>5

-----------------------------------------------------------------------------
(* Alternation *)

\* No user instruction is prefetched only while none can run, or before the first
\* search; try_user_first remembers the last turn; and an instruction without a
\* delay has none to wait for.
Searched ==
    (~exited /\ user_instruction = None) =>
        UpRun(upInstr) = {} \/ (up_cursor = None /\ exec_context # "interrupt")
Remembered ==
    /\ turn.kind = "sm" => try_user_first
    /\ (turn.kind = "user" /\ try_user_first) => turn.go
DelayStarted == \A u \in UPs : upInstr[u].delay = 0 => delay_left[u] <= 0

TurnInv == Inv /\ Searched /\ Remembered /\ DelayStarted

\* In normal context the step finds every user processor that can run.
LEMMA FoundUserMeansEmpty ==
    ASSUME Inv, Searched, ~exited, FoundUser.found = None
    PROVE  UpRun(upInstr) = {}
<1>1. UpRun(upInstr) \subseteq UPs /\ None \notin UPs
  BY DEF UpRun, UPs, None
<1>2. user_instruction = None
  BY DEF FoundUser, TryUser
<1>3. FoundUser = NextUser(up_cursor, UpRun(upInstr), FALSE)
  BY <1>2 DEF FoundUser, TryUser
<1>4. CASE up_cursor = None
  <2>1. None \in UPs \cup {None}
    OBVIOUS
  <2>2. LET f == NextUser(None, UpRun(upInstr), FALSE)
        IN (\A u \in UpRun(upInstr) : u = None) \/ f.found \in UpRun(upInstr)
    BY <1>1, <2>1, NextUserIs
  <2>3. FoundUser = NextUser(None, UpRun(upInstr), FALSE)
    BY <1>3, <1>4
  <2>4. (\A u \in UpRun(upInstr) : u = None) \/ FoundUser.found \in UpRun(upInstr)
    BY <2>2, <2>3
  <2> QED BY <1>1, <2>4
<1> QED BY <1>2, <1>4 DEF Searched

LEMMA TurnInit == Init => TurnInv
<1> SUFFICES ASSUME Init PROVE TurnInv
  OBVIOUS
<1>1. Inv
  BY InitInv
<1>2. Searched /\ Remembered
  BY DEF Init, Searched, Remembered
<1>3. DelayStarted
  BY DEF Init, DelayStarted
<1> QED BY <1>1, <1>2, <1>3 DEF TurnInv

LEMMA TurnUser == TurnInv /\ UserTurn => TurnInv'
<1> SUFFICES ASSUME TurnInv, UserTurn PROVE TurnInv'
  OBVIOUS
<1> DEFINE u == FoundUser.found
           i == upInstr[u]
           left == Delayed(i, delay_left[u])
           go == Continue(i, delay_left[u])
<1>1. Inv /\ Inv' /\ ~exited
  BY UserTurnInv DEF TurnInv, UserTurn, Running
<1>2. u \in UPs /\ i \in UserInstr
  BY <1>1, UserInstrIs
<1>3. /\ upInstr \in [UPs -> UserInstrs \cup {Empty}] /\ delay_left \in [UPs -> -1..31]
      /\ i.delay \in 0..31 /\ i.continue_user \in BOOLEAN /\ delay_left[u] \in -1..31
  BY <1>1, <1>2 DEF Inv, TypeOK, UserInstr
<1>4. i.delay = 0 => delay_left[u] <= 0
  BY <1>2 DEF TurnInv, DelayStarted
<1>5. /\ go \in BOOLEAN /\ left \in -1..31
      /\ i.delay = 0 => left = delay_left[u]
      /\ go => i.continue_user /\ left <= 0
  <2> HIDE DEF i
  <2> QED BY <1>3, <1>4 DEF Delayed, Continue
<1>6. Searched'
  <2> SUFFICES ASSUME ~exited', user_instruction' = None PROVE UpRun(upInstr') = {}
    BY DEF Searched
  <2> DEFINE run == UpRun(upInstr')
  <2>1. user_instruction' = TryUser(NextUser(FoundUser.cursor, run, go), run).found
    BY DEF UserTurn, PrefetchFrom
  <2>2. FoundUser.cursor \in UPs \cup {None} /\ run \subseteq UPs
    BY <1>1, FoundUserIs DEF UpRun
  <2> HIDE DEF go, run
  <2>3. run = {}
    BY <1>5, <2>1, <2>2, NothingMeansEmpty
  <2> QED BY <2>3 DEF run
<1>7. Remembered'
  <2>1. /\ turn' = [kind |-> "user", who |-> u, go |-> i.continue_user /\ left <= 0]
        /\ try_user_first' = go
    BY DEF UserTurn
  <2> HIDE DEF u, i, left, go
  <2>2. turn'.kind = "user" /\ turn'.go = (i.continue_user /\ left <= 0)
    BY <2>1
  <2>3. go => turn'.go
    BY <1>5, <2>2
  <2> QED BY <2>1, <2>2, <2>3 DEF Remembered
<1>8. DelayStarted'
  <2>1. \/ /\ \E next \in UserInstrs \cup {Empty} : upInstr' = [upInstr EXCEPT ![u] = next]
           /\ delay_left' = [delay_left EXCEPT ![u] = -1]
        \/ upInstr' = upInstr /\ delay_left' = [delay_left EXCEPT ![u] = left]
    BY DEF UserTurn
  <2> SUFFICES ASSUME NEW v \in UPs, upInstr'[v].delay = 0 PROVE delay_left'[v] <= 0
    BY DEF DelayStarted
  <2>2. upInstr[v].delay = 0 => delay_left[v] <= 0
    BY DEF TurnInv, DelayStarted
  <2>3. CASE v = u
    <3>1. CASE delay_left' = [delay_left EXCEPT ![u] = -1]
      <4> HIDE DEF u
      <4> QED BY <1>3, <2>3, <3>1
    <3>2. CASE upInstr' = upInstr /\ delay_left' = [delay_left EXCEPT ![u] = left]
      <4>1. i.delay = 0
        BY <2>3, <3>2
      <4> HIDE DEF left
      <4>2. delay_left'[v] = left
        <5> HIDE DEF u
        <5> QED BY <1>3, <2>3, <3>2
      <4> QED BY <1>4, <1>5, <4>1, <4>2
    <3> QED BY <2>1, <3>1, <3>2
  <2>4. CASE v # u
    <3> HIDE DEF u, i, left
    <3>1. upInstr'[v] = upInstr[v] /\ delay_left'[v] = delay_left[v]
      BY <1>3, <2>1, <2>4
    <3> QED BY <2>2, <3>1
  <2> QED BY <2>3, <2>4
<1> QED BY <1>1, <1>6, <1>7, <1>8 DEF TurnInv

LEMMA TurnSm == TurnInv /\ SmTurn => TurnInv'
<1> SUFFICES ASSUME TurnInv, SmTurn PROVE TurnInv'
  OBVIOUS
<1>1. Inv /\ Inv' /\ Searched /\ ~exited
  BY SmTurnInv DEF TurnInv, SmTurn, Running
<1>2. user_instruction' = FoundUser.found /\ UNCHANGED <<upInstr, delay_left>>
  BY DEF SmTurn
<1>3. Searched'
  BY <1>1, <1>2, FoundUserMeansEmpty DEF Searched
<1>4. Remembered'
  BY DEF SmTurn, Remembered
<1>5. DelayStarted'
  BY <1>2 DEF TurnInv, DelayStarted
<1> QED BY <1>1, <1>3, <1>4, <1>5 DEF TurnInv

LEMMA TurnInterrupt ==
    ASSUME TurnInv, NEW outcome \in IhOutcomes, InterruptTurn(outcome) PROVE TurnInv'
<1>1. Inv /\ Inv' /\ ~exited /\ exec_context = "interrupt"
  BY InterruptTurnInv DEF TurnInv, InterruptTurn, Running
<1>2. UNCHANGED <<programs, user_instruction, try_user_first, turn>>
  BY DEF InterruptTurn
<1>3. Searched'
  BY <1>1, <1>2 DEF TurnInv, Searched, programs
<1>4. Remembered' /\ DelayStarted'
  BY <1>2 DEF TurnInv, Remembered, DelayStarted, programs
<1> QED BY <1>1, <1>3, <1>4 DEF TurnInv

LEMMA TurnInductive == TurnInv /\ [Next]_vars => TurnInv'
<1> SUFFICES ASSUME TurnInv, [Next]_vars PROVE TurnInv'
  OBVIOUS
<1>1. CASE UserTurn
  BY <1>1, TurnUser
<1>2. CASE SmTurn
  BY <1>2, TurnSm
<1>3. CASE \E outcome \in IhOutcomes : InterruptTurn(outcome)
  BY <1>3, TurnInterrupt
<1>4. CASE NothingFound
  <2>1. Inv' /\ ~exited /\ UpRun(upInstr) = {}
    BY <1>4, NothingFoundInv, FoundUserMeansEmpty DEF TurnInv, NothingFound, Running
  <2> QED BY <1>4, <2>1 DEF TurnInv, NothingFound, Searched, Remembered, DelayStarted, programs
<1>5. CASE Idle
  <2>1. Inv'
    BY <1>5, IdleInv DEF TurnInv
  <2> QED BY <1>5, <2>1 DEF TurnInv, Idle, Searched, Remembered, DelayStarted, programs
<1>6. CASE UNCHANGED vars
  <2>1. Inv'
    BY <1>6, StutterInv DEF TurnInv
  <2> QED BY <1>6, <2>1 DEF TurnInv, vars, cursors, Searched, Remembered, DelayStarted, programs
<1> QED BY <1>1, <1>2, <1>3, <1>4, <1>5, <1>6 DEF Next

\* exec_step_programs_next_instruction alternates between user and state machine
\* instructions, for any number of processors and any programs: two user turns in
\* a row only after [->] or when no state machine can run, two state machine turns
\* in a row only when no user processor can.
THEOREM SidesAlternate == Spec => TurnsAlternate
<1>1. Init => TurnInv
  BY TurnInit
<1>2. TurnInv /\ [Next]_vars => TurnInv'
  BY TurnInductive
<1>3. ASSUME TurnInv
      PROVE  /\ UserAfterUser => turn.go \/ smRun = {}
             /\ SmAfterSm => UpRun(upInstr) = {}
  <2>1. Inv /\ Searched /\ Remembered
    BY <1>3 DEF TurnInv
  <2>2. ASSUME UserAfterUser PROVE turn.go \/ smRun = {}
    <3>1. try_user_first \/ FoundSm.found = None
      BY <2>2 DEF UserAfterUser, UserTurn
    <3>2. FoundSm.found = None => smRun = {}
      <4>1. None \notin smRun
        BY <2>1 DEF Inv, TypeOK, SMs, None
      <4> QED BY <2>1, <4>1, FoundSmIs
    <3> QED BY <2>1, <2>2, <3>1, <3>2 DEF UserAfterUser, Remembered
  <2>3. ASSUME SmAfterSm PROVE UpRun(upInstr) = {}
    <3>1. /\ ~try_user_first \/ FoundUser.found = None
          /\ turn.kind = "sm" /\ ~exited
      BY <2>3 DEF SmAfterSm, SmTurn, Running
    <3> QED BY <2>1, <3>1, FoundUserMeansEmpty DEF Remembered
  <2> QED BY <2>2, <2>3
<1> QED BY <1>1, <1>2, <1>3, PTL DEF Spec, TurnsAlternate

-----------------------------------------------------------------------------
(* Which handler is enabled *)

\* With one handler, being in interrupt context, the handler being enabled and its
\* pc being at an instruction are one thing.
OneHandlerInv ==
    ~exited => /\ exec_context \in {"normal", "interrupt"}
               /\ ih_enabled[0] <=> exec_context = "interrupt"
               /\ exec_context = "interrupt" => ih_pc[0] >= 0

LEMMA OneHandlerInductive ==
    ASSUME NumIHs = 1 PROVE Inv /\ OneHandlerInv /\ [Next]_vars => OneHandlerInv'
<1> SUFFICES ASSUME Inv, OneHandlerInv, [Next]_vars PROVE OneHandlerInv'
  OBVIOUS
<1>1. /\ IHs = {0} /\ ih_pc \in [IHs -> Nat \cup {-1}] /\ ih_enabled \in [IHs -> BOOLEAN]
      /\ IhLength \in Nat \ {0} /\ \A f \in Flags : HandlerOf[f] = 0
  <2>1. IHs = {0}
    BY DEF IHs
  <2> QED BY <2>1, SchedulerAssumption DEF Inv, TypeOK
<1>2. CASE UserTurn
  BY <1>2 DEF UserTurn, Running, OneHandlerInv, ihs
<1>3. CASE SmTurn
  <2>1. /\ flags' \subseteq Flags /\ ~exited /\ exited' = exited /\ exec_context = "normal"
    BY <1>3 DEF SmTurn, Running, Inv, TypeOK
  <2>2. CASE /\ Fires(flags') # {} /\ exec_context' = "interrupt"
             /\ ih_enabled' = [ih_enabled EXCEPT ![FiredHandler(flags')] = TRUE]
             /\ ih_pc' = [ih_pc EXCEPT ![FiredHandler(flags')] = 0]
    <3>1. Fires(flags') # {} /\ Fires(flags') \subseteq Nat
      <4>1. Flags \subseteq Nat
        BY SchedulerAssumption DEF Flags
      <4> QED BY <2>1, <2>2, <4>1 DEF Fires
    <3>2. \E f \in Fires(flags') : \A g \in Fires(flags') : f <= g
      BY <3>1, Least
    <3>3. FiredHandler(flags') = 0
      <4> DEFINE first == CHOOSE f \in Fires(flags') : \A g \in Fires(flags') : f <= g
      <4>1. first \in Fires(flags')
        BY <3>2
      <4>2. FiredHandler(flags') = HandlerOf[first]
        BY DEF FiredHandler
      <4> HIDE DEF first
      <4> QED BY <1>1, <2>1, <4>1, <4>2 DEF Fires
    <3> QED BY <1>1, <2>2, <3>3 DEF OneHandlerInv
  <2>3. CASE UNCHANGED <<exec_context, ihs>>
    BY <2>1, <2>3 DEF OneHandlerInv, ihs
  <2> QED BY <1>3, <2>2, <2>3 DEF SmTurn
<1>4. CASE \E outcome \in IhOutcomes : InterruptTurn(outcome)
  <2>1. PICK outcome \in IhOutcomes : InterruptTurn(outcome)
    BY <1>4
  <2>2. /\ ~exited /\ exec_context = "interrupt" /\ ih_enabled[0] /\ ih_pc[0] \in Nat
    BY <1>1, <2>1 DEF InterruptTurn, Running, OneHandlerInv
  <2>3. Stepped = 0
    BY <1>1, <2>2 DEF Stepped
  <2> DEFINE pc == IF ih_pc[0] >= IhLength \/ outcome \in {"done", "exit"}
                   THEN ih_pc[0] + 1 ELSE 0
  <2>4. /\ ih_pc' = [ih_pc EXCEPT ![0] = pc]
        /\ \/ ih_enabled' = [ih_enabled EXCEPT ![0] = FALSE] /\ exec_context' = "normal"
           \/ ih_enabled' = ih_enabled /\ exec_context' = exec_context
    BY <2>1, <2>3 DEF InterruptTurn, Disable
  <2>5. pc \in Nat
    BY <2>2
  <2> HIDE DEF pc
  <2>6. ih_pc'[0] >= 0
    BY <1>1, <2>4, <2>5
  <2> QED BY <1>1, <2>2, <2>4, <2>6 DEF OneHandlerInv
<1>5. CASE NothingFound
  BY <1>5 DEF NothingFound, OneHandlerInv, ihs
<1>6. CASE Idle
  BY <1>6 DEF Idle, OneHandlerInv
<1>7. CASE UNCHANGED vars
  BY <1>7 DEF vars, OneHandlerInv, ihs
<1> QED BY <1>2, <1>3, <1>4, <1>5, <1>6, <1>7 DEF Next

\* With one interrupt handler, fired_ihs never takes a finished handler for a
\* running one: it is enabled exactly while interrupt context runs it, whatever
\* its length and its instructions do and however many flags are mapped to it.
THEOREM OneHandlerIsEnabledWhileRun ==
    ASSUME NumIHs = 1 PROVE Spec => []EnabledHandlerRuns
<1>1. Init => Inv /\ OneHandlerInv
  <2>1. Init => OneHandlerInv
    <3>1. IHs = {0}
      BY DEF IHs
    <3> QED BY <3>1 DEF Init, OneHandlerInv
  <2> QED BY <2>1, InitInv
<1>2. Inv /\ OneHandlerInv /\ [Next]_vars => (Inv /\ OneHandlerInv)'
  BY OneHandlerInductive, InvIsInductive
<1>3. Inv /\ OneHandlerInv => EnabledHandlerRuns
  <2> SUFFICES ASSUME Inv, OneHandlerInv PROVE EnabledHandlerRuns
    OBVIOUS
  <2>1. IHs = {0}
    BY DEF IHs
  <2>2. ~exited /\ exec_context = "interrupt" => Stepped = 0
    BY <2>1 DEF Stepped, OneHandlerInv
  <2> QED BY <2>1, <2>2 DEF OneHandlerInv, EnabledHandlerRuns
<1> QED BY <1>1, <1>2, <1>3, PTL DEF Spec

-----------------------------------------------------------------------------
(* Round robin *)

\* The turns p has to wait for when the search stands at c, of n processors.
Pos(n, c, p) == IF p >= c THEN p - c ELSE p - c + n

\* Where the search stops next, every other processor is nearer than it was.
LEMMA Nearer ==
    ASSUME NEW n \in Nat \ {0}, NEW c \in 0..(n - 1), NEW d \in 0..(n - 1), NEW p \in 0..(n - 1),
           p # c, Fwd(n, c, d) <= Fwd(n, c, p)
    PROVE  Pos(n, d, p) < Pos(n, c, p)
BY DEF Fwd, Pos

\* One turn of p, and one search from it, keeps what everyone has waited and has
\* still to wait below the number of processors.
LEMMA TurnKeepsShares ==
    ASSUME NEW n \in Nat \ {0}, NEW old \in [0..(n - 1) -> Nat],
           NEW run, run \subseteq 0..(n - 1), NEW p \in run,
           \A q \in run : old[q] + Pos(n, p, q) < n,
           NEW left, left \subseteq run
    PROVE  /\ Waited(old, run, p, n) \in [0..(n - 1) -> Nat]
           /\ \A q \in left : Waited(old, run, p, n)[q] < n
           /\ \A d \in left : (\A q \in left : Fwd(n, p, d) <= Fwd(n, p, q)) =>
                  \A q \in left : Waited(old, run, p, n)[q] + Pos(n, d, q) < n
<1> DEFINE new == Waited(old, run, p, n)
<1>1. new = [q \in 0..(n - 1) |-> IF q = p \/ q \notin run THEN 0
                                  ELSE IF old[q] < n THEN old[q] + 1 ELSE n]
  BY DEF Waited
<1>2. new \in [0..(n - 1) -> Nat]
  BY <1>1
<1>3. ASSUME NEW q \in left
      PROVE  /\ q \in 0..(n - 1) /\ p \in 0..(n - 1) /\ old[q] \in Nat
             /\ old[q] + Pos(n, p, q) < n
             /\ new[q] = IF q = p THEN 0 ELSE IF old[q] < n THEN old[q] + 1 ELSE n
             /\ Pos(n, p, q) \in 0..(n - 1) /\ (q # p => Pos(n, p, q) > 0)
  <2>1. q \in run /\ q \in 0..(n - 1) /\ p \in 0..(n - 1)
    OBVIOUS
  <2>2. Pos(n, p, q) \in 0..(n - 1) /\ (q # p => Pos(n, p, q) > 0)
    BY <2>1 DEF Pos
  <2> QED BY <1>1, <2>1, <2>2
<1> HIDE DEF new
<1>4. \A q \in left : new[q] < n
  BY <1>3
<1>5. ASSUME NEW d \in left, \A q \in left : Fwd(n, p, d) <= Fwd(n, p, q), NEW q \in left
      PROVE  new[q] + Pos(n, d, q) < n
  <2>1. d \in 0..(n - 1) /\ Pos(n, d, q) \in 0..(n - 1)
    BY <1>3 DEF Pos
  <2>2. CASE q = p
    BY <1>3, <2>1, <2>2
  <2>3. CASE q # p
    <3>1. Pos(n, d, q) < Pos(n, p, q)
      BY <1>3, <1>5, <2>1, <2>3, Nearer
    <3>2. old[q] < n /\ old[q] \in Nat /\ Pos(n, p, q) \in Nat
      BY <1>3
    <3>3. new[q] = old[q] + 1
      BY <1>3, <2>3, <3>2
    <3>4. old[q] + Pos(n, p, q) < n
      BY <1>3
    <3> QED BY <2>1, <3>1, <3>2, <3>3, <3>4
  <2> QED BY <2>2, <2>3
<1> QED BY <1>2, <1>4, <1>5 DEF new

\* What each state machine has waited and has still to wait.
SmShares ==
    /\ sm_waited \in [SMs -> Nat]
    /\ instruction = None => \A s \in smRun : sm_waited[s] = 0
    /\ instruction # None =>
           /\ instruction = sm_cursor
           /\ \A s \in smRun : sm_waited[s] + Pos(NumSMs, sm_cursor, s) < NumSMs

\* The same of the user processors; an EXIT leaves the search where it was.
UpShares ==
    /\ up_waited \in [UPs -> Nat]
    /\ exited => \A u \in UpRun(upInstr) : up_waited[u] < NumUPs
    /\ (~exited /\ user_instruction = None) =>
           \/ UpRun(upInstr) = {}
           \/ up_cursor = None /\ \A u \in UpRun(upInstr) : up_waited[u] = 0
    /\ (~exited /\ user_instruction # None) =>
           /\ user_instruction = up_cursor
           /\ \A u \in UpRun(upInstr) : up_waited[u] + Pos(NumUPs, up_cursor, u) < NumUPs

NoContinue == \A i \in UserInstrs : ~i.continue_user

SharesInv ==
    /\ Inv /\ exec_context # "interrupt"
    /\ SmShares /\ (NoContinue => UpShares)

LEMMA FoundSmShares ==
    ASSUME Inv, SmShares, FoundSm.found # None
    PROVE  /\ FoundSm.found \in smRun /\ FoundSm.found = FoundSm.cursor
           /\ \A s \in smRun : sm_waited[s] + Pos(NumSMs, FoundSm.found, s) < NumSMs
<1>1. smRun \subseteq SMs /\ sm_cursor \in SMs \cup {None} /\ NumSMs \in Nat \ {0}
  BY SchedulerAssumption DEF Inv, TypeOK
<1>2. CASE instruction = None
  <2>1. FoundSm = NextSm(sm_cursor, smRun)
    BY <1>2 DEF FoundSm, TrySm
  <2>2. FoundSm.found \in smRun /\ FoundSm.found = FoundSm.cursor
    <3>1. LET f == NextSm(sm_cursor, smRun)
          IN f.found # None => f.found \in smRun /\ f.found = f.cursor
      BY <1>1, NextSmIs
    <3> QED BY <2>1, <3>1
  <2>3. ASSUME NEW s \in smRun PROVE Pos(NumSMs, FoundSm.found, s) \in 0..(NumSMs - 1)
    <3>1. FoundSm.found \in 0..(NumSMs - 1) /\ s \in 0..(NumSMs - 1)
      BY <1>1, <2>2 DEF SMs
    <3> QED BY <1>1, <3>1 DEF Pos
  <2>4. \A s \in smRun : sm_waited[s] = 0
    BY <1>2 DEF SmShares
  <2> QED BY <1>1, <2>2, <2>3, <2>4
<1>3. CASE instruction # None
  <2>1. FoundSm.cursor = sm_cursor /\ FoundSm.found = instruction
    BY <1>3 DEF FoundSm, TrySm
  <2>2. instruction \in smRun
    BY <1>3 DEF Inv, PrefetchIsCurrent
  <2> QED BY <1>3, <2>1, <2>2 DEF SmShares
<1> QED BY <1>2, <1>3

LEMMA FoundUserShares ==
    ASSUME Inv, UpShares, ~exited
    PROVE  \/ FoundUser.found = None /\ UpRun(upInstr) = {}
           \/ /\ FoundUser.found \in UpRun(upInstr) /\ FoundUser.found = FoundUser.cursor
              /\ \A u \in UpRun(upInstr) :
                     up_waited[u] + Pos(NumUPs, FoundUser.found, u) < NumUPs
<1>1. /\ UpRun(upInstr) \subseteq UPs /\ up_cursor \in UPs \cup {None}
      /\ NumUPs \in Nat \ {0} /\ None \notin UPs
  BY SchedulerAssumption DEF Inv, TypeOK, UpRun, UPs, None
<1>2. CASE user_instruction # None
  <2>1. FoundUser.cursor = up_cursor /\ FoundUser.found = user_instruction
    BY <1>2 DEF FoundUser, TryUser
  <2>2. user_instruction \in UpRun(upInstr)
    BY <1>2 DEF Inv, PrefetchIsCurrent
  <2> QED BY <1>2, <2>1, <2>2 DEF UpShares
<1>3. CASE UpRun(upInstr) = {}
  BY <1>3, FoundUserIs
<1>4. CASE user_instruction = None /\ up_cursor = None /\ UpRun(upInstr) # {}
  <2>1. FoundUser = NextUser(None, UpRun(upInstr), FALSE)
    BY <1>4 DEF FoundUser, TryUser
  <2>2. FoundUser.found \in UpRun(upInstr) /\ FoundUser.found = FoundUser.cursor
    <3>1. None \in UPs \cup {None}
      OBVIOUS
    <3>2. LET f == NextUser(None, UpRun(upInstr), FALSE)
          IN \/ \A u \in UpRun(upInstr) : u = None
             \/ f.found \in UpRun(upInstr) /\ f.found = f.cursor
      BY <1>1, <3>1, NextUserIs
    <3>3. \/ \A u \in UpRun(upInstr) : u = None
          \/ FoundUser.found \in UpRun(upInstr) /\ FoundUser.found = FoundUser.cursor
      BY <2>1, <3>2
    <3> QED BY <1>1, <1>4, <3>3
  <2>3. ASSUME NEW u \in UpRun(upInstr) PROVE Pos(NumUPs, FoundUser.found, u) \in 0..(NumUPs - 1)
    <3>1. FoundUser.found \in 0..(NumUPs - 1) /\ u \in 0..(NumUPs - 1)
      BY <1>1, <2>2 DEF UPs
    <3> QED BY <1>1, <3>1 DEF Pos
  <2>4. \A u \in UpRun(upInstr) : up_waited[u] = 0
    BY <1>4 DEF UpShares
  <2> QED BY <1>1, <2>2, <2>3, <2>4
<1> QED BY <1>2, <1>3, <1>4 DEF UpShares

LEMMA SharesInit == Init => SharesInv
<1> SUFFICES ASSUME Init PROVE SharesInv
  OBVIOUS
<1>1. sm_waited \in [SMs -> Nat] /\ up_waited \in [UPs -> Nat]
  BY DEF Init
<1>2. \A s \in SMs : sm_waited[s] = 0
  BY DEF Init
<1>3. \A u \in UPs : up_waited[u] = 0
  BY DEF Init
<1>4. smRun \subseteq SMs /\ UpRun(upInstr) \subseteq UPs
  BY DEF Init, UpRun
<1> QED BY <1>1, <1>2, <1>3, <1>4, InitInv DEF Init, SharesInv, SmShares, UpShares

LEMMA SharesUser == SharesInv /\ UserTurn => SharesInv'
<1> SUFFICES ASSUME SharesInv, UserTurn PROVE SharesInv'
  OBVIOUS
<1> DEFINE u == FoundUser.found
           i == upInstr[u]
           go == Continue(i, delay_left[u])
           run == UpRun(upInstr')
           next == TryUser(NextUser(FoundUser.cursor, run, go), run)
<1>1. /\ Inv /\ Inv' /\ ~exited /\ exec_context' # "interrupt" /\ SmShares
      /\ u \in UPs /\ u \in UpRun(upInstr) /\ i \in UserInstrs
      /\ upInstr \in [UPs -> UserInstrs \cup {Empty}]
  BY UserTurnInv, UserInstrIs DEF SharesInv, UserTurn, Running, Inv, TypeOK
<1>2. SmShares'
  <2>1. /\ sm_cursor' = FoundSm.cursor /\ instruction' = FoundSm.found
        /\ smRun' = smRun /\ sm_waited' = sm_waited
    BY DEF UserTurn
  <2>2. CASE FoundSm.found # None
    BY <1>1, <2>1, <2>2, FoundSmShares DEF SmShares
  <2>3. CASE FoundSm.found = None
    <3>1. smRun = {}
      <4>1. None \notin smRun
        BY <1>1 DEF Inv, TypeOK, SMs, None
      <4> QED BY <1>1, <2>3, <4>1, FoundSmIs
    <3> QED BY <1>1, <2>1, <2>3, <3>1 DEF SmShares
  <2> QED BY <2>2, <2>3
<1>3. ASSUME NoContinue PROVE UpShares'
  <2>1. /\ NumUPs \in Nat \ {0} /\ UPs = 0..(NumUPs - 1) /\ UpShares
        /\ up_waited \in [UPs -> Nat]
    BY <1>3, SchedulerAssumption DEF SharesInv, UpShares, UPs
  <2>2. /\ u = FoundUser.cursor
        /\ \A v \in UpRun(upInstr) : up_waited[v] + Pos(NumUPs, u, v) < NumUPs
    <3>1. u # None
      BY DEF UserTurn
    <3> QED BY <1>1, <2>1, <3>1, FoundUserShares
  <2>3. ~go /\ go \in BOOLEAN
    <3>1. ~i.continue_user
      BY <1>1, <1>3 DEF NoContinue
    <3> QED BY <3>1 DEF Continue
  <2>4. run \subseteq UpRun(upInstr) /\ UpRun(upInstr) \subseteq UPs
    <3>1. \A v \in UPs : v = u \/ upInstr'[v] = upInstr[v]
      <4>1. \/ \E instr \in UserInstrs \cup {Empty} : upInstr' = [upInstr EXCEPT ![u] = instr]
            \/ upInstr' = upInstr
        BY DEF UserTurn
      <4> HIDE DEF u
      <4> QED BY <1>1, <4>1
    <3> HIDE DEF u
    <3> QED BY <1>1, <3>1 DEF UpRun
  <2>5. up_waited' = Waited(up_waited, UpRun(upInstr), u, NumUPs)
    BY DEF UserTurn
  <2> HIDE DEF u
  <2>6. /\ up_waited' \in [UPs -> Nat] /\ \A v \in run : up_waited'[v] < NumUPs
        /\ \A d \in run : (\A v \in run : Fwd(NumUPs, u, d) <= Fwd(NumUPs, u, v)) =>
               \A v \in run : up_waited'[v] + Pos(NumUPs, d, v) < NumUPs
    <3> HIDE DEF run
    <3> QED BY <1>1, <2>1, <2>2, <2>4, <2>5, TurnKeepsShares
  <2>7. IF exited' THEN up_cursor' = FoundUser.cursor /\ user_instruction' = u
                   ELSE up_cursor' = next.cursor /\ user_instruction' = next.found
    BY DEF UserTurn, PrefetchFrom, u
  <2>8. ~exited' => \/ run = {} /\ user_instruction' = None
                    \/ /\ user_instruction' \in run /\ user_instruction' = up_cursor'
                       /\ \A v \in run : Fwd(NumUPs, u, user_instruction') <= Fwd(NumUPs, u, v)
    <3> HIDE DEF go, run
    <3>1. FoundUser.cursor \in UPs \cup {None} /\ run \subseteq UPs
      BY <1>1, <2>2, <2>4
    <3>2. \/ run = {} /\ next.found = None
          \/ /\ next.found \in run /\ next.found = next.cursor
             /\ \A v \in run : Fwd(NumUPs, FoundUser.cursor, next.found)
                               <= Fwd(NumUPs, FoundUser.cursor, v)
      BY <2>3, <3>1, SearchedTwice
    <3> HIDE DEF next
    <3> QED BY <2>2, <2>7, <3>2
  <2>9. None \notin run
    BY <2>1, <2>4 DEF None
  <2>10. ~exited' => \/ run = {} /\ user_instruction' = None
                     \/ /\ user_instruction' # None /\ user_instruction' = up_cursor'
                        /\ \A v \in run : up_waited'[v] + Pos(NumUPs, up_cursor', v) < NumUPs
    <3> HIDE DEF run
    <3> QED BY <2>6, <2>8, <2>9
  <2> QED BY <2>6, <2>10 DEF UpShares
<1> QED BY <1>1, <1>2, <1>3 DEF SharesInv, NoContinue

LEMMA SharesSm ==
    ASSUME NumFlags = 0 PROVE SharesInv /\ SmTurn => SharesInv'
<1> SUFFICES ASSUME SharesInv, SmTurn PROVE SharesInv'
  OBVIOUS
<1> DEFINE s == FoundSm.found
           searched == NextSm(FoundSm.cursor, smRun')
<1>1. /\ Inv /\ Inv' /\ ~exited /\ ~exited' /\ SmShares /\ exec_context # "interrupt"
      /\ s # None
  BY SmTurnInv DEF SharesInv, SmTurn, Running
<1>2. /\ s \in smRun /\ s = FoundSm.cursor
      /\ \A q \in smRun : sm_waited[q] + Pos(NumSMs, s, q) < NumSMs
  BY <1>1, FoundSmShares
<1>3. /\ NumSMs \in Nat \ {0} /\ SMs = 0..(NumSMs - 1) /\ smRun \subseteq SMs
      /\ sm_waited \in [SMs -> Nat] /\ smRun' \subseteq smRun
  BY <1>1, SchedulerAssumption DEF SmShares, SmTurn, Inv, TypeOK, SMs
<1>4. /\ exec_context' # "interrupt"
      /\ sm_cursor' = TrySm(searched, smRun').cursor
      /\ instruction' = TrySm(searched, smRun').found
  <2>1. Fires(flags') = {}
    <3>1. flags' \subseteq Flags /\ Flags = {}
      BY <1>1 DEF Inv, TypeOK, Flags
    <3> QED BY <3>1 DEF Fires
  <2> QED BY <1>1, <2>1 DEF SmTurn, PrefetchFrom
<1>5. sm_waited' = Waited(sm_waited, smRun, s, NumSMs)
  BY DEF SmTurn
<1> HIDE DEF s
<1>6. /\ sm_waited' \in [SMs -> Nat]
      /\ \A d \in smRun' : (\A q \in smRun' : Fwd(NumSMs, s, d) <= Fwd(NumSMs, s, q)) =>
             \A q \in smRun' : sm_waited'[q] + Pos(NumSMs, d, q) < NumSMs
  BY <1>2, <1>3, <1>5, TurnKeepsShares
<1>7. \/ smRun' = {} /\ instruction' = None
      \/ /\ instruction' \in smRun' /\ instruction' = sm_cursor'
         /\ \A q \in smRun' : Fwd(NumSMs, s, instruction') <= Fwd(NumSMs, s, q)
  <2>1. FoundSm.cursor \in SMs \cup {None} /\ smRun' \subseteq SMs
    BY <1>2, <1>3
  <2>2. \/ smRun' = {} /\ searched.found = None
        \/ /\ searched.found \in smRun' /\ searched.found = searched.cursor
           /\ \A q \in smRun' : Fwd(NumSMs, FoundSm.cursor, searched.found)
                                <= Fwd(NumSMs, FoundSm.cursor, q)
    BY <2>1, NextSmIs
  <2>3. searched.cursor \in SMs
    BY <2>1, NextSmIs
  <2> HIDE DEF searched
  <2>4. CASE smRun' = {}
    <3>1. TrySm(searched, smRun').found = None
      <4>1. NextSm(searched.cursor, smRun').found = None
        BY <2>1, <2>3, <2>4, NextSmIs
      <4>2. searched.found = None
        BY <2>2, <2>4
      <4>3. TrySm(searched, smRun') = NextSm(searched.cursor, smRun')
        BY <4>2 DEF TrySm
      <4> QED BY <4>1, <4>3
    <3> QED BY <1>4, <2>4, <3>1
  <2>5. CASE smRun' # {}
    <3>1. searched.found # None
      <4>1. searched.found \in smRun'
        BY <2>2, <2>5
      <4>2. None \notin smRun'
        BY <1>3 DEF None
      <4> QED BY <4>1, <4>2
    <3>2. TrySm(searched, smRun') = searched
      BY <3>1 DEF TrySm
    <3> QED BY <1>2, <1>4, <2>2, <2>5, <3>2
  <2> QED BY <2>4, <2>5
<1>8. None \notin smRun'
  BY <1>3 DEF None
<1>9. SmShares'
  BY <1>6, <1>7, <1>8 DEF SmShares
<1>10. ASSUME NoContinue PROVE UpShares'
  <2>1. UpShares
    BY <1>10 DEF SharesInv
  <2>2. /\ up_cursor' = FoundUser.cursor /\ user_instruction' = FoundUser.found
        /\ upInstr' = upInstr /\ up_waited' = up_waited
    BY DEF SmTurn
  <2>3. None \notin UpRun(upInstr)
    BY DEF UpRun, UPs, None
  <2> QED BY <1>1, <2>1, <2>2, <2>3, FoundUserShares DEF UpShares
<1> QED BY <1>1, <1>4, <1>9, <1>10 DEF SharesInv, NoContinue

LEMMA SharesInductive ==
    ASSUME NumFlags = 0 PROVE SharesInv /\ [Next]_vars => SharesInv'
<1> SUFFICES ASSUME SharesInv, [Next]_vars PROVE SharesInv'
  OBVIOUS
<1>1. CASE UserTurn
  BY <1>1, SharesUser
<1>2. CASE SmTurn
  BY <1>2, SharesSm
<1>3. CASE \E outcome \in IhOutcomes : InterruptTurn(outcome)
  BY <1>3 DEF InterruptTurn, Running, SharesInv
<1>4. CASE NothingFound
  <2>1. /\ Inv /\ Inv' /\ ~exited /\ exec_context' = exec_context
        /\ smRun' = smRun /\ upInstr' = upInstr /\ exited' = exited
        /\ UNCHANGED <<sm_waited, up_waited, instruction, user_instruction>>
    BY <1>4, NothingFoundInv DEF SharesInv, NothingFound, Running, programs, waited
  <2>2. smRun = {} /\ instruction = None
    <3>1. None \notin smRun /\ FoundSm.found = None
      BY <1>4, <2>1 DEF NothingFound, Inv, TypeOK, SMs, None
    <3>2. smRun = {}
      BY <2>1, <3>1, FoundSmIs
    <3> QED BY <2>1, <3>2 DEF Inv, PrefetchIsCurrent
  <2>3. SmShares'
    BY <2>1, <2>2 DEF SharesInv, SmShares
  <2>4. ASSUME NoContinue PROVE UpShares'
    <3>1. UpShares /\ None \notin UpRun(upInstr)
      BY <2>4 DEF SharesInv, UpRun, UPs, None
    <3>2. UpRun(upInstr) = {}
      BY <1>4, <2>1, <3>1, FoundUserShares DEF NothingFound
    <3>3. user_instruction = None
      BY <2>1, <3>2 DEF Inv, PrefetchIsCurrent
    <3> QED BY <2>1, <3>1, <3>2, <3>3 DEF UpShares
  <2> QED BY <2>1, <2>3, <2>4 DEF SharesInv, NoContinue
<1>5. CASE Idle
  <2>1. Inv'
    BY <1>5, IdleInv DEF SharesInv
  <2>2. UNCHANGED <<programs, cursors, exited, waited>> /\ exec_context' = "idle"
    BY <1>5 DEF Idle
  <2> QED BY <2>1, <2>2
       DEF SharesInv, SmShares, UpShares, NoContinue, programs, cursors, waited
<1>6. CASE UNCHANGED vars
  <2>1. Inv'
    BY <1>6, StutterInv DEF SharesInv
  <2> QED BY <1>6, <2>1
       DEF vars, SharesInv, SmShares, UpShares, NoContinue, programs, cursors, waited
<1> QED BY <1>1, <1>2, <1>3, <1>4, <1>5, <1>6 DEF Next

\* Without interrupts, whatever the programs and however many processors there
\* are, next_instruction and next_user_instruction serve the processors that can
\* run in round robin; the user side as long as no program uses [->].
THEOREM SearchesAreRoundRobin ==
    ASSUME NumFlags = 0 PROVE Spec => []RoundRobin
<1>1. Init => SharesInv
  BY SharesInit
<1>2. SharesInv /\ [Next]_vars => SharesInv'
  BY SharesInductive
<1>3. SharesInv => RoundRobin
  <2> SUFFICES ASSUME SharesInv PROVE RoundRobin
    OBVIOUS
  <2>1. /\ NumSMs \in Nat \ {0} /\ NumUPs \in Nat \ {0}
        /\ sm_cursor \in SMs \cup {None} /\ up_cursor \in UPs \cup {None}
        /\ smRun \subseteq SMs /\ UpRun(upInstr) \subseteq UPs
        /\ sm_waited \in [SMs -> Nat] /\ None = -1
    BY SchedulerAssumption DEF SharesInv, SmShares, Inv, TypeOK, UpRun, None
  <2>2. ASSUME NEW s \in smRun PROVE sm_waited[s] < NumSMs
    <3>1. s \in 0..(NumSMs - 1) /\ sm_waited[s] \in Nat
      BY <2>1 DEF SMs
    <3>2. CASE instruction = None
      BY <2>1, <3>2 DEF SharesInv, SmShares
    <3>3. CASE instruction # None
      <4>1. sm_cursor \in 0..(NumSMs - 1)
        BY <2>1, <3>3 DEF SharesInv, SmShares, SMs
      <4>2. Pos(NumSMs, sm_cursor, s) \in Nat
        BY <2>1, <3>1, <4>1 DEF Pos
      <4>3. sm_waited[s] + Pos(NumSMs, sm_cursor, s) < NumSMs
        BY <3>3 DEF SharesInv, SmShares
      <4> QED BY <2>1, <3>1, <4>2, <4>3
    <3> QED BY <3>2, <3>3
  <2>3. ASSUME NoContinue, NEW u \in UpRun(upInstr) PROVE up_waited[u] < NumUPs
    <3>1. UpShares /\ u \in 0..(NumUPs - 1) /\ up_waited[u] \in Nat
      BY <2>1, <2>3 DEF SharesInv, UpShares, UPs
    <3>2. CASE exited
      BY <3>1, <3>2 DEF UpShares
    <3>3. CASE ~exited /\ user_instruction = None
      BY <2>1, <3>1, <3>3 DEF UpShares
    <3>4. CASE ~exited /\ user_instruction # None
      <4>1. up_cursor \in 0..(NumUPs - 1)
        BY <2>1, <3>1, <3>4 DEF UpShares, UPs
      <4>2. Pos(NumUPs, up_cursor, u) \in Nat
        BY <2>1, <3>1, <4>1 DEF Pos
      <4>3. up_waited[u] + Pos(NumUPs, up_cursor, u) < NumUPs
        BY <3>1, <3>4 DEF UpShares
      <4> QED BY <2>1, <3>1, <4>2, <4>3
    <3> QED BY <3>2, <3>3, <3>4
  <2> QED BY <2>2, <2>3 DEF RoundRobin, NoContinue
<1> QED BY <1>1, <1>2, <1>3, PTL DEF Spec
=============================================================================
