---------------------------- MODULE TimelineProofs ----------------------------
(***************************************************************************)
(* What holds of the pin history of Timeline for every size of the ring,   *)
(* every width of the terminal and any number of samples: the ring is in   *)
(* order of time, and so is a display.                                     *)
(***************************************************************************)
EXTENDS Timeline, TLAPS

(* How the two counters of the code come from the number of samples taken. *)
(* The invariants say nothing of it, but a full ring shows a cell from     *)
(* before the start unless one sample more than Max has been taken.        *)
Counted == /\ count = IF taken < Max THEN taken ELSE Max
           /\ taken <= Max => index = taken

(* How many samples ago cell i was written, if its sample is of this       *)
(* history: the index goes round one place more than there are cells.      *)
Age(i) == IF i <= index THEN index - i ELSE index + Max + 1 - i

(* What just this ring holds: each cell the last sample whose turn it was. *)
RingExactly ==
    \A i \in Cells : gpio_history[i] = IF Age(i) < taken THEN taken - Age(i) ELSE 0

IInv == TypeOK /\ RingExactly /\ Counted /\ ShownInOrder

USE TimelineAssumption DEF Cells

-----------------------------------------------------------------------------
(* The ring *)

\* A cell's age grows by one when the index moves on, unless it is the one the
\* index comes to, whose age is zero; also where the index leaves the array.
LEMMA AgeGrows ==
    ASSUME TypeOK, NEW i \in Cells, index' = NextIndex
    PROVE  Age(i)' = IF i = NextIndex THEN 0 ELSE Age(i) + 1
<1>1. i \in Int /\ 0 <= i /\ i < Max /\ index \in Int /\ 0 <= index /\ index <= Max
  BY DEF TypeOK
<1>2. index = Max => count = Max
  BY DEF TypeOK
<1> QED BY <1>1, <1>2 DEF Age, NextIndex

\* No cell is ever older than the ring is long.
LEMMA AgeBounds ==
    ASSUME TypeOK, NEW i \in Cells
    PROVE  Age(i) \in 0..(Max + 1)
  BY DEF TypeOK, Age

LEMMA UpdateType == TypeOK /\ Update => TypeOK'
<1> SUFFICES ASSUME TypeOK, Update PROVE TypeOK'
  OBVIOUS
<1>1. NextIndex \in 0..Max
  BY DEF TypeOK, NextIndex
<1>2. taken \in Nat /\ taken' = taken + 1
  BY DEF TypeOK, Update
<1>3. gpio_history' \in [Cells -> 0..taken']
  <2>1. \A i \in Cells : gpio_history[i] \in 0..taken'
    BY <1>2 DEF TypeOK
  <2>2. taken' \in 0..taken'
    BY <1>2
  <2> QED BY <2>1, <2>2 DEF Update
<1>4. count' \in 0..Max /\ (count' < Max => index' = count')
  BY DEF TypeOK, Update, NextIndex
<1> QED BY <1>1, <1>2, <1>3, <1>4 DEF TypeOK, Update

LEMMA UpdateRing == TypeOK /\ RingExactly /\ Update => RingExactly'
<1> SUFFICES ASSUME TypeOK, RingExactly, Update, NEW i \in Cells
             PROVE  gpio_history'[i] = IF Age(i)' < taken' THEN taken' - Age(i)' ELSE 0
  BY DEF RingExactly
<1>1. taken \in Nat /\ taken' = taken + 1
  BY DEF TypeOK, Update
<1>2. Age(i)' = IF i = NextIndex THEN 0 ELSE Age(i) + 1
  BY AgeGrows DEF Update
<1>3. Age(i) \in 0..(Max + 1)
  BY AgeBounds
<1>4. gpio_history[i] = IF Age(i) < taken THEN taken - Age(i) ELSE 0
  BY DEF RingExactly
<1>5. gpio_history'[i] = IF i = NextIndex THEN taken' ELSE gpio_history[i]
  BY DEF Update
<1>6. CASE i = NextIndex
  BY <1>1, <1>2, <1>5, <1>6
<1>7. CASE i # NextIndex
  BY <1>1, <1>2, <1>3, <1>4, <1>5, <1>7
<1> QED BY <1>6, <1>7

LEMMA UpdateCounted == TypeOK /\ Counted /\ Update => Counted'
  BY DEF TypeOK, Counted, Update, NextIndex

-----------------------------------------------------------------------------
(* The display *)

\* Which sample a request of a regular display gets: before the ring is full the
\* cell's own number, afterwards the samples in order with one left out, where
\* the index went past the array.
LEMMA GetIs ==
    ASSUME TypeOK, RingExactly, Counted, index # Max,
           NEW i \in Nat, i < count, count < Max => 0 < i
    PROVE  Get(i) = IF count < Max THEN i
                    ELSE IF i < Max - index - 1 THEN taken - Max + i
                    ELSE taken - Max + 1 + i
<1>1. /\ index \in Int /\ 0 <= index /\ index < Max
      /\ count \in Int /\ 0 <= count /\ count <= Max /\ taken \in Nat
  BY DEF TypeOK
<1>2. /\ count < Max => taken = count /\ index = count
      /\ count = Max => taken > Max
  BY <1>1 DEF Counted
<1>3. ASSUME Place(i) \in Cells
      PROVE  Get(i) = IF Age(Place(i)) < taken THEN taken - Age(Place(i)) ELSE 0
  BY <1>3 DEF Get, RingExactly
<1>4. CASE count < Max
  <2>1. Place(i) = i /\ i \in Cells
    BY <1>1, <1>4 DEF Place
  <2>2. Age(i) = taken - i
    BY <1>1, <1>2, <1>4 DEF Age
  <2> QED BY <1>1, <1>2, <1>3, <1>4, <2>1, <2>2
<1>5. CASE count = Max /\ i < Max - index - 1
  <2>1. Place(i) = index + 1 + i /\ Place(i) \in Cells
    BY <1>1, <1>5 DEF Place
  <2>2. Age(Place(i)) = Max - i
    BY <1>1, <2>1 DEF Age
  <2> QED BY <1>1, <1>2, <1>3, <1>5, <2>1, <2>2
<1>6. CASE count = Max /\ ~(i < Max - index - 1)
  <2>1. Place(i) = index + 1 - Max + i /\ Place(i) \in Cells
    BY <1>1, <1>6 DEF Place
  <2>2. Age(Place(i)) = Max - 1 - i
    BY <1>1, <1>6, <2>1 DEF Age
  <2> QED BY <1>1, <1>2, <1>3, <1>6, <2>1, <2>2
<1> QED BY <1>1, <1>4, <1>5, <1>6

\* A function from 1..n is a sequence of length n.
LEMMA FunctionIsSeq ==
    ASSUME NEW n \in Nat, NEW S, NEW f \in [1..n -> S], 0 < n
    PROVE  f \in Seq(S) /\ Len(f) = n /\ f # <<>>
  OBVIOUS

\* Nothing on display is in order.
LEMMA NothingShown == shown = <<>> => ShownInOrder
<1> SUFFICES ASSUME shown = <<>> PROVE ShownInOrder
  OBVIOUS
<1>1. DOMAIN shown = {}
  OBVIOUS
<1> QED BY <1>1 DEF ShownInOrder

LEMMA ShowInOrder ==
    ASSUME TypeOK, RingExactly, Counted, NEW places \in MaxPlaces, Show(places)
    PROVE  ShownInOrder'
<1> DEFINE n == IF count > places THEN places ELSE count
           pad == count - n
<1>1. /\ index \in Int /\ 0 <= index /\ index <= Max
      /\ count \in Int /\ 0 < count /\ count <= Max /\ taken \in Nat /\ places \in Nat \ {0}
  BY DEF TypeOK, Show
<1>2. n \in Nat /\ 0 < n /\ n <= count /\ pad \in Nat
  BY <1>1
<1>3. UNCHANGED <<gpio_history, count, index, taken>>
  BY DEF Show
<1>4. shown' = [k \in 1..n |-> Get(pad + k - 1)]
  BY DEF Show
<1>5. shown' # <<>> /\ Len(shown') = n /\ DOMAIN shown' = 1..n
  <2> HIDE DEF n, pad
  <2>1. DOMAIN shown' = 1..n
    BY <1>4
  <2>2. shown' \in [1..n -> {shown'[k] : k \in 1..n}]
    BY <1>4
  <2> QED BY <1>2, <2>1, <2>2, FunctionIsSeq
<1>6. SUFFICES ASSUME Regular'
               PROVE  /\ \A j, k \in 1..n : j < k => shown'[j] < shown'[k]
                      /\ \A k \in 1..n : shown'[k] \in (taken - n)..taken
                      /\ count = Max => shown'[n] = taken
  BY <1>3, <1>5 DEF ShownInOrder
<1>7. index # Max /\ (count = Max \/ n < count)
  BY <1>3, <1>5, <1>6 DEF Regular
<1>8. ASSUME NEW k \in 1..n
      PROVE  shown'[k] = IF count < Max THEN pad + k - 1
                         ELSE IF pad + k - 1 < Max - index - 1 THEN taken - Max + pad + k - 1
                         ELSE taken - Max + pad + k
  <2>1. pad + k - 1 \in Nat /\ pad + k - 1 < count /\ (count < Max => 0 < pad + k - 1)
    BY <1>1, <1>2, <1>7
  <2>2. shown'[k] = Get(pad + k - 1)
    BY <1>4
  <2> HIDE DEF n, pad
  <2> QED BY <1>1, <1>2, <1>7, <2>1, <2>2, GetIs
<1>9. /\ count < Max => taken = count
      /\ count = Max => taken > Max
  BY <1>1, <1>7 DEF Counted
<1> QED BY <1>1, <1>2, <1>7, <1>8, <1>9

-----------------------------------------------------------------------------
(* The order round the ring *)

LEMMA WrapsOnce ==
    ASSUME NEW x \in Nat, x < 2 * Max
    PROVE  x % Max = IF x < Max THEN x ELSE x - Max
<1>1. PICK q \in Int, y \in 0..(Max - 1) : x = Max * q + y /\ y = x % Max
  OBVIOUS
<1>2. q = 0 \/ q = 1
  <2>1. q < 2
    <3>1. SUFFICES ASSUME q >= 2 PROVE FALSE
      OBVIOUS
    <3>2. Max * q >= Max * 2
      BY <3>1
    <3> QED BY <1>1, <3>2
  <2>2. q > -1
    <3>1. SUFFICES ASSUME q <= -1 PROVE FALSE
      OBVIOUS
    <3>2. Max * q <= Max * (-1)
      BY <3>1
    <3> QED BY <1>1, <3>2
  <2> QED BY <2>1, <2>2
<1> QED BY <1>1, <1>2

\* The i-th cell from the one after the index, and its sample.
LEMMA AgedIs ==
    ASSUME TypeOK, RingExactly, Counted, count = Max, index # Max, NEW i \in Cells
    PROVE  gpio_history[(index + 1 + i) % Max] = IF i < Max - index - 1 THEN taken - Max + i
                                                 ELSE taken - Max + 1 + i
<1>1. index \in 0..(Max - 1) /\ taken \in Nat /\ taken > Max
  BY DEF TypeOK, Counted
<1>2. PICK c : c = (index + 1 + i) % Max
  OBVIOUS
<1>3. c = IF i < Max - index - 1 THEN index + 1 + i ELSE index + 1 + i - Max
  <2>1. PICK x \in Nat : x = index + 1 + i /\ x < 2 * Max
    BY <1>1
  <2>2. x % Max = IF x < Max THEN x ELSE x - Max
    BY <2>1, WrapsOnce
  <2> QED BY <1>1, <1>2, <2>1, <2>2
<1>4. c \in Cells /\ Age(c) = IF i < Max - index - 1 THEN Max - i ELSE Max - 1 - i
  BY <1>1, <1>3 DEF Age
<1>5. gpio_history[c] = taken - Age(c)
  BY <1>1, <1>4 DEF RingExactly
<1> QED BY <1>1, <1>2, <1>4, <1>5

LEMMA RingOrdered ==
    ASSUME TypeOK, RingExactly, Counted
    PROVE  RingInOrder
<1> SUFFICES ASSUME count = Max, index # Max
             PROVE  /\ gpio_history[index] = taken
                    /\ \A i, j \in Cells : i < j => gpio_history[(index + 1 + i) % Max]
                                                    < gpio_history[(index + 1 + j) % Max]
                    /\ gpio_history[(index + 1 + 0) % Max] >= taken - Max
  BY DEF RingInOrder
<1>1. index \in Cells /\ taken \in Nat /\ taken > Max /\ 0 \in Cells
  BY DEF TypeOK, Counted
<1>2. gpio_history[index] = taken
  BY <1>1 DEF RingExactly, Age
<1>3. ASSUME NEW i \in Cells, NEW j \in Cells, i < j
      PROVE  gpio_history[(index + 1 + i) % Max] < gpio_history[(index + 1 + j) % Max]
  <2>1. PICK a, b : a = gpio_history[(index + 1 + i) % Max] /\ b = gpio_history[(index + 1 + j) % Max]
    OBVIOUS
  <2>2. /\ a = IF i < Max - index - 1 THEN taken - Max + i ELSE taken - Max + 1 + i
        /\ b = IF j < Max - index - 1 THEN taken - Max + j ELSE taken - Max + 1 + j
    BY <2>1, AgedIs, Zenon
  <2>3. a < b
    BY <1>1, <1>3, <2>2
  <2> QED BY <2>1, <2>3
<1>4. gpio_history[(index + 1 + 0) % Max] >= taken - Max
  BY <1>1, AgedIs
<1> QED BY <1>2, <1>3, <1>4

-----------------------------------------------------------------------------
(* The inductive invariant *)

LEMMA InitIInv == Init => IInv
<1> SUFFICES ASSUME Init PROVE IInv
  OBVIOUS
<1>1. TypeOK /\ Counted
  <2>1. gpio_history \in [Cells -> 0..taken]
    BY DEF Init
  <2>2. taken = 0 /\ count = 0 /\ index = 0 /\ parameters_set \in BOOLEAN
    BY DEF Init
  <2>3. Counted
    BY <2>2 DEF Counted
  <2>4. TypeOK
    BY <2>1, <2>2 DEF TypeOK
  <2> QED BY <2>3, <2>4
<1>2. RingExactly
  BY <1>1, AgeBounds DEF Init, RingExactly
<1>3. ShownInOrder
  BY NothingShown DEF Init
<1> QED BY <1>1, <1>2, <1>3 DEF IInv

LEMMA NextIInv == IInv /\ [Next]_vars => IInv'
<1> SUFFICES ASSUME IInv, [Next]_vars PROVE IInv'
  OBVIOUS
<1> USE DEF IInv
<1>1. CASE StartHistory
  <2>1. TypeOK' /\ Counted'
    BY <1>1 DEF StartHistory, TypeOK, Counted
  <2>2. RingExactly'
    BY <1>1, <2>1 DEF StartHistory, RingExactly, Age
  <2>3. ShownInOrder'
    <3>1. DOMAIN shown' = {} /\ shown' = <<>>
      BY <1>1 DEF StartHistory
    <3> QED BY <3>1 DEF ShownInOrder
  <2> QED BY <2>1, <2>2, <2>3
<1>2. CASE Update
  <2>1. ShownInOrder'
    <3>1. DOMAIN shown' = {} /\ shown' = <<>>
      BY <1>2 DEF Update
    <3> QED BY <3>1 DEF ShownInOrder
  <2> QED BY <1>2, <2>1, UpdateType, UpdateRing, UpdateCounted
<1>3. ASSUME NEW places \in MaxPlaces, Show(places) PROVE IInv'
  <2>1. UNCHANGED <<gpio_history, count, index, parameters_set, taken>>
    BY <1>3 DEF Show
  <2>2. TypeOK' /\ RingExactly' /\ Counted'
    BY <2>1 DEF TypeOK, RingExactly, Counted, Age
  <2>3. ShownInOrder'
    BY <1>3, ShowInOrder
  <2> QED BY <2>2, <2>3
<1>4. CASE UNCHANGED vars
  BY <1>4 DEF vars, TypeOK, RingExactly, Counted, ShownInOrder, Regular, Age
<1> QED BY <1>1, <1>2, <1>3, <1>4 DEF Next

LEMMA InvHolds == Spec => []IInv
  BY InitIInv, NextIInv, PTL DEF Spec

-----------------------------------------------------------------------------
(* What is proved *)

\* The index stays within its Max + 1 places and counts the samples until the
\* ring is full (hardware_changed_gpio_history_update).
THEOREM TypeCorrect == Spec => []TypeOK
<1>1. IInv => TypeOK
  BY DEF IInv
<1> QED BY <1>1, InvHolds, PTL

\* However often the ring went round and was started over, a full ring is in order of
\* time from the cell after the index round to the newest sample at the index, and of
\* the latest samples at most one is missing.
THEOREM RingIsOrdered == Spec => []RingInOrder
<1>1. IInv => RingInOrder
  BY RingOrdered DEF IInv
<1> QED BY <1>1, InvHolds, PTL

\* Every regular display is in order of time and, if the ring is full, ends with
\* the newest sample (hardware_changed_gpio_history_get, show_timeline).
THEOREM DisplayIsOrdered == Spec => []ShownInOrder
<1>1. IInv => ShownInOrder
  BY DEF IInv
<1> QED BY <1>1, InvHolds, PTL
=============================================================================
