------------------------------- MODULE Timeline -------------------------------
(***************************************************************************)
(* The history of pin values behind the timeline: the ring of              *)
(* hardware_changed.c, filled by every state machine instruction           *)
(* (execution.c:1621), and the window of it that F8 and F9 start and show  *)
(* (main.c show_timeline with its callback, ui.c show_timeline).           *)
(*                                                                         *)
(* A sample stands for the pin values and the tick of one instruction; it  *)
(* is known by its number since the history was started.  A key is handled *)
(* between two instructions, so showing is one action.                     *)
(***************************************************************************)
EXTENDS Integers, Sequences

CONSTANTS Max,          \* MAX_GPIO_HISTORY_INDEX
          MaxPlaces,    \* how many values fit: depends on the terminal's width
          MaxSamples    \* bound of the model on the samples of one history

ASSUME TimelineAssumption ==
    /\ Max \in Nat /\ Max > 1
    /\ MaxPlaces \subseteq Nat \ {0}
    /\ MaxSamples \in Nat

VARIABLES
    gpio_history,     \* which sample each cell holds; 0: one from before the start
    count, index,     \* gpio_history_count, gpio_history_current_index
    parameters_set,   \* timeline_parameters_set
    taken,            \* history: the samples taken since the start
    shown             \* history: the samples on display

vars == <<gpio_history, count, index, parameters_set, taken, shown>>

Cells == 0..(Max - 1)

Garbage == -1         \* what memory behind the array holds

Init == /\ gpio_history = [i \in Cells |-> 0]
        /\ count = 0 /\ index = 0
        /\ parameters_set = FALSE
        /\ taken = 0 /\ shown = <<>>

\* F8: get_timeline_parameters starts the history over and clears no cell.
StartHistory == /\ count' = 0 /\ index' = 0
                /\ gpio_history' = [i \in Cells |-> 0]
                /\ parameters_set' = TRUE
                /\ taken' = 0 /\ shown' = <<>>

\* Mutant: the index goes on for ever.
NextIndexUnwrapped == index + 1

\* Mutant: the ring goes round from where it began.
NextIndexFromOne == IF count = Max /\ index = Max THEN 1 ELSE index + 1

\* The index runs over 0..Max, one more than there are cells.
NextIndex == IF count = Max /\ index = Max THEN 0 ELSE index + 1

\* hardware_changed_gpio_history_update.  The index moves before the sample is
\* stored; at Max the store goes to memory behind the array, which is never read
\* as a sample.
Update == /\ taken < MaxSamples /\ taken' = taken + 1
          /\ count' = IF count < Max THEN count + 1 ELSE count
          /\ index' = NextIndex
          /\ gpio_history' = [i \in Cells |-> IF i = NextIndex THEN taken' ELSE gpio_history[i]]
          /\ shown' = <<>>
          /\ UNCHANGED parameters_set

\* Mutant: the oldest value is taken to be in the cell of the newest.
PlaceOffByOne(i) == IF count < Max \/ index + 1 = Max THEN i
                    ELSE IF index = Max \/ i < Max - index - 1 THEN index + i
                    ELSE index + 1 - Max + i

\* The cell hardware_changed_gpio_history_get returns for the i-th request.  At
\* index Max, max-current_index-1 is negative and, being unsigned, larger than
\* every i.
Place(i) == IF count < Max \/ index + 1 = Max THEN i
            ELSE IF index = Max \/ i < Max - index - 1 THEN index + 1 + i
            ELSE index + 1 - Max + i

Get(i) == IF Place(i) \in Cells THEN gpio_history[Place(i)] ELSE Garbage

\* F9: of the count values the last ones that fit are shown; the callback drops
\* the others first.
Show(places) ==
    LET num_places == IF count > places THEN places ELSE count
        pad == count - num_places
    IN /\ parameters_set /\ count > 0
       /\ shown' = [k \in 1..num_places |-> Get(pad + k - 1)]
       /\ UNCHANGED <<gpio_history, count, index, parameters_set, taken>>

Next == StartHistory \/ Update \/ \E places \in MaxPlaces : Show(places)

Spec == Init /\ [][Next]_vars

-----------------------------------------------------------------------------
(* What must hold *)

\* The ring's position: before it is full the index counts the samples.
TypeOK == /\ gpio_history \in [Cells -> 0..taken]
          /\ count \in 0..Max /\ index \in 0..Max
          /\ count < Max => index = count
          /\ parameters_set \in BOOLEAN
          /\ taken \in Nat

\* The comment on hardware_changed_gpio_history_get: of a full ring of Max cells the
\* newest value is at the index and the oldest at the next cell, and from there on round
\* the ring they are in order of time.  Of the latest Max samples at most one is missing:
\* the one that was stored behind the array when the index was Max (of which the comment
\* says nothing, and when this does not either).
RingInOrder ==
    count = Max /\ index # Max =>
        LET aged(i) == gpio_history[(index + 1 + i) % Max]     \* the i-th from the oldest
        IN /\ gpio_history[index] = taken
           /\ \A i, j \in Cells : i < j => aged(i) < aged(j)
           /\ aged(0) >= taken - Max

\* Whether a display shows the ring as it is: the cell before the first sample is
\* not on it, and the index has not just run past the array.
Regular == index # Max /\ (count = Max \/ Len(shown) < count)

\* hardware_changed.h: "returns next in history starting with oldest first".
\* A regular display is in order of time; of the samples it could show it leaves
\* out exactly one, and a full ring is shown up to its newest sample.
ShownInOrder ==
    Regular =>
        /\ \A j, k \in DOMAIN shown : j < k => shown[j] < shown[k]
        /\ \A k \in DOMAIN shown : shown[k] \in (taken - Len(shown))..taken
        /\ (count = Max /\ shown # <<>>) => shown[Len(shown)] = taken
=============================================================================
