-------------------------------- MODULE Fifo --------------------------------
(***************************************************************************)
(* The FIFO pair of one state machine as src/fifo.c keeps it: one array    *)
(* shared by both directions, four indices, two fill states and the STATUS *)
(* word that MOV ..., STATUS reads.  A direction occupies the cells        *)
(* bottom .. top-1: a new word goes into the bottom cell after everything  *)
(* above it has moved up by one, the oldest word is in cell top-1.         *)
(***************************************************************************)
EXTENDS Integers, Sequences

CONSTANTS Size,      \* TOTAL_FIFO_SIZE_PER_SM
          Values,    \* the words
          Zero,      \* what a zeroed array cell holds
          Levels     \* the levels hardware_set_status_sel is called with

ASSUME FifoAssumption == /\ Size \in Nat \ {0} /\ Size % 2 = 0
                         /\ Zero \in Values
                         /\ Levels \subseteq 0..255       \* uint8_t level

VARIABLES buffer, mode, rx_state, tx_state,
          status,                    \* TRUE stands for ALL_ONES, FALSE for ALL_ZEROS
          status_sel, N,             \* EXECCTRL_STATUS_SEL and its level
          rx_bottom, rx_top, tx_bottom, tx_top,
          ret,                       \* the result of the last operation
          out                        \* the word the last pull or read delivered

indices == <<rx_bottom, rx_top, tx_bottom, tx_top>>
config  == <<mode, status_sel, N>>
vars    == <<buffer, rx_state, tx_state, status, config, indices, ret, out>>

Cells == 0..(Size - 1)
Modes == {"BIDI", "TX_ONLY", "RX_ONLY"}
FillStates == {"FIFO_FULL", "FIFO_EMPTY", "FIFO_HAS_DATA"}

-----------------------------------------------------------------------------
(* Configuration *)

DefaultN(m) == IF m = "BIDI" THEN 4 ELSE 8

RxBase(m) == IF m = "TX_ONLY" THEN -1 ELSE 0

TxBase(m) == CASE m = "BIDI"    -> Size \div 2
               [] m = "RX_ONLY" -> Size
               [] m = "TX_ONLY" -> 0

Init == /\ buffer = [i \in Cells |-> Zero]
        /\ mode = "BIDI"
        /\ rx_state = "FIFO_EMPTY" /\ tx_state = "FIFO_EMPTY"
        /\ status = TRUE /\ status_sel = TRUE
        /\ N = DefaultN("BIDI")
        /\ rx_bottom = RxBase("BIDI") /\ rx_top = RxBase("BIDI")
        /\ tx_bottom = TxBase("BIDI") /\ tx_top = TxBase("BIDI")
        /\ ret = FALSE /\ out = Zero

\* fifo_init, reached again through hardware_fifo_merge: the queued words and
\* an earlier STATUS selection are forgotten, the array is not cleared.
FifoInit(m) ==
    /\ mode' = m
    /\ rx_state' = "FIFO_EMPTY" /\ tx_state' = "FIFO_EMPTY"
    /\ status' = TRUE /\ status_sel' = TRUE
    /\ N' = DefaultN(m)
    /\ rx_bottom' = RxBase(m) /\ rx_top' = RxBase(m)
    /\ tx_bottom' = TxBase(m) /\ tx_top' = TxBase(m)
    /\ UNCHANGED <<buffer, ret, out>>

\* hardware_set_status_sel: STATUS itself is not recomputed.
SetStatusSel(sel, level) ==
    /\ status_sel' = sel /\ N' = level
    /\ UNCHANGED <<buffer, mode, rx_state, tx_state, status, indices, ret, out>>

-----------------------------------------------------------------------------
(* The four transfers *)

Level(state, bottom, top) == IF state = "FIFO_EMPTY" THEN 0 ELSE top - bottom

StatusOf(sel, n, rxLevel, txLevel) == (IF sel THEN rxLevel ELSE txLevel) < n

\* Mutant: STATUS is computed before the indices move.
SetStatusEarly ==
    status' = StatusOf(status_sel, N, Level(rx_state, rx_bottom, rx_top),
                                      Level(tx_state, tx_bottom, tx_top))

\* set_status, on the indices and fill states the transfer has just stored.
SetStatus ==
    status' = StatusOf(status_sel, N, Level(rx_state', rx_bottom, rx_top'),
                                      Level(tx_state', tx_bottom, tx_top'))

\* Mutant: the words above the bottom cell are not moved up.
InsertNoShift(bottom, top, v) == [buffer EXCEPT ![bottom] = v]

\* Cells bottom .. top-1 move up by one and the bottom cell takes the word.
Insert(bottom, top, v) ==
    [i \in Cells |-> IF i = bottom THEN v
                     ELSE IF bottom < i /\ i <= top THEN buffer[i - 1]
                     ELSE buffer[i]]

\* Mutant: full is noticed one word too late.
FilledLate(top, limit) == IF top > limit THEN "FIFO_FULL" ELSE "FIFO_HAS_DATA"

\* The fill state after a word went in: the direction ends below limit.
Filled(top, limit) == IF top = limit THEN "FIFO_FULL" ELSE "FIFO_HAS_DATA"

\* Mutant: both directions are compared with the start of the array.
DrainedAtZero(top, bottom) == IF top = 0 THEN "FIFO_EMPTY" ELSE "FIFO_HAS_DATA"

\* The fill state after a word went out.
Drained(top, bottom) == IF top = bottom THEN "FIFO_EMPTY" ELSE "FIFO_HAS_DATA"

Refuse == ret' = FALSE /\ UNCHANGED <<buffer, rx_state, tx_state, status, config, indices, out>>

WriteAccepted(v) ==
    /\ buffer' = Insert(tx_bottom, tx_top, v)
    /\ tx_top' = tx_top + 1
    /\ tx_state' = Filled(tx_top', Size)
    /\ UNCHANGED <<rx_state, config, rx_bottom, rx_top, tx_bottom, out>>
    /\ SetStatus
    /\ ret' = TRUE

Write(v) == IF mode = "RX_ONLY" \/ tx_state = "FIFO_FULL" THEN Refuse ELSE WriteAccepted(v)

PushAccepted(v) ==
    /\ buffer' = Insert(rx_bottom, rx_top, v)
    /\ rx_top' = rx_top + 1
    /\ rx_state' = Filled(rx_top', tx_bottom)
    /\ UNCHANGED <<tx_state, config, rx_bottom, tx_bottom, tx_top, out>>
    /\ SetStatus
    /\ ret' = TRUE

Push(v) == IF mode = "TX_ONLY" \/ rx_state = "FIFO_FULL" THEN Refuse ELSE PushAccepted(v)

ReadAccepted ==
    /\ out' = buffer[rx_top - 1]
    /\ rx_top' = rx_top - 1
    /\ rx_state' = Drained(rx_top', 0)
    /\ UNCHANGED <<buffer, tx_state, config, rx_bottom, tx_bottom, tx_top>>
    /\ SetStatus
    /\ ret' = TRUE

Read == IF mode = "TX_ONLY" \/ rx_state = "FIFO_EMPTY" THEN Refuse ELSE ReadAccepted

PullAccepted ==
    /\ out' = buffer[tx_top - 1]
    /\ tx_top' = tx_top - 1
    /\ tx_state' = Drained(tx_top', tx_bottom)
    /\ UNCHANGED <<buffer, rx_state, config, rx_bottom, rx_top, tx_bottom>>
    /\ SetStatus
    /\ ret' = TRUE

Pull == IF mode = "RX_ONLY" \/ tx_state = "FIFO_EMPTY" THEN Refuse ELSE PullAccepted

-----------------------------------------------------------------------------

Next == \/ \E m \in Modes : FifoInit(m)
        \/ \E sel \in BOOLEAN, level \in Levels : SetStatusSel(sel, level)
        \/ \E v \in Values : Write(v)
        \/ \E v \in Values : Push(v)
        \/ Read
        \/ Pull

Spec == Init /\ [][Next]_vars

-----------------------------------------------------------------------------
(* What must hold *)

TypeOK ==
    /\ buffer \in [Cells -> Values]
    /\ mode \in Modes
    /\ rx_state \in FillStates /\ tx_state \in FillStates
    /\ status \in BOOLEAN /\ status_sel \in BOOLEAN /\ N \in 0..255
    /\ rx_bottom \in -1..0 /\ rx_top \in -1..Size
    /\ tx_bottom \in 0..Size /\ tx_top \in 0..Size
    /\ ret \in BOOLEAN /\ out \in Values

\* One direction: its cells lie inside its share of the array, and the fill
\* state says what the indices say.
Region(state, bottom, top, limit) ==
    /\ bottom <= top /\ top <= limit
    /\ (state = "FIFO_EMPTY") <=> (top = bottom)
    /\ (state = "FIFO_FULL") <=> (top = limit /\ top # bottom)

\* The two directions never overlap and never leave the array, whatever order
\* of transfers and reconfigurations led here, and the fill states on which
\* every transfer is accepted or refused agree with the indices (note 1 of
\* inc/fifo.h; the shifting loops of fifo_write and fifo_push).
RegionsDisjoint ==
    /\ rx_bottom = RxBase(mode) /\ tx_bottom = TxBase(mode)
    /\ Region(tx_state, tx_bottom, tx_top, IF mode = "RX_ONLY" THEN tx_bottom ELSE Size)
    /\ Region(rx_state, rx_bottom, rx_top, IF mode = "TX_ONLY" THEN rx_bottom ELSE tx_bottom)

\* The queues the array stands for, oldest word first.
QueueOf(cells, bottom, top) == [i \in 1..(top - bottom) |-> cells[top - i]]

TxQueue == QueueOf(buffer, tx_bottom, tx_top)
RxQueue == QueueOf(buffer, rx_bottom, rx_top)

Q == INSTANCE FifoQueue WITH tx <- TxQueue, rx <- RxQueue

\* The array is two bounded first-in first-out queues: no word is lost,
\* duplicated or overtaken by the shifting, a transfer is refused exactly when
\* its queue is full, empty or absent in the mode, and it returns the oldest word.
ImplementsQueues == Q!QSpec

\* The note on STATUS in inc/fifo.h, as a predicate of the state.
StatusMatchesLevel ==
    status = StatusOf(status_sel, N, Level(rx_state, rx_bottom, rx_top),
                                     Level(tx_state, tx_bottom, tx_top))

\* STATUS can be stale, but never past a transfer or a reconfiguration: a step
\* that changes either level leaves STATUS telling what the selection says.
LevelChangeRefreshesStatus ==
    [][<<rx_top, tx_top>>' # <<rx_top, tx_top>> => StatusMatchesLevel']_vars
=============================================================================
