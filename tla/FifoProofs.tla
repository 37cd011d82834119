----------------------------- MODULE FifoProofs -----------------------------
(***************************************************************************)
(* What holds of the FIFO array of Fifo for every size, every set of words *)
(* and every sequence of transfers and reconfigurations: its type and      *)
(* index invariant, the freshness of STATUS after a transfer, and that it  *)
(* implements the two queues of FifoQueue.                                 *)
(***************************************************************************)
EXTENDS Fifo, SequenceTheorems, TLAPS

(* The inductive invariant is the conjunction of the two invariants TLC     *)
(* checks: the fill states decide which transfers are accepted, so the      *)
(* index bounds are only preserved together with RegionsDisjoint.           *)
IInv == TypeOK /\ RegionsDisjoint

USE DEF Cells, Modes, FillStates

\* Both halves of the array start inside it.
LEMMA BaseBounds ==
    /\ Size \div 2 \in 1..(Size - 1)
    /\ Size > 1
  BY FifoAssumption

\* The invariant holds of the zeroed, freshly initialised array.
LEMMA InitIInv == Init => IInv
<1> SUFFICES ASSUME Init PROVE IInv
  OBVIOUS
<1>1. TypeOK
  <2>1. buffer \in [Cells -> Values] /\ out \in Values
    BY FifoAssumption DEF Init
  <2>2. rx_bottom = 0 /\ rx_top = 0 /\ tx_bottom = Size \div 2 /\ tx_top = Size \div 2
    BY DEF Init, RxBase, TxBase
  <2>3. rx_bottom \in -1..0 /\ rx_top \in -1..Size /\ tx_bottom \in 0..Size /\ tx_top \in 0..Size
    BY <2>2, BaseBounds, FifoAssumption
  <2>4. status \in BOOLEAN /\ status_sel \in BOOLEAN /\ ret \in BOOLEAN
    BY DEF Init
  <2>. QED
    BY <2>1, <2>3, <2>4 DEF Init, TypeOK, DefaultN
<1>2. RegionsDisjoint
  BY BaseBounds, FifoAssumption DEF Init, RegionsDisjoint, Region, RxBase, TxBase
<1>. QED
  BY <1>1, <1>2 DEF IInv

\* Inserting a word keeps the array an array of words.
LEMMA InsertType ==
    ASSUME buffer \in [Cells -> Values], NEW bottom \in Int, NEW top \in Int,
           0 <= bottom, top < Size, NEW v \in Values
    PROVE  Insert(bottom, top, v) \in [Cells -> Values]
  BY FifoAssumption DEF Insert

\* A refused transfer changes nothing the invariant speaks of but the result.
LEMMA RefuseIInv == IInv /\ Refuse => IInv'
<1> SUFFICES ASSUME IInv, Refuse PROVE IInv'
  OBVIOUS
<1>1. /\ UNCHANGED <<buffer, rx_state, tx_state, status, out>>
      /\ UNCHANGED <<mode, status_sel, N>>
      /\ UNCHANGED <<rx_bottom, rx_top, tx_bottom, tx_top>>
      /\ ret' \in BOOLEAN
  BY DEF Refuse, config, indices
<1>2. TypeOK'
  BY <1>1 DEF IInv, TypeOK
<1>3. RegionsDisjoint'
  BY <1>1 DEF IInv, RegionsDisjoint, Region, RxBase, TxBase
<1>. QED
  BY <1>2, <1>3 DEF IInv

\* Every step keeps the two directions inside their shares of the array.
LEMMA NextIInv == IInv /\ [Next]_vars => IInv'
<1> SUFFICES ASSUME IInv, [Next]_vars PROVE IInv'
  OBVIOUS
<1> USE FifoAssumption, BaseBounds DEF IInv, TypeOK, RegionsDisjoint, Region, RxBase, TxBase
<1>1. ASSUME NEW m \in Modes, FifoInit(m) PROVE IInv'
  BY <1>1 DEF FifoInit, DefaultN
<1>2. ASSUME NEW sel \in BOOLEAN, NEW level \in Levels, SetStatusSel(sel, level) PROVE IInv'
  BY <1>2 DEF SetStatusSel, indices
<1>3. ASSUME NEW v \in Values, Write(v) PROVE IInv'
  <2>1. CASE Refuse
    BY <2>1, RefuseIInv
  <2>2. CASE WriteAccepted(v) /\ mode # "RX_ONLY" /\ tx_state # "FIFO_FULL"
    <3>1. tx_top < Size /\ tx_bottom >= 0
      BY <2>2
    <3>2. buffer' \in [Cells -> Values]
      <4>1. buffer' = Insert(tx_bottom, tx_top, v)
        BY <2>2 DEF WriteAccepted
      <4>2. tx_bottom \in Int /\ tx_top \in Int /\ 0 <= tx_bottom /\ tx_top < Size
        BY <3>1
      <4>. QED
        BY <4>1, <4>2, InsertType
    <3>3. status' \in BOOLEAN
      BY <2>2 DEF WriteAccepted, SetStatus, StatusOf
    <3>. QED
      BY <2>2, <3>1, <3>2, <3>3 DEF WriteAccepted, Filled, config
  <2>. QED
    BY <1>3, <2>1, <2>2 DEF Write
<1>4. ASSUME NEW v \in Values, Push(v) PROVE IInv'
  <2>1. CASE Refuse
    BY <2>1, RefuseIInv
  <2>2. CASE PushAccepted(v) /\ mode # "TX_ONLY" /\ rx_state # "FIFO_FULL"
    <3>1. rx_top < tx_bottom /\ rx_bottom >= 0
      BY <2>2
    <3>2. buffer' \in [Cells -> Values]
      <4>1. buffer' = Insert(rx_bottom, rx_top, v)
        BY <2>2 DEF PushAccepted
      <4>2. rx_bottom \in Int /\ rx_top \in Int /\ 0 <= rx_bottom /\ rx_top < Size
        BY <3>1
      <4>. QED
        BY <4>1, <4>2, InsertType
    <3>3. status' \in BOOLEAN
      BY <2>2 DEF PushAccepted, SetStatus, StatusOf
    <3>. QED
      BY <2>2, <3>1, <3>2, <3>3 DEF PushAccepted, Filled, config
  <2>. QED
    BY <1>4, <2>1, <2>2 DEF Push
<1>5. ASSUME Read PROVE IInv'
  <2>1. CASE Refuse
    BY <2>1, RefuseIInv
  <2>2. CASE ReadAccepted /\ mode # "TX_ONLY" /\ rx_state # "FIFO_EMPTY"
    <3>1. rx_top \in 1..Size /\ rx_bottom = 0
      BY <2>2
    <3>2. status' \in BOOLEAN /\ out' \in Values
      BY <2>2, <3>1 DEF ReadAccepted, SetStatus, StatusOf
    <3>. QED
      BY <2>2, <3>1, <3>2 DEF ReadAccepted, Drained, config
  <2>. QED
    BY <1>5, <2>1, <2>2 DEF Read
<1>6. ASSUME Pull PROVE IInv'
  <2>1. CASE Refuse
    BY <2>1, RefuseIInv
  <2>2. CASE PullAccepted /\ mode # "RX_ONLY" /\ tx_state # "FIFO_EMPTY"
    <3>1. tx_top > tx_bottom /\ tx_top - 1 \in Cells
      BY <2>2
    <3>2. status' \in BOOLEAN /\ out' \in Values
      BY <2>2, <3>1 DEF PullAccepted, SetStatus, StatusOf
    <3>. QED
      BY <2>2, <3>1, <3>2 DEF PullAccepted, Drained, config
  <2>. QED
    BY <1>6, <2>1, <2>2 DEF Pull
<1>7. CASE UNCHANGED vars
  BY <1>7 DEF vars, config, indices
<1>. QED
  BY <1>1, <1>2, <1>3, <1>4, <1>5, <1>6, <1>7 DEF Next

\* The array, its indices and its fill states always have their types
\* (fifo_t of inc/fifo.h): no transfer ever indexes outside the array.
THEOREM TypeCorrect == Spec => []TypeOK
<1>1. IInv => TypeOK
  BY DEF IInv
<1>. QED
  BY InitIInv, NextIInv, <1>1, PTL DEF Spec

\* The two directions never overlap, and the fill states always say what the
\* indices say, for every size and every sequence of operations.
THEOREM RegionsAlwaysDisjoint == Spec => []RegionsDisjoint
<1>1. IInv => RegionsDisjoint
  BY DEF IInv
<1>. QED
  BY InitIInv, NextIInv, <1>1, PTL DEF Spec

-----------------------------------------------------------------------------
(* STATUS *)

\* Whatever changes a level also leaves STATUS telling what the selection says:
\* set_status closes every accepted transfer and fifo_init restores a default
\* that fits empty queues.
THEOREM TransfersRefreshStatus == Spec => LevelChangeRefreshesStatus
<1> DEFINE Changed == <<rx_top, tx_top>>' # <<rx_top, tx_top>>
<1>1. [Next]_vars => (Changed => StatusMatchesLevel')
  <2> SUFFICES ASSUME [Next]_vars, Changed PROVE StatusMatchesLevel'
    OBVIOUS
  <2>1. ASSUME NEW m \in Modes, FifoInit(m) PROVE StatusMatchesLevel'
    <3>1. status' = TRUE /\ status_sel' = TRUE /\ rx_state' = "FIFO_EMPTY" /\ N' \in {4, 8}
      BY <2>1 DEF FifoInit, DefaultN
    <3>2. Level(rx_state', rx_bottom', rx_top') = 0
      BY <3>1 DEF Level
    <3>3. StatusOf(status_sel', N', Level(rx_state', rx_bottom', rx_top'),
                                    Level(tx_state', tx_bottom', tx_top')) = TRUE
      BY <3>1, <3>2 DEF StatusOf
    <3>. QED
      BY <3>1, <3>3 DEF StatusMatchesLevel
  <2>2. ASSUME NEW sel \in BOOLEAN, NEW level \in Levels, SetStatusSel(sel, level) PROVE FALSE
    BY <2>2 DEF SetStatusSel, indices
  <2>3. ASSUME Refuse PROVE FALSE
    BY <2>3 DEF Refuse, indices
  <2>4. ASSUME NEW v \in Values, Write(v) PROVE StatusMatchesLevel'
    BY <2>3, <2>4 DEF Write, WriteAccepted, SetStatus, config, StatusMatchesLevel
  <2>5. ASSUME NEW v \in Values, Push(v) PROVE StatusMatchesLevel'
    BY <2>3, <2>5 DEF Push, PushAccepted, SetStatus, config, StatusMatchesLevel
  <2>6. ASSUME Read PROVE StatusMatchesLevel'
    BY <2>3, <2>6 DEF Read, ReadAccepted, SetStatus, config, StatusMatchesLevel
  <2>7. ASSUME Pull PROVE StatusMatchesLevel'
    BY <2>3, <2>7 DEF Pull, PullAccepted, SetStatus, config, StatusMatchesLevel
  <2>8. ASSUME UNCHANGED vars PROVE FALSE
    BY <2>8 DEF vars, indices
  <2>. QED
    BY <2>1, <2>2, <2>4, <2>5, <2>6, <2>7, <2>8 DEF Next
<1>. QED
  BY <1>1, PTL DEF Spec, LevelChangeRefreshesStatus

-----------------------------------------------------------------------------
(* The array implements the queues *)

\* A region of the array is a sequence of words as long as the region.
LEMMA QueueIsSeq ==
    ASSUME NEW cells \in [Cells -> Values], NEW bottom \in Int, NEW top \in Int,
           bottom <= top, bottom < top => 0 <= bottom /\ top <= Size
    PROVE  /\ QueueOf(cells, bottom, top) \in Seq(Values)
           /\ Len(QueueOf(cells, bottom, top)) = top - bottom
<1>1. top - bottom \in Nat
  OBVIOUS
<1>2. \A i \in 1..(top - bottom) : cells[top - i] \in Values
  BY FifoAssumption
<1>. QED
  BY <1>1, <1>2 DEF QueueOf

\* Inserting a word in the bottom cell appends it to the queue.
LEMMA InsertAppends ==
    ASSUME buffer \in [Cells -> Values], NEW bottom \in Int, NEW top \in Int,
           0 <= bottom, bottom <= top, top < Size, NEW v \in Values
    PROVE  QueueOf(Insert(bottom, top, v), bottom, top + 1)
             = Append(QueueOf(buffer, bottom, top), v)
<1> DEFINE old == QueueOf(buffer, bottom, top)
           new == QueueOf(Insert(bottom, top, v), bottom, top + 1)
<1>1. old \in Seq(Values) /\ Len(old) = top - bottom
  BY QueueIsSeq, FifoAssumption
<1>2. new \in Seq(Values) /\ Len(new) = top + 1 - bottom
  <2>1. Insert(bottom, top, v) \in [Cells -> Values]
    BY InsertType
  <2>. QED
    BY <2>1, QueueIsSeq, FifoAssumption
<1>3. Append(old, v) \in Seq(Values) /\ Len(Append(old, v)) = top + 1 - bottom
  BY <1>1
<1> HIDE DEF old, new
<1>4. ASSUME NEW i \in 1..(top + 1 - bottom) PROVE new[i] = Append(old, v)[i]
  <2>1. new[i] = Insert(bottom, top, v)[top + 1 - i]
    BY DEF QueueOf, new
  <2>2. CASE i = top + 1 - bottom
    <3>1. Insert(bottom, top, v)[bottom] = v
      BY FifoAssumption DEF Insert
    <3>. QED
      BY <2>1, <2>2, <3>1, <1>1
  <2>3. CASE i < top + 1 - bottom
    <3>1. bottom < top + 1 - i /\ top + 1 - i <= top /\ top + 1 - i \in Cells
      BY <2>3, FifoAssumption
    <3>2. Insert(bottom, top, v)[top + 1 - i] = buffer[top - i]
      BY <3>1 DEF Insert
    <3>3. old[i] = buffer[top - i]
      BY <2>3 DEF QueueOf, old
    <3>4. Append(old, v)[i] = old[i]
      BY <1>1, <2>3
    <3>. QED
      BY <2>1, <3>2, <3>3, <3>4
  <2>4. i = top + 1 - bottom \/ i < top + 1 - bottom
    OBVIOUS
  <2>. QED
    BY <2>2, <2>3, <2>4
<1>5. new = Append(old, v)
  BY <1>2, <1>3, <1>4, SeqEqual
<1>. QED
  BY <1>5 DEF old, new

\* Inserting a word in one direction does not touch the cells of the other.
LEMMA InsertElsewhere ==
    ASSUME NEW bottom \in Int, NEW top \in Int, bottom <= top, NEW v,
           NEW lo \in Int, NEW hi \in Int, lo < hi => 0 <= lo /\ hi <= Size,
           hi <= bottom \/ top < lo \/ hi <= lo
    PROVE  QueueOf(Insert(bottom, top, v), lo, hi) = QueueOf(buffer, lo, hi)
<1>1. ASSUME NEW i \in 1..(hi - lo) PROVE Insert(bottom, top, v)[hi - i] = buffer[hi - i]
  <2>1. hi - i \in Cells /\ lo <= hi - i /\ hi - i < hi
    BY FifoAssumption
  <2>2. hi - i # bottom /\ ~(bottom < hi - i /\ hi - i <= top)
    BY <2>1
  <2>. QED
    BY <2>1, <2>2 DEF Insert
<1>. QED
  BY <1>1 DEF QueueOf

\* Popping the top cell delivers and removes the oldest word.
LEMMA PopsOldest ==
    ASSUME NEW cells \in [Cells -> Values], NEW bottom \in Int, NEW top \in Int,
           0 <= bottom, bottom < top, top <= Size
    PROVE  /\ Head(QueueOf(cells, bottom, top)) = cells[top - 1]
           /\ Tail(QueueOf(cells, bottom, top)) = QueueOf(cells, bottom, top - 1)
<1> DEFINE old == QueueOf(cells, bottom, top)
           new == QueueOf(cells, bottom, top - 1)
<1>1. old \in Seq(Values) /\ Len(old) = top - bottom /\ old # <<>>
  BY QueueIsSeq, FifoAssumption
<1>2. new \in Seq(Values) /\ Len(new) = top - 1 - bottom
  BY QueueIsSeq, FifoAssumption
<1>3. Head(old) = cells[top - 1]
  BY <1>1 DEF QueueOf
<1>4. Tail(old) \in Seq(Values) /\ Len(Tail(old)) = top - 1 - bottom
  BY <1>1
<1>5. ASSUME NEW i \in 1..(top - 1 - bottom) PROVE new[i] = Tail(old)[i]
  <2>1. Tail(old)[i] = old[i + 1]
    BY <1>1
  <2>2. old[i + 1] = cells[top - 1 - i] /\ new[i] = cells[top - 1 - i]
    BY DEF QueueOf
  <2>. QED
    BY <2>1, <2>2
<1> HIDE DEF old, new
<1>6. Tail(old) = new
  BY <1>2, <1>4, <1>5, SeqEqual
<1>. QED
  BY <1>3, <1>6 DEF old, new

\* The freshly initialised array stands for two empty queues.
LEMMA InitRefines == Init => Q!QInit
<1> SUFFICES ASSUME Init PROVE Q!QInit
  OBVIOUS
<1>1. tx_top - tx_bottom = 0 /\ rx_top - rx_bottom = 0
  BY BaseBounds, FifoAssumption DEF Init, RxBase, TxBase
<1>2. TxQueue = <<>> /\ RxQueue = <<>>
  BY <1>1 DEF TxQueue, RxQueue, QueueOf
<1>. QED
  BY <1>2, FifoAssumption DEF Init, Q!QInit

\* A refused transfer is a refused transfer of the queues.
LEMMA RefuseRefines == Refuse => Q!QRefuse
  BY DEF Refuse, Q!QRefuse, config, indices, TxQueue, RxQueue

\* The bounds the lemmas about regions ask for.
LEMMA Bounds ==
    ASSUME IInv
    PROVE  /\ buffer \in [Cells -> Values]
           /\ tx_bottom \in Int /\ tx_top \in Int /\ rx_bottom \in Int /\ rx_top \in Int
           /\ 0 <= tx_bottom /\ tx_bottom <= tx_top /\ tx_top <= Size
           /\ rx_bottom <= rx_top /\ (rx_bottom < rx_top => 0 <= rx_bottom)
           /\ rx_top <= Size /\ (rx_top <= tx_bottom \/ rx_top <= rx_bottom)
<1> USE FifoAssumption, BaseBounds DEF IInv, TypeOK, RegionsDisjoint, Region, RxBase, TxBase
<1>1. tx_bottom <= tx_top /\ rx_bottom <= rx_top
  OBVIOUS
<1>2. rx_bottom < rx_top => 0 <= rx_bottom
  OBVIOUS
<1>3. rx_top <= tx_bottom \/ rx_top <= rx_bottom
  OBVIOUS
<1>. QED
  BY <1>1, <1>2, <1>3

\* A region's fill state decides acceptance as the queue's length does.
LEMMA LevelFacts ==
    ASSUME IInv
    PROVE  /\ TxQueue \in Seq(Values) /\ Len(TxQueue) = tx_top - tx_bottom
           /\ RxQueue \in Seq(Values) /\ Len(RxQueue) = rx_top - rx_bottom
           /\ (mode # "RX_ONLY" /\ tx_state # "FIFO_FULL") <=> Len(TxQueue) < Q!TxCapacity(mode)
           /\ (mode # "TX_ONLY" /\ rx_state # "FIFO_FULL") <=> Len(RxQueue) < Q!RxCapacity(mode)
           /\ (mode # "RX_ONLY" /\ tx_state # "FIFO_EMPTY") <=> TxQueue # <<>>
           /\ (mode # "TX_ONLY" /\ rx_state # "FIFO_EMPTY") <=> RxQueue # <<>>
<1>1. TxQueue \in Seq(Values) /\ Len(TxQueue) = tx_top - tx_bottom
  BY Bounds, QueueIsSeq DEF TxQueue
<1>2. RxQueue \in Seq(Values) /\ Len(RxQueue) = rx_top - rx_bottom
  BY Bounds, QueueIsSeq DEF RxQueue
<1> USE FifoAssumption, BaseBounds DEF IInv, TypeOK, RegionsDisjoint, Region, RxBase, TxBase
<1>3. Size - Size \div 2 = Size \div 2
  OBVIOUS
<1>4. (mode # "RX_ONLY" /\ tx_state # "FIFO_FULL") <=> Len(TxQueue) < Q!TxCapacity(mode)
  BY <1>1, <1>3 DEF Q!TxCapacity
<1>5. (mode # "TX_ONLY" /\ rx_state # "FIFO_FULL") <=> Len(RxQueue) < Q!RxCapacity(mode)
  BY <1>2, <1>3 DEF Q!RxCapacity
<1>6. TxQueue # <<>> <=> Len(TxQueue) > 0
  BY <1>1
<1>7. RxQueue # <<>> <=> Len(RxQueue) > 0
  BY <1>2
<1>8. (mode # "RX_ONLY" /\ tx_state # "FIFO_EMPTY") <=> TxQueue # <<>>
  BY <1>1, <1>6
<1>9. (mode # "TX_ONLY" /\ rx_state # "FIFO_EMPTY") <=> RxQueue # <<>>
  BY <1>2, <1>7
<1>. QED
  BY <1>1, <1>2, <1>4, <1>5, <1>8, <1>9

\* Every step of the array is a step of the queues or leaves them alone.
LEMMA NextRefines == IInv /\ [Next]_vars => [Q!QNext]_(Q!qvars)
<1> SUFFICES ASSUME IInv, [Next]_vars PROVE [Q!QNext]_(Q!qvars)
  OBVIOUS
<1> USE DEF Q!Modes
<1>1. ASSUME NEW m \in Modes, FifoInit(m) PROVE Q!QConfigure(m)
  <2>1. TxQueue' = <<>> /\ RxQueue' = <<>>
    BY <1>1, BaseBounds, FifoAssumption DEF FifoInit, RxBase, TxBase, TxQueue, RxQueue, QueueOf
  <2>. QED
    BY <1>1, <2>1 DEF FifoInit, Q!QConfigure
<1>2. ASSUME NEW sel \in BOOLEAN, NEW level \in Levels, SetStatusSel(sel, level)
      PROVE  UNCHANGED Q!qvars
  BY <1>2 DEF SetStatusSel, indices, Q!qvars, TxQueue, RxQueue
<1>3. ASSUME NEW v \in Values, Write(v) PROVE Q!QWrite(v)
  <2>1. CASE Refuse /\ ~(mode # "RX_ONLY" /\ tx_state # "FIFO_FULL")
    BY <2>1, RefuseRefines, LevelFacts DEF Q!QWrite
  <2>2. CASE WriteAccepted(v) /\ mode # "RX_ONLY" /\ tx_state # "FIFO_FULL"
    <3>1. tx_top < Size
      BY <2>2, FifoAssumption, BaseBounds DEF IInv, TypeOK, RegionsDisjoint, Region, TxBase
    <3>2. TxQueue' = Append(TxQueue, v)
      <4>1. QueueOf(Insert(tx_bottom, tx_top, v), tx_bottom, tx_top + 1) = Append(TxQueue, v)
        BY <3>1, Bounds, InsertAppends DEF TxQueue
      <4>. QED
        BY <2>2, <4>1 DEF WriteAccepted, TxQueue
    <3>3. RxQueue' = RxQueue
      <4>1. QueueOf(Insert(tx_bottom, tx_top, v), rx_bottom, rx_top) = RxQueue
        BY <3>1, Bounds, InsertElsewhere, FifoAssumption DEF RxQueue
      <4>. QED
        BY <2>2, <4>1 DEF WriteAccepted, RxQueue
    <3>4. ret' = TRUE /\ UNCHANGED <<mode, out>>
      BY <2>2 DEF WriteAccepted, config
    <3>. QED
      BY <2>2, <3>2, <3>3, <3>4, LevelFacts DEF Q!QWrite
  <2>. QED
    BY <1>3, <2>1, <2>2 DEF Write
<1>4. ASSUME NEW v \in Values, Push(v) PROVE Q!QPush(v)
  <2>1. CASE Refuse /\ ~(mode # "TX_ONLY" /\ rx_state # "FIFO_FULL")
    BY <2>1, RefuseRefines, LevelFacts DEF Q!QPush
  <2>2. CASE PushAccepted(v) /\ mode # "TX_ONLY" /\ rx_state # "FIFO_FULL"
    <3>1. 0 <= rx_bottom /\ rx_top < Size /\ rx_top < tx_bottom
      BY <2>2, FifoAssumption, BaseBounds DEF IInv, TypeOK, RegionsDisjoint, Region, RxBase, TxBase
    <3>2. RxQueue' = Append(RxQueue, v)
      <4>1. QueueOf(Insert(rx_bottom, rx_top, v), rx_bottom, rx_top + 1) = Append(RxQueue, v)
        BY <3>1, Bounds, InsertAppends DEF RxQueue
      <4>. QED
        BY <2>2, <4>1 DEF PushAccepted, RxQueue
    <3>3. TxQueue' = TxQueue
      <4>1. QueueOf(Insert(rx_bottom, rx_top, v), tx_bottom, tx_top) = TxQueue
        BY <3>1, Bounds, InsertElsewhere, FifoAssumption DEF TxQueue
      <4>. QED
        BY <2>2, <4>1 DEF PushAccepted, TxQueue
    <3>4. ret' = TRUE /\ UNCHANGED <<mode, out>>
      BY <2>2 DEF PushAccepted, config
    <3>. QED
      BY <2>2, <3>2, <3>3, <3>4, LevelFacts DEF Q!QPush
  <2>. QED
    BY <1>4, <2>1, <2>2 DEF Push
<1>5. ASSUME Read PROVE Q!QRead
  <2>1. CASE Refuse /\ ~(mode # "TX_ONLY" /\ rx_state # "FIFO_EMPTY")
    BY <2>1, RefuseRefines, LevelFacts DEF Q!QRead
  <2>2. CASE ReadAccepted /\ mode # "TX_ONLY" /\ rx_state # "FIFO_EMPTY"
    <3>1. 0 <= rx_bottom /\ rx_bottom < rx_top /\ rx_top <= Size
      BY <2>2, FifoAssumption DEF IInv, TypeOK, RegionsDisjoint, Region, RxBase
    <3>2. Head(RxQueue) = buffer[rx_top - 1] /\ Tail(RxQueue) = QueueOf(buffer, rx_bottom, rx_top - 1)
      BY <3>1, Bounds, PopsOldest DEF RxQueue
    <3>3. RxQueue' = Tail(RxQueue) /\ out' = Head(RxQueue) /\ TxQueue' = TxQueue
      BY <2>2, <3>2 DEF ReadAccepted, RxQueue, TxQueue
    <3>4. ret' = TRUE /\ UNCHANGED mode
      BY <2>2 DEF ReadAccepted, config
    <3>. QED
      BY <2>2, <3>3, <3>4, LevelFacts DEF Q!QRead
  <2>. QED
    BY <1>5, <2>1, <2>2 DEF Read
<1>6. ASSUME Pull PROVE Q!QPull
  <2>1. CASE Refuse /\ ~(mode # "RX_ONLY" /\ tx_state # "FIFO_EMPTY")
    BY <2>1, RefuseRefines, LevelFacts DEF Q!QPull
  <2>2. CASE PullAccepted /\ mode # "RX_ONLY" /\ tx_state # "FIFO_EMPTY"
    <3>1. 0 <= tx_bottom /\ tx_bottom < tx_top /\ tx_top <= Size
      BY <2>2, FifoAssumption DEF IInv, TypeOK, RegionsDisjoint, Region, RxBase
    <3>2. Head(TxQueue) = buffer[tx_top - 1] /\ Tail(TxQueue) = QueueOf(buffer, tx_bottom, tx_top - 1)
      BY <3>1, Bounds, PopsOldest DEF TxQueue
    <3>3. TxQueue' = Tail(TxQueue) /\ out' = Head(TxQueue) /\ RxQueue' = RxQueue
      BY <2>2, <3>2 DEF PullAccepted, RxQueue, TxQueue
    <3>4. ret' = TRUE /\ UNCHANGED mode
      BY <2>2 DEF PullAccepted, config
    <3>. QED
      BY <2>2, <3>3, <3>4, LevelFacts DEF Q!QPull
  <2>. QED
    BY <1>6, <2>1, <2>2 DEF Pull
<1>7. CASE UNCHANGED vars
  BY <1>7 DEF vars, config, indices, Q!qvars, TxQueue, RxQueue
<1>. QED
  BY <1>1, <1>2, <1>3, <1>4, <1>5, <1>6, <1>7 DEF Next, Q!QNext

\* The shared array with its four indices implements the two bounded queues,
\* for every size, every set of words and every sequence of operations.
THEOREM ArrayImplementsQueues == Spec => ImplementsQueues
<1>1. Init => IInv /\ Q!QInit
  BY InitIInv, InitRefines
<1>. QED
  BY <1>1, NextIInv, NextRefines, PTL DEF Spec, ImplementsQueues, Q!QSpec
=============================================================================
