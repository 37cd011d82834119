----------------------------- MODULE FifoChange -----------------------------
(***************************************************************************)
(* How the display finds what a step changed in a FIFO pair: stepit copies *)
(* the pair before the step (hardware_snapshot, fifo_copy) and compares it *)
(* afterwards (hardware_get_changed, fifo_compare).  The copy is the state *)
(* before a step of Fifo, what it is compared with the state after it.     *)
(***************************************************************************)
EXTENDS Fifo

\* fifo_copy keeps rx_bottom in the place of tx_bottom, and fifo_compare compares
\* that with rx_bottom.
CopiedTxBottom == rx_bottom

\* Whether a compared cell differs.  In TX_ONLY mode the comparison starts at cell
\* -1, which is memory before each of the two arrays: outside says how that ends.
CellsDiffer(bottom, top, outside) ==
    \E i \in bottom..(top - 1) : IF i \in Cells THEN buffer'[i] # buffer[i] ELSE outside

\* Mutant: the top of the TX FIFO is not compared.
TxTopUnseen == FALSE

TxTopMoved == tx_top' # tx_top

\* fifo_compare: the first test that holds is the answer.
Mark(outside) ==
    IF rx_state' # rx_state THEN "RX_STATE"
    ELSE IF tx_state' # tx_state THEN "TX_STATE"
    ELSE IF rx_bottom' # rx_bottom \/ rx_top' # rx_top THEN "RX_CONTENTS"
    ELSE IF CopiedTxBottom # rx_bottom' \/ TxTopMoved THEN "TX_CONTENTS"
    ELSE IF CellsDiffer(rx_bottom, rx_top, outside) THEN "RX_CONTENTS"
    ELSE IF CellsDiffer(CopiedTxBottom, tx_top, outside) THEN "TX_CONTENTS"
    ELSE "FIFO_MATCH"

\* inc/hardware_changed.h: the display highlights "when any piece of the hardware
\* state changes".  Although the copy has a wrong tx_bottom, a step that changes
\* what a queue holds is marked on that queue's side, and a step that changes
\* neither is not marked, except in TX_ONLY mode, where memory outside the array
\* decides.
StepIsMarked ==
    [][\A outside \in IF mode = "TX_ONLY" THEN BOOLEAN ELSE {TRUE} :
         LET rx_changed == RxQueue' # RxQueue
             tx_changed == TxQueue' # TxQueue
         IN CASE rx_changed -> Mark(outside) \in {"RX_STATE", "RX_CONTENTS"}
              [] tx_changed /\ ~rx_changed -> Mark(outside) \in {"TX_STATE", "TX_CONTENTS"}
              [] OTHER -> Mark(outside) = "FIFO_MATCH" \/ mode' # mode \/ mode = "TX_ONLY"]_vars
=============================================================================
