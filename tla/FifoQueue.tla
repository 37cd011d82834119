------------------------------ MODULE FifoQueue ------------------------------
(***************************************************************************)
(* What the FIFOs of a PIO state machine promise to their two users        *)
(* (notes 1-3 of inc/fifo.h): two bounded first-in first-out queues that   *)
(* share Size words of storage.  tx carries words from the user processor  *)
(* (write) to the state machine (pull), rx from the state machine (push)   *)
(* to the user processor (read).  An operation that cannot be done returns *)
(* false and changes neither queue.                                        *)
(*                                                                         *)
(* Fifo.tla, the shared array with its four indices, implements this       *)
(* module; the modules above it (ShiftPath) use these queues instead of    *)
(* the array.                                                              *)
(***************************************************************************)
EXTENDS Integers, Sequences

CONSTANTS Size,     \* TOTAL_FIFO_SIZE_PER_SM
          Values    \* the words

ASSUME SizeAssumption == Size \in Nat \ {0} /\ Size % 2 = 0

VARIABLES mode,     \* fifo_mode_t
          tx, rx,   \* the queued words, oldest first
          ret,      \* what the last operation returned
          out       \* the word the last successful pull or read delivered

qvars == <<mode, tx, rx, ret, out>>

Modes == {"BIDI", "TX_ONLY", "RX_ONLY"}

\* The share of the storage each direction has in a mode.
TxCapacity(m) == CASE m = "BIDI" -> Size \div 2
                   [] m = "TX_ONLY" -> Size
                   [] m = "RX_ONLY" -> 0

RxCapacity(m) == CASE m = "BIDI" -> Size \div 2
                   [] m = "TX_ONLY" -> 0
                   [] m = "RX_ONLY" -> Size

-----------------------------------------------------------------------------

QInit == /\ mode = "BIDI"
         /\ tx = <<>> /\ rx = <<>>
         /\ ret = FALSE
         /\ out \in Values

\* (Re)configuring the FIFOs drops whatever was queued.
QConfigure(m) == /\ mode' = m
                 /\ tx' = <<>> /\ rx' = <<>>
                 /\ UNCHANGED <<ret, out>>

QRefuse == ret' = FALSE /\ UNCHANGED <<mode, tx, rx, out>>

QWrite(v) == IF Len(tx) < TxCapacity(mode)
             THEN /\ tx' = Append(tx, v)
                  /\ ret' = TRUE
                  /\ UNCHANGED <<mode, rx, out>>
             ELSE QRefuse

QPush(v) == IF Len(rx) < RxCapacity(mode)
            THEN /\ rx' = Append(rx, v)
                 /\ ret' = TRUE
                 /\ UNCHANGED <<mode, tx, out>>
            ELSE QRefuse

QPull == IF tx # <<>>
         THEN /\ out' = Head(tx)
              /\ tx' = Tail(tx)
              /\ ret' = TRUE
              /\ UNCHANGED <<mode, rx>>
         ELSE QRefuse

QRead == IF rx # <<>>
         THEN /\ out' = Head(rx)
              /\ rx' = Tail(rx)
              /\ ret' = TRUE
              /\ UNCHANGED <<mode, tx>>
         ELSE QRefuse

QNext == \/ \E m \in Modes : QConfigure(m)
         \/ \E v \in Values : QWrite(v) \/ QPush(v)
         \/ QPull
         \/ QRead

QSpec == QInit /\ [][QNext]_qvars
=============================================================================
