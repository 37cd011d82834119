------------------------------ MODULE ShiftPath ------------------------------
(***************************************************************************)
(* One state machine moving words between its FIFOs and its shift          *)
(* registers (IN, OUT, PUSH, PULL and MOV OSR of src/execution.c, with     *)
(* autopush and autopull), and the user program that writes and reads the  *)
(* other ends.                                                             *)
(*                                                                         *)
(* The registers are abstracted to their shift counters and flags, which   *)
(* is all that decides whether an instruction completes; the bits are the  *)
(* matter of DataPath.  The program is any sequence of the instructions in *)
(* Instructions: when one completes the next is chosen, when one cannot    *)
(* complete it is executed again at the state machine's next turn.         *)
(***************************************************************************)
EXTENDS FifoQueue

CONSTANTS Instructions,   \* the instructions programs are made of, see Instruction
          Thresholds,     \* shift thresholds a configuration may ask for
          FifoModes       \* how the FIFOs may be joined

WordBits == 32
CountMod == 256           \* uint8_t shift_in_count, shift_out_count
Unset    == -1            \* a threshold that was never configured

\* op, the bit count of IN and OUT, ifempty/iffull of PULL and PUSH, and block.
Instruction == [op : {"IN", "OUT", "PUSH", "PULL", "MOV_OSR"},
                n : 0..WordBits, cond : BOOLEAN, block : BOOLEAN]

ASSUME ShiftAssumption == /\ Instructions \subseteq Instruction
                          /\ Instructions # {}
                          /\ Thresholds \subseteq {Unset} \cup 0..31
                          /\ FifoModes \subseteq Modes

VARIABLES shiftctl,          \* the configuration: autopush, autopull, push, pull
          instr,             \* the instruction the pc is at
          stalled,           \* it was executed and did not complete
          shift_in_count, isr_full,
          shift_out_count, osr_empty,
          shifted_out,       \* history: bits shifted out of what the OSR now holds
          waited_for,        \* history: the OSR was loaded by a pull, not by PULL NOBLOCK or MOV
          collected          \* history: bits INs that completed put in the ISR

smIn  == <<shift_in_count, isr_full, collected>>
smOut == <<shift_out_count, osr_empty, shifted_out, waited_for>>
svars == <<qvars, shiftctl, instr, stalled, smIn, smOut>>

\* Mutant: the counter is not capped.
Uncapped(n) == n

AtMostWord(n) == IF n > WordBits THEN WordBits ELSE n

\* hardware_set_shiftctl_in and _out, hardware_fifo_merge, then hardware_reset_sm.
SInit ==
    /\ mode \in FifoModes /\ tx = <<>> /\ rx = <<>> /\ ret = TRUE /\ out \in Values
    /\ shiftctl \in [autopush : BOOLEAN, autopull : BOOLEAN, push : Thresholds, pull : Thresholds]
    /\ instr \in Instructions /\ stalled = FALSE
    /\ shift_in_count = 0 /\ isr_full = FALSE
    /\ shift_out_count = 0 /\ osr_empty = TRUE
    /\ shifted_out = WordBits /\ waited_for = TRUE /\ collected = 0

-----------------------------------------------------------------------------
(* What the instructions test *)

\* rx_state == FIFO_FULL and tx_state == FIFO_FULL: in a mode that has no such
\* direction fifo.c keeps the state at FIFO_EMPTY, so it is never full.
\* Mutant: the mode is not asked.
RxFullAnyMode == Len(rx) = RxCapacity(mode)

RxFull == RxCapacity(mode) > 0 /\ Len(rx) = RxCapacity(mode)
TxFull == TxCapacity(mode) > 0 /\ Len(tx) = TxCapacity(mode)

\* Mutant: a threshold is only reached when it is passed.
ReachedLate(thresh, count) == (thresh > 0 /\ count > thresh) \/ count >= WordBits

Reached(thresh, count) == (thresh > 0 /\ count >= thresh) \/ count >= WordBits

-----------------------------------------------------------------------------
(* How an instruction ends *)

Complete == stalled' = FALSE /\ instr' \in Instructions
Stall    == stalled' = TRUE /\ UNCHANGED instr

NoTransfer == UNCHANGED qvars

\* The ISR goes to the RX FIFO, whatever fifo_push answers.
PushIsr == /\ \E v \in Values : QPush(v)
           /\ shift_in_count' = 0 /\ isr_full' = FALSE /\ collected' = 0

\* Mutant: PULL leaves the counter of the previous word.
LoadOsrKeepCount == shifted_out' = 0 /\ osr_empty' = FALSE /\ UNCHANGED shift_out_count

LoadOsr == shifted_out' = 0 /\ shift_out_count' = 0 /\ osr_empty' = FALSE

PullToOsr == QPull /\ LoadOsr /\ waited_for' = TRUE

-----------------------------------------------------------------------------
(* The instructions *)

\* Mutant: a full RX FIFO is not noticed.
PushIgnoresFull ==
    /\ instr.op = "PUSH"
    /\ IF instr.cond /\ ~isr_full
       THEN Complete /\ NoTransfer /\ UNCHANGED smIn
       ELSE Complete /\ PushIsr
    /\ UNCHANGED smOut

Push ==
    /\ instr.op = "PUSH"
    /\ \/ /\ instr.cond /\ ~isr_full
          /\ Complete /\ NoTransfer /\ UNCHANGED smIn
       \/ /\ ~(instr.cond /\ ~isr_full) /\ RxFull
          /\ IF instr.block THEN Stall ELSE Complete
          /\ NoTransfer /\ UNCHANGED smIn
       \/ /\ ~(instr.cond /\ ~isr_full) /\ ~RxFull
          /\ PushIsr
          /\ Complete
    /\ UNCHANGED smOut

\* Every execution shifts, also the repeated executions of an IN whose autopush
\* stalled: shift_in_resume_count stays 0.
In ==
    /\ instr.op = "IN"
    /\ LET count == (shift_in_count + instr.n) % CountMod
           full  == Reached(shiftctl.push, count)
       IN \/ /\ full /\ shiftctl.autopush /\ ~RxFull
             /\ PushIsr
             /\ Complete
          \/ /\ full /\ shiftctl.autopush /\ RxFull
             /\ shift_in_count' = count /\ isr_full' = TRUE
             /\ UNCHANGED collected
             /\ Stall /\ NoTransfer
          \/ /\ ~(full /\ shiftctl.autopush)
             /\ shift_in_count' = count /\ isr_full' = (isr_full \/ full)
             /\ collected' = AtMostWord(collected + instr.n)
             /\ Complete /\ NoTransfer
    /\ UNCHANGED smOut

Pull ==
    /\ instr.op = "PULL"
    /\ \/ /\ instr.cond /\ ~osr_empty
          /\ Complete /\ NoTransfer /\ UNCHANGED smOut
       \/ /\ ~(instr.cond /\ ~osr_empty) /\ tx = <<>> /\ instr.block
          /\ Stall /\ NoTransfer /\ UNCHANGED smOut
       \/ /\ ~(instr.cond /\ ~osr_empty) /\ tx = <<>> /\ ~instr.block
          /\ shift_out_count' = 0 /\ shifted_out' = 0 /\ waited_for' = FALSE  \* osr = scratch_x
          /\ UNCHANGED osr_empty
          /\ Complete /\ NoTransfer
       \/ /\ ~(instr.cond /\ ~osr_empty) /\ tx # <<>>
          /\ PullToOsr
          /\ Complete
    /\ UNCHANGED smIn

\* n bits leave an OSR that has given up count of them, shifted of them truly.
ShiftOut(count, shifted, n) ==
    /\ shift_out_count' = AtMostWord(count + n)
    /\ shifted_out' = AtMostWord(shifted + n)
    /\ osr_empty' = Reached(shiftctl.pull, shift_out_count')

Out ==
    /\ instr.op = "OUT"
    /\ \/ /\ ~osr_empty
          /\ ShiftOut(shift_out_count, shifted_out, instr.n) /\ UNCHANGED waited_for
          /\ Complete /\ NoTransfer
       \/ /\ osr_empty /\ shiftctl.autopull /\ tx # <<>>
          /\ QPull
          /\ ShiftOut(0, 0, instr.n) /\ waited_for' = TRUE
          /\ Complete
       \/ /\ osr_empty /\ (~shiftctl.autopull \/ tx = <<>>)
          /\ Stall /\ NoTransfer /\ UNCHANGED smOut
    /\ UNCHANGED smIn

\* MOV OSR, ...: the flag is cleared, the counter is not.
MovOsr ==
    /\ instr.op = "MOV_OSR"
    /\ osr_empty' = FALSE /\ shifted_out' = 0 /\ waited_for' = FALSE
    /\ Complete /\ NoTransfer
    /\ UNCHANGED <<shift_out_count, smIn>>

\* The state machine's turn.
ExecInstruction == (Push \/ In \/ Pull \/ Out \/ MovOsr) /\ UNCHANGED shiftctl

-----------------------------------------------------------------------------
(* The user program *)

\* WRITE when tx_state is not FIFO_FULL; the answer of fifo_write is ignored.
UserWrite == ~TxFull /\ (\E v \in Values : QWrite(v)) /\ UNCHANGED <<shiftctl, instr, stalled, smIn, smOut>>

UserRead == rx # <<>> /\ QRead /\ UNCHANGED <<shiftctl, instr, stalled, smIn, smOut>>

SNext == ExecInstruction \/ UserWrite \/ UserRead

SSpec == SInit /\ [][SNext]_svars

-----------------------------------------------------------------------------
(* What must hold *)

STypeOK ==
    /\ mode \in Modes /\ ret \in BOOLEAN /\ out \in Values
    /\ tx \in Seq(Values) /\ Len(tx) <= TxCapacity(mode)
    /\ rx \in Seq(Values) /\ Len(rx) <= RxCapacity(mode)
    /\ instr \in Instructions /\ stalled \in BOOLEAN
    /\ shift_in_count \in 0..(CountMod - 1) /\ isr_full \in BOOLEAN
    /\ shift_out_count \in 0..WordBits /\ osr_empty \in BOOLEAN
    /\ shifted_out \in 0..WordBits /\ waited_for \in BOOLEAN /\ collected \in 0..WordBits

\* The OSR counts as empty exactly when the configured number of bits has been
\* shifted out of the word it holds (shiftctl_pull_thresh, inc/hardware.h:76):
\* an autopull never overwrites bits still to be sent, and an OUT never waits
\* for a word while bits are left.
OsrEmptyWhenShiftedOut == osr_empty <=> Reached(shiftctl.pull, shifted_out)

\* That, for every word that came from the TX FIFO, whatever PULL NOBLOCK and
\* MOV OSR did before it.
PulledWordIsSentWhole == waited_for => OsrEmptyWhenShiftedOut

\* execution.c tests the fill state, calls the transfer and ignores its answer:
\* with separate FIFOs no transfer is ever refused, so no completed instruction
\* has lost its word.
NeverRefused == mode = "BIDI" => ret

\* The ISR is pushed by the IN that fills it (doc/pio_programming.md: "whenever 8
\* bits have been shifted into the ISR, the value in the ISR is automatically
\* pushed"): an IN that completes under autopush leaves fewer bits than the
\* threshold, whatever stalled INs did to the counter before.  Left out are an IN that
\* was itself stalled (repeated often enough it wraps the eight-bit counter below the
\* threshold and completes without its push) and what that one leaves behind, an ISR
\* with more bits than are counted.
AutopushKeepsUp ==
    [][shiftctl.autopush /\ ~stalled /\ collected <= shift_in_count /\ collected' > collected =>
           collected' < WordBits /\ (shiftctl.push > 0 => collected' < shiftctl.push)]_svars
=============================================================================
