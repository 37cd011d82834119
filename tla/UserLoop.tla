------------------------------ MODULE UserLoop ------------------------------
(***************************************************************************)
(* ShiftPath with one user program at the other ends of the FIFOs: a loop  *)
(* of WRITE and READ, run by one user processor in their order.  While its *)
(* instruction cannot complete it is at no other, so a WRITE that finds no *)
(* room keeps the program from the READ behind it.  The REPEAT at the end  *)
(* of the loop, a turn that changes nothing but the pc, is run together    *)
(* with the instruction before it.                                         *)
(***************************************************************************)
EXTENDS ShiftPath

CONSTANT Loops            \* the user programs, without the REPEAT at their ends

ASSUME LoopAssumption == Loops \subseteq Seq({"WRITE", "READ"}) \ {<<>>}

VARIABLES loop,           \* the user program
          user_pc         \* the instruction it is at

lvars == <<svars, loop, user_pc>>

At(op) == loop[user_pc] = op

LInit == SInit /\ loop \in Loops /\ user_pc = 1

StateMachineTurn == ExecInstruction /\ UNCHANGED <<loop, user_pc>>

\* The pc goes on when the instruction has completed; at one that has not the
\* turn changes nothing.
UserTurn ==
    /\ (At("WRITE") /\ UserWrite) \/ (At("READ") /\ UserRead)
    /\ user_pc' = (user_pc % Len(loop)) + 1
    /\ UNCHANGED loop

LNext == StateMachineTurn \/ UserTurn

\* The scheduler gives the state machine and the user processor their turns again
\* and again.  It is the turn of the user processor that is fair, and not each of
\* its instructions: a blocked one gets its turns and the others do not.
LoopSpec == LInit /\ [][LNext]_lvars /\ WF_lvars(StateMachineTurn) /\ WF_lvars(UserTurn)

-----------------------------------------------------------------------------
(* What must hold *)

WaitsForRoom == stalled /\ instr.op \in {"PUSH", "IN"}
WaitsForWord == stalled /\ TxCapacity(mode) > 0
                        /\ (instr.op = "PULL" \/ (instr.op = "OUT" /\ shiftctl.autopull))

\* The user program is blocked as well, on the direction the state machine would
\* have to move: nothing can happen any more.
DeadLock == \/ WaitsForRoom /\ RxFull /\ At("WRITE") /\ TxFull
            \/ WaitsForWord /\ tx = <<>> /\ At("READ") /\ rx = <<>>

Uses(op) == \E i \in DOMAIN loop : loop[i] = op

\* A state machine that waits for the user program, whose loop has what it waits
\* for, goes on, unless the two wait for each other: that the one has an RX FIFO
\* full and the other a TX FIFO full, or both one that is empty, is the only way
\* for them to stop.  That they do stop then is as the code has it
\* (execution.c:875 and 1402 test one direction each).
BlockedGoesOn ==
    (WaitsForRoom /\ Uses("READ")) \/ (WaitsForWord /\ Uses("WRITE")) ~> (~stalled \/ DeadLock)
=============================================================================
