---------------------------- MODULE MCShiftPath ----------------------------
(***************************************************************************)
(* UserLoop with two cells of FIFO storage and one word value: what the    *)
(* words are does not matter to any test.  The counters have their real   *)
(* widths.  INs of 16 bits reach the threshold and the word size exactly,  *)
(* and wrap the counter of a stalled IN to 0, below its threshold; OUTs of *)
(* 12 bits miss and pass both.                                             *)
(***************************************************************************)
EXTENDS UserLoop

CONSTANT word

MCValues == {word}

Instr(op, n, cond, block) == [op |-> op, n |-> n, cond |-> cond, block |-> block]

\* IFFULL and IFEMPTY decide before the FIFO is looked at and block after it, so
\* PUSH IFFULL NOBLOCK and PULL IFEMPTY NOBLOCK add nothing to these.
MCInstructions ==
    {Instr(op, 0, FALSE, block) : op \in {"PUSH", "PULL"}, block \in BOOLEAN}
        \cup {Instr(op, 0, TRUE, TRUE) : op \in {"PUSH", "PULL"}}
        \cup {Instr("IN", 16, FALSE, FALSE), Instr("OUT", 12, FALSE, FALSE),
              Instr("MOV_OSR", 0, FALSE, FALSE)}

\* The user programs: one that only writes, and one that does both in turn.
MCLoops == {<<"WRITE">>, <<"WRITE", "READ">>}

MCThresholds == {-1, 16}
=============================================================================
