------------------------------ MODULE LineEditor ------------------------------
(***************************************************************************)
(* What the editor promises about the text (editor.h, part a): lines of    *)
(* characters and a cursor on one of them.  Typing and deleting change     *)
(* nothing but the line under the cursor; everything else only moves the   *)
(* cursor.  Lines are never split or joined.                               *)
(***************************************************************************)
EXTENDS Integers, Sequences

CONSTANT Chars

VARIABLES lines,      \* a sequence of sequences of Chars
          line, col   \* the cursor, both from zero

text == <<lines, line, col>>

Current == lines[line + 1]

Type(ch) ==
    /\ col <= Len(Current)
    /\ lines' = [lines EXCEPT ![line + 1] =
                    SubSeq(Current, 1, col) \o <<ch>> \o SubSeq(Current, col + 1, Len(Current))]
    /\ line' = line
    /\ col' = IF col = Len(Current) THEN col ELSE col + 1

\* The character at position c goes.
Delete(c) ==
    /\ c < Len(Current)
    /\ lines' = [lines EXCEPT ![line + 1] =
                    SubSeq(Current, 1, c) \o SubSeq(Current, c + 2, Len(Current))]
    /\ line' = line /\ col' = c

Move == /\ lines' = lines
        /\ line' \in 0..(Len(lines) - 1) /\ col' \in Nat

EInit == /\ lines \in Seq(Seq(Chars)) /\ lines # <<>>
         /\ line = 0 /\ col = 0

ENext == \/ \E ch \in Chars : Type(ch)
         \/ Delete(col)
         \/ Delete(IF col = 0 THEN 0 ELSE col - 1)      \* backspace
         \/ Move

ESpec == EInit /\ [][ENext]_text
=============================================================================
