------------------------------- MODULE MCFifo -------------------------------
(***************************************************************************)
(* Fifo on a small instance: the real eight cells, two words, and levels   *)
(* on both sides of what each direction can hold.                          *)
(***************************************************************************)
EXTENDS FifoChange

MCValues == {0, 1}
MCLevels == {0, 4, 8}
=============================================================================
