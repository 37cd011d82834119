---------------------------- MODULE MCMainControl -----------------------------
(***************************************************************************)
(* MainControl over two builds, of any file of up to four lines and then   *)
(* of any one-line file: two PIOs with one state machine and two           *)
(* instructions each, two user processors and a handler with room for one  *)
(* instruction, so that every table can be full and every reference can    *)
(* point forwards, backwards or to the other PIO.                          *)
(***************************************************************************)
EXTENDS MainControl

St(k, n, name) == [k |-> k, n |-> n, name |-> name]

MCStatements ==
    {St(k, 0, "") : k \in {"sm", "interrupt_handler", "wrap", "wrap_target", "other", "user", "exit"}}
    \cup {St("pio", 1, ""), St("pio", 2, ""), St("user_processor", 2, "")}
    \cup {St(k, 0, "a") : k \in {"label", "jmp"}}

MCFileLines == <<4, 1>>
=============================================================================
