------------------------- MODULE MCInstructionCycle -------------------------
(* Two state machines, with two instructions each, that share the flags. *)
EXTENDS InstructionCycle, TLC

I(op, arg, delay) == [op |-> op, arg |-> arg, relative |-> FALSE, delay |-> delay]
Rel(op, arg, delay) == [I(op, arg, delay) EXCEPT !.relative = TRUE]

\* Programs of instructions A for state machine 0 at 0..1, and B for 1 at 2..3.
Loaded(A, B) ==
    {[code |-> [a \in 0..3 |-> IF a < 2 THEN x[a] ELSE y[a]],
      first |-> [s \in 0..1 |-> 2 * s], last |-> [s \in 0..1 |-> 2 * s + 1],
      wrap |-> [s \in 0..1 |-> IF s = 0 THEN w ELSE 3],
      wrap_target |-> [s \in 0..1 |-> 2 * s]] :
        x \in [0..1 -> A], y \in [2..3 -> B], w \in {1, -1}}

Raising == {I("jmp", 0, 0), I("jmp_if", 0, 1), I("jmp_if", 1, 2), I("data", 0, 2),
            I("wait_low", 0, 0), I("irq_wait", 0, 0), I("irq_wait", 0, 1),
            I("irq_set", 1, 0), I("pc", 0, 0), I("pc", 1, 0)}

Clearing == {I("jmp", 3, 1), I("wait_high", 0, 1), I("wait_high", 1, 0),
             I("irq_clear", 0, 0), I("irq_clear", 0, 2), Rel("irq_wait", 0, 1),
             Rel("irq_clear", 0, 0), Rel("irq_set", 1, 0), I("data", 0, 0)}

MCPrograms == {p \in Loaded(Raising, Clearing) : WellFormed(p)}
=============================================================================
