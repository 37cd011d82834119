----------------------------- MODULE PioProgram -----------------------------
(***************************************************************************)
(* The instructions of one PIO as src/instruction.h stores them, reduced   *)
(* to what decides the order in which a state machine runs them: jumps,    *)
(* waiting, IRQ flags, writes to the pc, and delays.  Whatever only moves  *)
(* data is "data", and may block.                                          *)
(***************************************************************************)
EXTENDS Integers

CONSTANTS NumSMs,     \* state machines of the PIO that have a program
          NumFlags,   \* NUM_IRQ_FLAGS
          Length,     \* next_instruction_location: what lies beyond is empty
          Programs    \* the contents of the instruction memory to consider

SMs   == 0..(NumSMs - 1)
Flags == 0..(NumFlags - 1)
Addrs == 0..(Length - 1)

\* jmp_if stands for a JMP with any condition, pc for MOV PC and OUT PC.
Jumps == {"jmp", "jmp_if"}
Ops   == Jumps \cup {"data", "wait_high", "wait_low", "irq_set", "irq_clear", "irq_wait", "pc"}

\* arg is the target of a jump or a write to the pc, or the number of a flag.
Instr == [op : Ops, arg : Nat, relative : BOOLEAN, delay : Nat]

\* first..last are the lines of a state machine's own program; wrap and
\* wrap_target are -1 where there is no such directive.
Program == [code : [Addrs -> Instr],
            first : [SMs -> Addrs], last : [SMs -> Addrs],
            wrap : [SMs -> Addrs \cup {-1}], wrap_target : [SMs -> Addrs \cup {-1}]]

ASSUME ProgramAssumption ==
    /\ NumSMs \in Nat /\ NumFlags \in Nat /\ Length \in Nat
    /\ \A p \in Programs : p \in Program

\* The flag an IRQ instruction of state machine s names.
FlagOf(i, s) == IF i.relative THEN i.arg + s ELSE i.arg

\* hardware_irq_flag_set reports a flag that does not exist, and ignores it.
Raise(set, flag) == set \cup ({flag} \cap Flags)

\* The next address, unless the instruction jumped.
After(p, s, a) == IF a = p.wrap[s] THEN p.wrap_target[s] ELSE a + 1

Own(p, s) == p.first[s]..p.last[s]

\* The instruction at address a never takes state machine s out of its program.
StaysInside(p, s, a) ==
    LET i == p.code[a]
    IN /\ i.op \in Jumps \cup {"pc"} => i.arg \in Own(p, s)
       /\ i.op \notin {"jmp", "pc"} => After(p, s, a) \in Own(p, s)

\* What the code gets right about the pc: a JMP with a condition is not the last
\* instruction before the wrap, as it does not wrap if it does not jump; and a
\* write to the pc has no delay and does not aim just behind the wrap.
OrderlyPc(p, s, a) ==
    LET i == p.code[a]
    IN /\ i.op = "jmp_if" => a # p.wrap[s]
       /\ i.op = "pc" => i.delay = 0 /\ i.arg - 1 # p.wrap[s]

\* The state machines' programs are apart, closed and orderly.
WellFormed(p) ==
    /\ \A s \in SMs : p.first[s] <= p.last[s]
    /\ \A s, t \in SMs : s # t => Own(p, s) \cap Own(p, t) = {}
    /\ \A s \in SMs : \A a \in Own(p, s) : StaysInside(p, s, a) /\ OrderlyPc(p, s, a)
=============================================================================
