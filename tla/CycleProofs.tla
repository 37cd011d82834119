---------------------------- MODULE CycleProofs ----------------------------
(***************************************************************************)
(* Theorems about InstructionCycle, for any number of state machines,      *)
(* flags and addresses, and any set of well-formed programs.               *)
(***************************************************************************)
EXTENDS InstructionCycle, TLAPS

AllWellFormed == \A p \in Programs : WellFormed(p)

\* What the cell of the instruction at the pc of s remembers makes sense: it is
\* in a delay only with a place to go on to, and waiting only in an IRQ WAIT.
CellMakesSense(s) ==
    /\ in_delay_state[pc[s]] =>
           /\ Here(s).op # "pc"
           /\ Here(s).op \in Jumps => jmp_pc[pc[s]] \in Own(program, s)
    /\ already_set_waiting[pc[s]] =>
           Here(s).op = "irq_wait" /\ ~in_delay_state[pc[s]]

IInv ==
    /\ TypeOK /\ program \in Programs
    /\ StaysInOwnProgram /\ MarksAreCurrent
    /\ \A s \in SMs : CellMakesSense(s)

-----------------------------------------------------------------------------
(* Programs *)

\* Where a state machine is lies in the instruction memory, and its instruction
\* has the fields it needs.
LEMMA OwnIsLoaded ==
    ASSUME NEW p \in Programs, NEW s \in SMs, NEW a \in Own(p, s)
    PROVE  /\ a \in Addrs
           /\ p.code[a] \in Instr
           /\ p.first[s] \in Int /\ p.last[s] \in Int
<1>1. p \in Program  BY ProgramAssumption
<1>2. p.first[s] \in Addrs /\ p.last[s] \in Addrs  BY <1>1 DEF Program
<1>3. a \in Addrs  BY <1>2, ProgramAssumption DEF Own, Addrs
<1>4. p.code[a] \in Instr  BY <1>1, <1>3 DEF Program
<1>5. \A b \in Addrs : b \in Int  BY ProgramAssumption DEF Addrs
<1> QED  BY <1>2, <1>3, <1>4, <1>5

\* Two state machines are never at the same instruction.
LEMMA PlacesDiffer ==
    ASSUME AllWellFormed, program \in Programs,
           NEW s \in SMs, NEW t \in SMs, s # t,
           NEW a \in Own(program, s)
    PROVE  a \notin Own(program, t)
BY DEF AllWellFormed, WellFormed

\* What a well-formed program says of the instruction at a place of s.
LEMMA OwnIsOrderly ==
    ASSUME AllWellFormed, program \in Programs, NEW s \in SMs, NEW a \in Own(program, s)
    PROVE  StaysInside(program, s, a) /\ OrderlyPc(program, s, a)
BY DEF AllWellFormed, WellFormed

-----------------------------------------------------------------------------
(* Every turn changes one cell and one pc *)

\* The form of every turn: s goes from its place to n, and leaves in the cell of
\* the instruction it executed the delay flag d, the delay k, the target j and
\* the waiting flag w.
Local(s, n, d, k, j, w) ==
    /\ pc' = [pc EXCEPT ![s] = n]
    /\ in_delay_state' = [in_delay_state EXCEPT ![pc[s]] = d]
    /\ delay_left' = [delay_left EXCEPT ![pc[s]] = k]
    /\ jmp_pc' = [jmp_pc EXCEPT ![pc[s]] = j]
    /\ already_set_waiting' = [already_set_waiting EXCEPT ![pc[s]] = w]
    /\ program' = program

\* ... and what makes it preserve the invariant.
Sound(s, n, d, k, j, w) ==
    /\ n \in Own(program, s)
    /\ d \in BOOLEAN /\ k \in Nat /\ j \in Nat /\ w \in BOOLEAN
    /\ n # pc[s] => ~d /\ ~w
    /\ d => /\ Here(s).op # "pc"
            /\ Here(s).op \in Jumps => j \in Own(program, s)
    /\ w => Here(s).op = "irq_wait" /\ ~d

\* Such a turn keeps the invariant.
LEMMA LocalKeepsInvariant ==
    ASSUME AllWellFormed, IInv, flags' \subseteq Flags, NEW s \in SMs,
           NEW n, NEW d, NEW k, NEW j, NEW w,
           Local(s, n, d, k, j, w), Sound(s, n, d, k, j, w)
    PROVE  IInv'
<1> DEFINE a == pc[s]
<1>1. /\ TypeOK /\ program \in Programs /\ program' = program
      /\ \A t \in SMs : pc[t] \in Own(program, t)
  BY DEF IInv, StaysInOwnProgram, Local
<1>2. \A t \in SMs : pc[t] \in Addrs /\ Own(program, t) \subseteq Addrs
  BY <1>1, OwnIsLoaded
<1>3. n \in Int /\ n \in Addrs /\ pc \in [SMs -> Int]
  BY <1>1, <1>2 DEF Sound, Addrs, TypeOK
<1>4. TypeOK'
  BY <1>1, <1>2, <1>3 DEF TypeOK, Local, Sound
<1>5. \A t \in SMs : pc'[t] = IF t = s THEN n ELSE pc[t]
  BY <1>3 DEF Local
<1>6. StaysInOwnProgram'
  BY <1>1, <1>5 DEF StaysInOwnProgram, Sound, Own
<1>7. \A t \in SMs : t # s => pc[t] # a
  BY <1>1, PlacesDiffer
<1>8. \A b \in Addrs :
         /\ in_delay_state'[b] = IF b = a THEN d ELSE in_delay_state[b]
         /\ already_set_waiting'[b] = IF b = a THEN w ELSE already_set_waiting[b]
         /\ jmp_pc'[b] = IF b = a THEN j ELSE jmp_pc[b]
  BY <1>1, <1>2 DEF TypeOK, Local
<1>9. MarksAreCurrent'
  <2> SUFFICES ASSUME NEW b \in Addrs, in_delay_state'[b] \/ already_set_waiting'[b]
               PROVE  \E t \in SMs : pc'[t] = b
    BY DEF MarksAreCurrent
  <2>1. CASE b = a
    <3>1. d \/ w  BY <2>1, <1>8
    <3>2. n = a  BY <3>1 DEF Sound
    <3> QED  BY <3>2, <2>1, <1>5
  <2>2. CASE b # a
    <3>1. in_delay_state[b] \/ already_set_waiting[b]  BY <2>2, <1>8
    <3>2. PICK t \in SMs : pc[t] = b  BY <3>1 DEF IInv, MarksAreCurrent
    <3> QED  BY <3>2, <2>2, <1>5
  <2> QED  BY <2>1, <2>2
<1>10. \A t \in SMs : CellMakesSense(t)'
  <2> SUFFICES ASSUME NEW t \in SMs PROVE CellMakesSense(t)'  OBVIOUS
  <2>1. CASE t # s
    <3>1. pc'[t] = pc[t] /\ pc[t] # a /\ pc[t] \in Addrs  BY <2>1, <1>2, <1>5, <1>7
    <3>2. CellMakesSense(t)  BY DEF IInv
    <3> QED  BY <3>1, <3>2, <1>1, <1>8 DEF CellMakesSense, Here, Own
  <2>2. CASE t = s /\ n = a
    <3>1. pc'[s] = a /\ a \in Addrs  BY <2>2, <1>2, <1>5
    <3> QED  BY <3>1, <2>2, <1>1, <1>8 DEF CellMakesSense, Here, Own, Sound
  <2>3. CASE t = s /\ n # a
    <3>1. pc'[s] = n  BY <1>5
    <3>2. ~in_delay_state[n] /\ ~already_set_waiting[n]
      <4> SUFFICES ASSUME NEW u \in SMs, pc[u] = n PROVE FALSE
        BY <1>3 DEF IInv, MarksAreCurrent
      <4>1. u # s  BY <2>3
      <4> QED  BY <4>1, <1>1, PlacesDiffer DEF Sound
    <3>3. ~in_delay_state'[n] /\ ~already_set_waiting'[n]  BY <3>2, <2>3, <1>3, <1>8
    <3> QED  BY <3>1, <3>3, <2>3 DEF CellMakesSense
  <2> QED  BY <2>1, <2>2, <2>3
<1> QED  BY <1>1, <1>4, <1>6, <1>9, <1>10 DEF IInv

-----------------------------------------------------------------------------
(* The actions have this form *)

\* The work of the instruction of s is done, its next place is next, and j is
\* what it leaves in jmp_pc: it moves, or it begins its delay.
Goes(s, next, j) ==
    /\ IF Here(s).delay = 0
       THEN Local(s, next, FALSE, 0, j, FALSE)
       ELSE Local(s, pc[s], TRUE, Here(s).delay - 1, j, FALSE)
    /\ next \in Own(program, s) /\ j \in Nat
    /\ Here(s).op \in Jumps => j = next
    /\ Here(s).op \notin Jumps \cup {"pc"} => next = After(program, s, pc[s])
    /\ Here(s).op = "pc" => Here(s).delay = 0

\* Facts about the place of s that every action needs.
LEMMA PlaceOf ==
    ASSUME AllWellFormed, IInv, NEW s \in SMs
    PROVE  /\ pc[s] \in Own(program, s) /\ pc[s] \in Addrs /\ pc[s] \in Nat
           /\ Here(s) \in Instr
           /\ StaysInside(program, s, pc[s]) /\ OrderlyPc(program, s, pc[s])
           /\ jmp_pc \in [Addrs -> Nat] /\ already_set_waiting \in [Addrs -> BOOLEAN]
           /\ delay_left \in [Addrs -> Nat] /\ in_delay_state \in [Addrs -> BOOLEAN]
           /\ CellMakesSense(s)
<1>1. program \in Programs /\ pc[s] \in Own(program, s)
  BY DEF IInv, StaysInOwnProgram
<1>2. pc[s] \in Addrs /\ Here(s) \in Instr  BY <1>1, OwnIsLoaded DEF Here
<1>3. pc[s] \in Nat  BY <1>2, ProgramAssumption DEF Addrs
<1>4. StaysInside(program, s, pc[s]) /\ OrderlyPc(program, s, pc[s])
  BY <1>1, OwnIsOrderly
<1> QED  BY <1>1, <1>2, <1>3, <1>4 DEF IInv, TypeOK

\* A cell that is not waiting, or no longer, can be written as one that is set to
\* not waiting; one whose jmp_pc is unchanged as one that is set to what it holds.
LEMMA CellUnchanged ==
    ASSUME AllWellFormed, IInv, NEW s \in SMs
    PROVE  /\ jmp_pc = [jmp_pc EXCEPT ![pc[s]] = jmp_pc[pc[s]]]
           /\ Here(s).op # "irq_wait" =>
                 already_set_waiting = [already_set_waiting EXCEPT ![pc[s]] = FALSE]
<1>1. jmp_pc = [jmp_pc EXCEPT ![pc[s]] = jmp_pc[pc[s]]]
  BY PlaceOf
<1>2. ASSUME Here(s).op # "irq_wait"
      PROVE  already_set_waiting = [already_set_waiting EXCEPT ![pc[s]] = FALSE]
  <2>1. already_set_waiting[pc[s]] = FALSE
    BY <1>2, PlaceOf DEF CellMakesSense
  <2> QED  BY <2>1, PlaceOf
<1> QED  BY <1>1, <1>2

\* What every action shows with Done: its state machine goes on.
LEMMA DoneGoes ==
    ASSUME AllWellFormed, IInv, NEW s \in SMs, NEW here, NEW next, NEW j \in Nat,
           Done(s, here),
           next \in Own(program, s),
           jmp_pc' = [jmp_pc EXCEPT ![pc[s]] = j],
           already_set_waiting' = [already_set_waiting EXCEPT ![pc[s]] = FALSE],
           Here(s).op # "pc" => here = pc[s],
           Here(s).op \in Jumps => j = next,
           Here(s).op \notin Jumps => next = After(program, s, here)
    PROVE  Goes(s, next, j)
<1>1. Here(s) \in Instr /\ pc[s] \in Addrs /\ jmp_pc \in [Addrs -> Nat]
  BY PlaceOf
<1>2. jmp_pc'[pc[s]] = j /\ program' = program
  BY <1>1 DEF Done
<1>3. Here(s).op = "pc" => Here(s).delay = 0
  BY PlaceOf DEF OrderlyPc, Here
<1>4. Here(s).delay \in Nat  BY <1>1 DEF Instr
<1>5. CASE Here(s).delay = 0
  <2>1. Complete(s, here)  BY <1>4, <1>5 DEF Done
  <2>2. pc' = [pc EXCEPT ![s] = next]
    BY <2>1, <1>2 DEF Complete, Target
  <2>3. Local(s, next, FALSE, 0, j, FALSE)
    BY <2>1, <2>2, <1>2 DEF Complete, OutOfDelay, Local
  <2> QED  BY <2>3, <1>3, <1>5 DEF Goes
<1>6. CASE Here(s).delay # 0
  <2>1. Here(s).op # "pc" /\ here = pc[s]  BY <1>3, <1>6
  <2>2. Local(s, pc[s], TRUE, Here(s).delay - 1, j, FALSE)
    BY <2>1, <1>2, <1>4, <1>6 DEF Done, DelayAfter, Local
  <2> QED  BY <2>1, <2>2, <1>3, <1>6 DEF Goes
<1> QED  BY <1>5, <1>6

\* Going on keeps the invariant.
LEMMA GoesKeepsInvariant ==
    ASSUME AllWellFormed, IInv, flags' \subseteq Flags, NEW s \in SMs, NEW next, NEW j,
           Goes(s, next, j)
    PROVE  IInv'
<1>1. Here(s) \in Instr /\ pc[s] \in Own(program, s)  BY PlaceOf
<1>2. CASE Here(s).delay = 0
  <2>1. Sound(s, next, FALSE, 0, j, FALSE)  BY DEF Sound, Goes
  <2> QED  BY <2>1, <1>2, LocalKeepsInvariant DEF Goes
<1>3. CASE Here(s).delay # 0
  <2>1. Here(s).delay - 1 \in Nat  BY <1>1, <1>3 DEF Instr
  <2>2. Sound(s, pc[s], TRUE, Here(s).delay - 1, j, FALSE)
    BY <1>1, <1>3, <2>1 DEF Sound, Goes
  <2> QED  BY <2>2, <1>3, LocalKeepsInvariant DEF Goes
<1> QED  BY <1>2, <1>3

\* A JMP goes to its target, or past itself, which is no place to wrap.
LEMMA JmpGoes ==
    ASSUME AllWellFormed, IInv, NEW s \in SMs, Jmp(s)
    PROVE  \E next : /\ Goes(s, next, next)
                     /\ \/ next = Here(s).arg
                        \/ Here(s).op = "jmp_if" /\ next = After(program, s, pc[s])
<1>1. /\ Here(s).op \in Jumps /\ Done(s, pc[s])
      /\ already_set_waiting' = already_set_waiting
  BY DEF Jmp, Executes
<1>2. already_set_waiting' = [already_set_waiting EXCEPT ![pc[s]] = FALSE]
  BY <1>1, CellUnchanged DEF Jumps
<1>3. PICK next : /\ jmp_pc' = [jmp_pc EXCEPT ![pc[s]] = next]
                  /\ \/ next = Here(s).arg
                     \/ Here(s).op = "jmp_if" /\ next = pc[s] + 1
  BY DEF Jmp
<1>4. \/ next = Here(s).arg
      \/ Here(s).op = "jmp_if" /\ next = After(program, s, pc[s])
  <2>1. OrderlyPc(program, s, pc[s])  BY PlaceOf
  <2> QED  BY <2>1, <1>3 DEF OrderlyPc, After, Here
<1>5. next \in Own(program, s)
  BY <1>1, <1>4, PlaceOf DEF StaysInside, Here, Jumps
<1>6. next \in Nat
  BY <1>3, PlaceOf DEF Instr
<1>7. Goes(s, next, next)
  BY <1>1, <1>2, <1>3, <1>5, <1>6, DoneGoes DEF Jumps
<1> QED  BY <1>4, <1>7

\* A write to the pc goes to the address written.
LEMMA WritePcGoes ==
    ASSUME AllWellFormed, IInv, NEW s \in SMs, WritePc(s)
    PROVE  Goes(s, Here(s).arg, jmp_pc[pc[s]])
<1>1. /\ Here(s).op = "pc" /\ Done(s, Here(s).arg - 1)
      /\ jmp_pc' = jmp_pc /\ already_set_waiting' = already_set_waiting
  BY DEF WritePc, Executes
<1>2. /\ already_set_waiting' = [already_set_waiting EXCEPT ![pc[s]] = FALSE]
      /\ jmp_pc' = [jmp_pc EXCEPT ![pc[s]] = jmp_pc[pc[s]]]
  BY <1>1, CellUnchanged
<1>3. Here(s).arg \in Own(program, s) /\ Here(s).arg - 1 # program.wrap[s]
  BY <1>1, PlaceOf DEF StaysInside, OrderlyPc, Here
<1>4. Here(s).arg = After(program, s, Here(s).arg - 1)
  BY <1>3, PlaceOf DEF After, Instr
<1>5. jmp_pc[pc[s]] \in Nat  BY PlaceOf
<1> QED  BY <1>1, <1>2, <1>3, <1>4, <1>5, DoneGoes DEF Jumps

\* Every other instruction that is done goes on to the next address.
LEMMA OtherGoes ==
    ASSUME AllWellFormed, IInv, NEW s \in SMs,
           Here(s).op \notin Jumps \cup {"pc"},
           Done(s, pc[s]), jmp_pc' = jmp_pc,
           already_set_waiting' = [already_set_waiting EXCEPT ![pc[s]] = FALSE]
    PROVE  Goes(s, After(program, s, pc[s]), jmp_pc[pc[s]])
<1>1. jmp_pc' = [jmp_pc EXCEPT ![pc[s]] = jmp_pc[pc[s]]]
  BY CellUnchanged
<1>2. After(program, s, pc[s]) \in Own(program, s)
  BY PlaceOf DEF StaysInside, Here, Jumps
<1>3. jmp_pc[pc[s]] \in Nat  BY PlaceOf
<1> QED  BY <1>1, <1>2, <1>3, DoneGoes

\* The actions OtherGoes speaks of.
LEMMA DataWaitIrqGoes ==
    ASSUME AllWellFormed, IInv, NEW s \in SMs,
           Data(s) \/ Wait(s) \/ Irq(s) \/ IrqCleared(s)
    PROVE  Goes(s, After(program, s, pc[s]), jmp_pc[pc[s]])
<1>1. /\ Here(s).op \notin Jumps \cup {"pc"}
      /\ Done(s, pc[s]) /\ jmp_pc' = jmp_pc
  BY DEF Data, Wait, Irq, IrqCleared, Executes, Jumps
<1>2. CASE IrqCleared(s)
  BY <1>1, <1>2, OtherGoes DEF IrqCleared, NotWaiting
<1>3. CASE ~IrqCleared(s)
  <2>1. Here(s).op # "irq_wait" /\ already_set_waiting' = already_set_waiting
    BY <1>3 DEF Data, Wait, Irq, Executes
  <2> QED  BY <2>1, <1>1, CellUnchanged, OtherGoes
<1> QED  BY <1>2, <1>3

\* Raising the flag of an IRQ WAIT only marks the cell as waiting.
LEMMA IrqRaiseIsLocal ==
    ASSUME AllWellFormed, IInv, NEW s \in SMs, IrqRaise(s)
    PROVE  LET a == pc[s]
           IN /\ Local(s, a, FALSE, delay_left[a], jmp_pc[a], TRUE)
              /\ Sound(s, a, FALSE, delay_left[a], jmp_pc[a], TRUE)
<1> DEFINE a == pc[s]
<1>1. /\ pc' = pc /\ in_delay_state' = in_delay_state /\ delay_left' = delay_left
      /\ jmp_pc' = jmp_pc /\ program' = program
      /\ already_set_waiting' = [already_set_waiting EXCEPT ![a] = TRUE]
      /\ Here(s).op = "irq_wait" /\ ~in_delay_state[a]
  BY DEF IrqRaise, Executes
<1>2. in_delay_state[a] = FALSE  BY <1>1, PlaceOf
<1>3. pc = [pc EXCEPT ![s] = a]  BY DEF IInv, TypeOK
<1>4. in_delay_state = [in_delay_state EXCEPT ![a] = FALSE]  BY <1>2, PlaceOf
<1>5. delay_left = [delay_left EXCEPT ![a] = delay_left[a]]  BY PlaceOf
<1>6. jmp_pc = [jmp_pc EXCEPT ![a] = jmp_pc[a]]  BY PlaceOf
<1>7. Local(s, a, FALSE, delay_left[a], jmp_pc[a], TRUE)
  BY <1>1, <1>3, <1>4, <1>5, <1>6 DEF Local
<1>8. a \in Own(program, s) /\ delay_left[a] \in Nat /\ jmp_pc[a] \in Nat  BY PlaceOf
<1>9. Sound(s, a, FALSE, delay_left[a], jmp_pc[a], TRUE)
  BY <1>1, <1>8 DEF Sound
<1> QED  BY <1>7, <1>9

\* Where s goes when its delay ends, if j is the jmp_pc of its instruction.
DelayGoal(s, j) == IF Here(s).op \in Jumps THEN j ELSE After(program, s, pc[s])
DelayEnd(s) == DelayGoal(s, jmp_pc[pc[s]])

\* A turn in the delay counts it down, or ends it and moves.
LEMMA DelayTurnIsLocal ==
    ASSUME AllWellFormed, IInv, NEW s \in SMs, DelayTurn(s)
    PROVE  LET a == pc[s]
           IN IF delay_left[a] > 0
              THEN /\ Local(s, a, TRUE, delay_left[a] - 1, jmp_pc[a], FALSE)
                   /\ Sound(s, a, TRUE, delay_left[a] - 1, jmp_pc[a], FALSE)
              ELSE /\ Local(s, DelayEnd(s), FALSE, 0, jmp_pc[a], FALSE)
                   /\ Sound(s, DelayEnd(s), FALSE, 0, jmp_pc[a], FALSE)
<1> DEFINE a == pc[s]
<1>1. /\ in_delay_state[a] /\ program' = program
      /\ already_set_waiting' = already_set_waiting
      /\ jmp_pc' = jmp_pc
  BY DEF DelayTurn
<1>3. already_set_waiting[a] = FALSE
  BY <1>1, PlaceOf DEF CellMakesSense
<1>4. already_set_waiting = [already_set_waiting EXCEPT ![a] = FALSE]
  BY <1>3, PlaceOf
<1>5. jmp_pc = [jmp_pc EXCEPT ![a] = jmp_pc[a]]  BY PlaceOf
<1>6. a \in Own(program, s) /\ delay_left[a] \in Nat /\ jmp_pc[a] \in Nat  BY PlaceOf
<1>7. /\ Here(s).op # "pc"
      /\ Here(s).op \in Jumps => jmp_pc[a] \in Own(program, s)
  BY <1>1, PlaceOf DEF CellMakesSense
<1>8. CASE delay_left[a] > 0
  <2>1. /\ delay_left' = [delay_left EXCEPT ![a] = delay_left[a] - 1]
        /\ pc' = pc /\ in_delay_state' = in_delay_state
    BY <1>8 DEF DelayTurn, StillDelayed
  <2>2. pc = [pc EXCEPT ![s] = a]  BY DEF IInv, TypeOK
  <2>3. in_delay_state[a] = TRUE  BY <1>1, PlaceOf
  <2>4. in_delay_state = [in_delay_state EXCEPT ![a] = TRUE]  BY <2>3, PlaceOf
  <2>5. Local(s, a, TRUE, delay_left[a] - 1, jmp_pc[a], FALSE)
    BY <1>1, <1>4, <1>5, <2>1, <2>2, <2>4 DEF Local
  <2>6. Sound(s, a, TRUE, delay_left[a] - 1, jmp_pc[a], FALSE)
    BY <1>6, <1>7, <1>8 DEF Sound
  <2> QED  BY <1>8, <2>5, <2>6
<1>9. CASE ~(delay_left[a] > 0)
  <2>1. Complete(s, a)  BY <1>9 DEF DelayTurn, StillDelayed
  <2>2. jmp_pc'[a] = jmp_pc[a]  BY <1>1
  <2>3. pc' = [pc EXCEPT ![s] = DelayEnd(s)]  BY <2>1, <2>2 DEF Complete, Target, DelayEnd, DelayGoal
  <2>4. Local(s, DelayEnd(s), FALSE, 0, jmp_pc[a], FALSE)
    BY <1>1, <1>4, <1>5, <2>1, <2>3 DEF Local, Complete, OutOfDelay
  <2>5. DelayEnd(s) \in Own(program, s)
    BY <1>7, PlaceOf DEF DelayEnd, DelayGoal, StaysInside, Here, Jumps
  <2>6. Sound(s, DelayEnd(s), FALSE, 0, jmp_pc[a], FALSE)
    BY <1>6, <2>5 DEF Sound
  <2> QED  BY <1>9, <2>4, <2>6
<1> QED  BY <1>8, <1>9

-----------------------------------------------------------------------------
(* The invariant *)

\* The invariant holds at first ...
LEMMA InitInvariant == AllWellFormed /\ Init => IInv
<1> SUFFICES ASSUME AllWellFormed, Init PROVE IInv  OBVIOUS
<1>1. program \in Programs /\ program \in Program  BY ProgramAssumption DEF Init
<1>2. \A s \in SMs : pc[s] \in Addrs /\ pc[s] \in Own(program, s)
  <2> SUFFICES ASSUME NEW s \in SMs PROVE pc[s] \in Addrs /\ pc[s] \in Own(program, s)
    OBVIOUS
  <2>1. pc[s] = program.first[s] /\ program.first[s] \in Addrs /\ program.last[s] \in Addrs
    BY <1>1 DEF Init, Program
  <2>2. program.first[s] <= program.last[s]  BY <1>1 DEF AllWellFormed, WellFormed
  <2> QED  BY <2>1, <2>2, ProgramAssumption DEF Own, Addrs
<1>3. pc \in [SMs -> Int]
  <2>1. pc \in [SMs -> Addrs]  BY <1>1 DEF Init, Program
  <2> QED  BY <2>1, ProgramAssumption DEF Addrs
<1>4. TypeOK  BY <1>1, <1>3 DEF Init, TypeOK
<1>5. \A a \in Addrs : ~in_delay_state[a] /\ ~already_set_waiting[a]  BY DEF Init
<1> QED  BY <1>1, <1>2, <1>4, <1>5
         DEF IInv, StaysInOwnProgram, MarksAreCurrent, CellMakesSense

\* The flags that exist stay those that can be set.
LEMMA FlagsStay ==
    ASSUME flags \subseteq Flags, NEW s \in SMs, Turn(s)
    PROVE  flags' \subseteq Flags
BY DEF Turn, Jmp, WritePc, Data, Wait, Irq, IrqRaise, IrqCleared, DelayTurn, Raise

\* ... every turn keeps it ...
LEMMA TurnKeepsInvariant ==
    ASSUME AllWellFormed, IInv, NEW s \in SMs, Turn(s)
    PROVE  IInv'
<1>1. flags' \subseteq Flags  BY FlagsStay DEF IInv, TypeOK
<1>2. CASE Jmp(s)  BY <1>1, <1>2, JmpGoes, GoesKeepsInvariant
<1>3. CASE WritePc(s)  BY <1>1, <1>3, WritePcGoes, GoesKeepsInvariant
<1>4. CASE Data(s) \/ Wait(s) \/ Irq(s) \/ IrqCleared(s)
  BY <1>1, <1>4, DataWaitIrqGoes, GoesKeepsInvariant
<1>5. CASE IrqRaise(s)  BY <1>1, <1>5, IrqRaiseIsLocal, LocalKeepsInvariant
<1>6. CASE DelayTurn(s)
  <2>1. CASE delay_left[pc[s]] > 0
    BY <1>1, <1>6, <2>1, DelayTurnIsLocal, LocalKeepsInvariant
  <2>2. CASE ~(delay_left[pc[s]] > 0)
    BY <1>1, <1>6, <2>2, DelayTurnIsLocal, LocalKeepsInvariant
  <2> QED  BY <2>1, <2>2
<1> QED  BY <1>2, <1>3, <1>4, <1>5, <1>6 DEF Turn

\* ... and so does every step.
LEMMA StepKeepsInvariant == AllWellFormed /\ IInv /\ [Next]_vars => IInv'
<1> SUFFICES ASSUME AllWellFormed, IInv, [Next]_vars PROVE IInv'  OBVIOUS
<1>1. CASE Next  BY <1>1, TurnKeepsInvariant DEF Next
<1>2. CASE UNCHANGED vars
  BY <1>2 DEF vars, cells, IInv, TypeOK, StaysInOwnProgram, MarksAreCurrent,
              CellMakesSense, Here, Own
<1> QED  BY <1>1, <1>2

\* With well-formed programs the invariant always holds.
LEMMA InvariantHolds == AllWellFormed => (Spec => []IInv)
<1> SUFFICES ASSUME AllWellFormed PROVE Spec => []IInv  OBVIOUS
<1>1. Init => IInv  BY InitInvariant
<1>2. IInv /\ [Next]_vars => IInv'  BY StepKeepsInvariant
<1> QED  BY <1>1, <1>2, PTL DEF Spec

\* Types are kept (the fields of sm_t and instruction_t that the turns write).
THEOREM TypeCorrect == AllWellFormed => (Spec => []TypeOK)
<1>1. IInv => TypeOK  BY DEF IInv
<1> QED  BY <1>1, InvariantHolds, PTL

\* With well-formed programs no state machine ever leaves its own program,
\* although nothing in exec_run_instruction checks the pc.
THEOREM NeverLeavesProgram == AllWellFormed => (Spec => []StaysInOwnProgram)
<1>1. IInv => StaysInOwnProgram  BY DEF IInv
<1> QED  BY <1>1, InvariantHolds, PTL

\* No delay or waiting mark is left behind in the instruction memory.
THEOREM NoStaleMarks == AllWellFormed => (Spec => []MarksAreCurrent)
<1>1. IInv => MarksAreCurrent  BY DEF IInv
<1> QED  BY <1>1, InvariantHolds, PTL

-----------------------------------------------------------------------------
(* The refinement *)

\* A turn changes what its own state machine's cell says, and nobody else's.
LEMMA LocalMaps ==
    ASSUME AllWellFormed, IInv, NEW s \in SMs,
           NEW n, NEW d, NEW k, NEW j, NEW w,
           Local(s, n, d, k, j, w), Sound(s, n, d, k, j, w)
    PROVE  /\ \A t \in SMs : t # s => /\ Left'[t] = Left[t] /\ Goal'[t] = Goal[t]
                                     /\ Armed'[t] = Armed[t]
           /\ d => Left'[s] = k /\ Goal'[s] = DelayGoal(s, j)
           /\ ~d => Left'[s] = -1 /\ Goal'[s] = -1
           /\ w => Armed'[s] = TRUE
           /\ ~w => Armed'[s] = FALSE
<1> DEFINE a == pc[s]
<1>1. /\ program \in Programs /\ program' = program /\ pc \in [SMs -> Int]
      /\ \A t \in SMs : pc[t] \in Own(program, t)
  BY DEF IInv, TypeOK, StaysInOwnProgram, Local
<1>2. \A t \in SMs : pc[t] \in Addrs /\ Own(program, t) \subseteq Addrs
  BY <1>1, OwnIsLoaded
<1>3. \A t \in SMs : pc'[t] = IF t = s THEN n ELSE pc[t]
  BY <1>1 DEF Local
<1>4. \A b \in Addrs :
         /\ in_delay_state'[b] = IF b = a THEN d ELSE in_delay_state[b]
         /\ already_set_waiting'[b] = IF b = a THEN w ELSE already_set_waiting[b]
         /\ jmp_pc'[b] = IF b = a THEN j ELSE jmp_pc[b]
         /\ delay_left'[b] = IF b = a THEN k ELSE delay_left[b]
  BY <1>2 DEF IInv, TypeOK, Local
<1>5. \A t \in SMs : t # s => pc[t] # a
  BY <1>1, PlacesDiffer
<1>6. n \in Addrs /\ n \in Own(program, s)  BY <1>2 DEF Sound
<1>7. n # a => ~in_delay_state'[n] /\ ~already_set_waiting'[n] /\ ~d /\ ~w
  <2> SUFFICES ASSUME n # a PROVE ~in_delay_state[n] /\ ~already_set_waiting[n]
    BY <1>4, <1>6 DEF Sound
  <2> SUFFICES ASSUME NEW u \in SMs, pc[u] = n PROVE FALSE
    BY <1>6 DEF IInv, MarksAreCurrent
  <2>1. u # s  OBVIOUS
  <2> QED  BY <2>1, <1>1, <1>6, PlacesDiffer
<1>8. \A t \in SMs : t # s =>
         /\ DelayedAt(t)' = DelayedAt(t)
         /\ pc'[t] = pc[t]
         /\ jmp_pc'[pc'[t]] = jmp_pc[pc[t]] /\ delay_left'[pc'[t]] = delay_left[pc[t]]
         /\ already_set_waiting'[pc'[t]] = already_set_waiting[pc[t]]
         /\ Here(t)' = Here(t)
  BY <1>1, <1>2, <1>3, <1>4, <1>5 DEF DelayedAt, Here
<1>9. /\ DelayedAt(s)' <=> d
      /\ d => n = a /\ delay_left'[pc'[s]] = k /\ jmp_pc'[pc'[s]] = j
              /\ pc'[s] = pc[s] /\ Here(s)' = Here(s)
  <2>1. DelayedAt(s)' <=> in_delay_state'[n]  BY <1>3, <1>6 DEF DelayedAt
  <2>2. CASE n = a  BY <2>1, <2>2, <1>1, <1>3, <1>4, <1>6 DEF Here
  <2>3. CASE n # a  BY <2>1, <2>3, <1>7
  <2> QED  BY <2>2, <2>3
<1>10. \A t \in SMs : t # s => Left'[t] = Left[t] /\ Goal'[t] = Goal[t]
  BY <1>1, <1>8 DEF Left, Goal
<1>11. /\ d => Left'[s] = k /\ Goal'[s] = DelayGoal(s, j)
       /\ ~d => Left'[s] = -1 /\ Goal'[s] = -1
  BY <1>1, <1>9 DEF Left, Goal, DelayGoal
<1>12. \A t \in SMs : t # s => Armed'[t] = Armed[t]
  BY <1>2, <1>3, <1>8 DEF Armed
<1>13. Armed'[s] = w
  <2>1. Armed'[s] = (n \in Addrs /\ already_set_waiting'[n])  BY <1>3 DEF Armed
  <2>2. already_set_waiting'[n] <=> w
    <3>1. CASE n = a  BY <3>1, <1>4, <1>6
    <3>2. CASE n # a  BY <3>2, <1>7
    <3> QED  BY <3>1, <3>2
  <2>3. w \in BOOLEAN  BY DEF Sound
  <2>4. (n \in Addrs /\ already_set_waiting'[n]) <=> w  BY <1>6, <2>2
  <2> QED  BY <2>1, <2>3, <2>4, Zenon
<1>14. ASSUME w PROVE Armed'[s] = TRUE  BY <1>13, <1>14 DEF Armed
<1>15. ASSUME ~w PROVE Armed'[s] = FALSE  BY <1>13, <1>15 DEF Armed
<1> QED  BY <1>10, <1>11, <1>12, <1>14, <1>15

\* The instance of PioProgram that comes with the abstract machines is the same.
LEMMA SameProgram ==
    /\ Machines!Addrs = Addrs /\ Machines!SMs = SMs /\ Machines!Flags = Flags
    /\ Machines!Jumps = Jumps /\ Machines!Program = Program
    /\ \A p, s, a : Machines!After(p, s, a) = After(p, s, a)
    /\ \A i, s : Machines!FlagOf(i, s) = FlagOf(i, s)
    /\ \A set, f : Machines!Raise(set, f) = Raise(set, f)
BY DEF Addrs, Machines!Addrs, SMs, Machines!SMs, Flags, Machines!Flags, Jumps, Machines!Jumps,
       Program, Machines!Program, Instr, Machines!Instr, Ops, Machines!Ops,
       After, Machines!After, FlagOf, Machines!FlagOf, Raise, Machines!Raise

\* Where nothing is in a delay, the abstract state machine is outside one.
LEMMA BeginsMaps ==
    ASSUME AllWellFormed, IInv, NEW s \in SMs, NEW ops, Executes(s, ops)
    PROVE  Machines!Begins(s, ops) /\ Machines!Here(s) = Here(s)
<1>1. Left[s] = -1  BY DEF Left, DelayedAt, Executes
<1> QED  BY <1>1, SameProgram DEF Executes, Machines!Begins, Machines!Here, Here

\* The case of a turn that begins or continues a delay.
LEMMA DelayBeginMaps ==
    ASSUME AllWellFormed, IInv, NEW s \in SMs, NEW k, NEW j,
           Local(s, pc[s], TRUE, k, j, FALSE), Sound(s, pc[s], TRUE, k, j, FALSE)
    PROVE  /\ \A t \in SMs : t # s => /\ Left'[t] = Left[t] /\ Goal'[t] = Goal[t]
                                     /\ Armed'[t] = Armed[t]
           /\ Left'[s] = k /\ Goal'[s] = DelayGoal(s, j) /\ Armed'[s] = FALSE
BY LocalMaps

\* Work that is done maps to going on, and leaves the state machine unarmed.
LEMMA GoesMaps ==
    ASSUME AllWellFormed, IInv, NEW s \in SMs, NEW next, NEW j, Goes(s, next, j),
           ~in_delay_state[pc[s]]
    PROVE  /\ Machines!GoesOn(s, next)
           /\ Armed' = [Armed EXCEPT ![s] = FALSE]
<1>1. Here(s) \in Instr /\ pc[s] \in Own(program, s) /\ Machines!Here(s) = Here(s)
  BY PlaceOf DEF Machines!Here, Here
<1>2. Here(s).delay \in Nat /\ Left \in [SMs -> Int] /\ Left[s] = -1 /\ Goal[s] = -1
  <2>1. Left \in [SMs -> Int]
    <3> SUFFICES ASSUME NEW t \in SMs PROVE (IF DelayedAt(t) THEN delay_left[pc[t]] ELSE -1) \in Int
      BY DEF Left
    <3>1. delay_left[pc[t]] \in Nat  BY PlaceOf
    <3> QED  BY <3>1
  <2> QED  BY <2>1, <1>1 DEF Instr, Left, Goal, DelayedAt
<1>3. CASE Here(s).delay = 0
  <2>1. Local(s, next, FALSE, 0, j, FALSE)  BY <1>3 DEF Goes
  <2>2. Sound(s, next, FALSE, 0, j, FALSE)  BY DEF Sound, Goes
  <2>3. /\ \A t \in SMs : t # s => /\ Left'[t] = Left[t] /\ Goal'[t] = Goal[t]
                                  /\ Armed'[t] = Armed[t]
        /\ Left'[s] = -1 /\ Goal'[s] = -1 /\ Armed'[s] = FALSE
    BY <2>1, <2>2, LocalMaps
  <2>4. Left' = Left /\ Goal' = Goal
    BY <2>3, <1>2 DEF Left, Goal
  <2>5. Armed' = [Armed EXCEPT ![s] = FALSE]  BY <2>3 DEF Armed
  <2> QED  BY <2>1, <2>4, <2>5, <1>1, <1>3 DEF Machines!GoesOn, Local
<1>4. CASE Here(s).delay # 0
  <2> DEFINE k == Here(s).delay - 1
  <2>1. Local(s, pc[s], TRUE, k, j, FALSE)  BY <1>4 DEF Goes
  <2>2. k \in Nat  BY <1>2, <1>4
  <2> HIDE DEF k
  <2>3. Sound(s, pc[s], TRUE, k, j, FALSE)
    BY <1>1, <1>4, <2>2 DEF Sound, Goes
  <2>4. /\ \A t \in SMs : t # s => /\ Left'[t] = Left[t] /\ Goal'[t] = Goal[t]
                                  /\ Armed'[t] = Armed[t]
        /\ Left'[s] = k /\ Goal'[s] = DelayGoal(s, j) /\ Armed'[s] = FALSE
    BY <2>1, <2>3, DelayBeginMaps
  <2>5. DelayGoal(s, j) = next  BY <1>4 DEF Goes, DelayGoal
  <2>8. Left' = [Left EXCEPT ![s] = k]  BY <2>4 DEF Left
  <2>9. Goal' = [Goal EXCEPT ![s] = next]  BY <2>4, <2>5 DEF Goal
  <2>6. Armed' = [Armed EXCEPT ![s] = FALSE]  BY <2>4 DEF Armed
  <2>7. pc' = pc  BY <2>1 DEF Local, IInv, TypeOK
  <2> QED  BY <2>1, <2>6, <2>7, <2>8, <2>9, <1>1, <1>4 DEF k, Machines!GoesOn, Local
<1> QED  BY <1>3, <1>4

\* Outside an IRQ WAIT a state machine is not armed anyway.
LEMMA ArmedUnchanged ==
    ASSUME AllWellFormed, IInv, NEW s \in SMs, Here(s).op # "irq_wait",
           Armed' = [Armed EXCEPT ![s] = FALSE]
    PROVE  Armed' = Armed
<1>1. Armed[s] = FALSE  BY PlaceOf DEF Armed, CellMakesSense
<1> QED  BY <1>1 DEF Armed

\* Every turn is a step of the abstract machines.
LEMMA TurnMaps ==
    ASSUME AllWellFormed, IInv, NEW s \in SMs, Turn(s)
    PROVE  Machines!MNext
<1>1. CASE Jmp(s)
  <2>1. /\ Executes(s, Jumps) /\ flags' = flags /\ ~in_delay_state[pc[s]]
    BY <1>1 DEF Jmp, Executes
  <2>2. PICK next : /\ Goes(s, next, next)
                    /\ \/ next = Here(s).arg
                       \/ Here(s).op = "jmp_if" /\ next = After(program, s, pc[s])
    BY <1>1, JmpGoes
  <2>3. Machines!GoesOn(s, next) /\ Armed' = Armed
    BY <2>1, <2>2, GoesMaps, ArmedUnchanged DEF Executes, Jumps
  <2>4. Machines!Begins(s, Jumps \cup {"pc"}) /\ Machines!Here(s) = Here(s)
    BY <2>1, BeginsMaps, SameProgram DEF Machines!Begins
  <2>5. Machines!Jump(s)
    BY <2>1, <2>2, <2>3, <2>4, SameProgram DEF Machines!Jump, Machines!Following
  <2> QED  BY <2>5, SameProgram DEF Machines!MNext
<1>2. CASE WritePc(s)
  <2>1. /\ Executes(s, {"pc"}) /\ flags' = flags /\ ~in_delay_state[pc[s]]
        /\ Here(s).op # "irq_wait"
    BY <1>2 DEF WritePc, Executes
  <2>2. Machines!GoesOn(s, Here(s).arg) /\ Armed' = Armed
    BY <1>2, <2>1, WritePcGoes, GoesMaps, ArmedUnchanged
  <2>3. Machines!Begins(s, Jumps \cup {"pc"}) /\ Machines!Here(s) = Here(s)
    BY <2>1, BeginsMaps, SameProgram DEF Machines!Begins
  <2>4. Machines!Jump(s)  BY <2>1, <2>2, <2>3, SameProgram DEF Machines!Jump
  <2> QED  BY <2>4, SameProgram DEF Machines!MNext
<1>3. CASE Data(s) \/ Wait(s) \/ Irq(s) \/ IrqCleared(s)
  <2>1. Machines!GoesOn(s, Machines!Following(s)) /\ Armed' = [Armed EXCEPT ![s] = FALSE]
    <3>1. ~in_delay_state[pc[s]]
      BY <1>3 DEF Data, Wait, Irq, IrqCleared, Executes
    <3>2. Goes(s, After(program, s, pc[s]), jmp_pc[pc[s]])
      BY <1>3, DataWaitIrqGoes
    <3>3. Machines!Following(s) = After(program, s, pc[s])
      BY SameProgram DEF Machines!Following
    <3> QED  BY <3>1, <3>2, <3>3, GoesMaps
  <2>2. CASE Data(s)
    <3>1. Executes(s, {"data"}) /\ flags' = flags /\ Here(s).op # "irq_wait"
      BY <2>2 DEF Data, Executes
    <3>2. Machines!Data(s)
      BY <2>1, <3>1, BeginsMaps, ArmedUnchanged, SameProgram DEF Machines!Data
    <3> QED  BY <3>2, SameProgram DEF Machines!MNext
  <2>3. CASE Wait(s)
    <3>1. /\ \/ Executes(s, {"wait_high"}) /\ Here(s).arg \in flags
             \/ Executes(s, {"wait_low"}) /\ Here(s).arg \notin flags
          /\ flags' = flags /\ Here(s).op # "irq_wait"
      BY <2>3 DEF Wait, Executes
    <3>2. Machines!Wait(s)
      BY <2>1, <3>1, BeginsMaps, ArmedUnchanged, SameProgram DEF Machines!Wait
    <3> QED  BY <3>2, SameProgram DEF Machines!MNext
  <2>4. CASE Irq(s)
    <3>1. /\ \/ Executes(s, {"irq_set"}) /\ flags' = Raise(flags, FlagOf(Here(s), s))
             \/ Executes(s, {"irq_clear"}) /\ flags' = flags \ {FlagOf(Here(s), s)}
          /\ Here(s).op # "irq_wait"
      BY <2>4 DEF Irq, Executes
    <3>2. Machines!Irq(s)
      BY <2>1, <3>1, BeginsMaps, ArmedUnchanged, SameProgram DEF Machines!Irq
    <3> QED  BY <3>2, SameProgram DEF Machines!MNext
  <2>5. CASE IrqCleared(s)
    <3>1. /\ Executes(s, {"irq_wait"}) /\ already_set_waiting[pc[s]]
          /\ FlagOf(Here(s), s) \notin flags /\ flags' = flags
      BY <2>5 DEF IrqCleared
    <3>2. Armed[s]  BY <3>1 DEF Armed, Executes
    <3>3. Machines!Release(s)
      BY <2>1, <3>1, <3>2, BeginsMaps, SameProgram DEF Machines!Release
    <3> QED  BY <3>3, SameProgram DEF Machines!MNext
  <2> QED  BY <1>3, <2>2, <2>3, <2>4, <2>5
<1>4. CASE IrqRaise(s)
  <2>1. /\ Executes(s, {"irq_wait"}) /\ ~already_set_waiting[pc[s]]
        /\ ~in_delay_state[pc[s]]
        /\ flags' = Raise(flags, FlagOf(Here(s), s))
        /\ program' = program /\ pc' = pc
    BY <1>4 DEF IrqRaise, Executes
  <2>2. ~Armed[s]  BY <2>1 DEF Armed
  <2>3. Left[s] = -1 /\ Goal[s] = -1  BY <2>1 DEF Left, Goal, DelayedAt
  <2>4. /\ \A t \in SMs : t # s => /\ Left'[t] = Left[t] /\ Goal'[t] = Goal[t]
                                  /\ Armed'[t] = Armed[t]
        /\ Left'[s] = -1 /\ Goal'[s] = -1 /\ Armed'[s] = TRUE
    BY <1>4, IrqRaiseIsLocal, LocalMaps
  <2>5. Left' = Left /\ Goal' = Goal  BY <2>3, <2>4 DEF Left, Goal
  <2>6. Armed' = [Armed EXCEPT ![s] = TRUE]  BY <2>4 DEF Armed
  <2>7. Machines!Arm(s)
    BY <2>1, <2>2, <2>5, <2>6, BeginsMaps, SameProgram DEF Machines!Arm
  <2> QED  BY <2>7, SameProgram DEF Machines!MNext
<1>5. CASE DelayTurn(s)
  <2>1. /\ pc[s] \in Addrs /\ in_delay_state[pc[s]]
        /\ flags' = flags /\ program' = program
    BY <1>5 DEF DelayTurn
  <2>2. /\ Left[s] = delay_left[pc[s]] /\ Goal[s] = DelayEnd(s)
        /\ delay_left[pc[s]] \in Nat
    BY <2>1, PlaceOf DEF Left, Goal, DelayedAt, DelayEnd, DelayGoal
  <2>4. Armed[s] = FALSE
    BY <2>1, PlaceOf DEF CellMakesSense, Armed
  <2>5. CASE delay_left[pc[s]] > 0
    <3> DEFINE k == delay_left[pc[s]] - 1
               j == jmp_pc[pc[s]]
    <3>1. Local(s, pc[s], TRUE, k, j, FALSE) /\ Sound(s, pc[s], TRUE, k, j, FALSE)
      BY <1>5, <2>5, DelayTurnIsLocal
    <3> HIDE DEF k, j
    <3>2. /\ \A t \in SMs : t # s => /\ Left'[t] = Left[t] /\ Goal'[t] = Goal[t]
                                    /\ Armed'[t] = Armed[t]
          /\ Left'[s] = k /\ Goal'[s] = DelayGoal(s, j) /\ Armed'[s] = FALSE
      BY <3>1, LocalMaps
    <3>3. Armed' = Armed  BY <3>2, <2>4 DEF Armed
    <3>4. Goal' = Goal  BY <3>2, <2>2 DEF Goal, DelayEnd, j
    <3>5. Left' = [Left EXCEPT ![s] = k]  BY <3>2 DEF Left
    <3>6. Left' = [Left EXCEPT ![s] = Left[s] - 1]  BY <3>5, <2>2 DEF k
    <3>7. pc' = pc  BY <3>1 DEF Local, IInv, TypeOK
    <3>8. Machines!Delay(s)
      BY <2>1, <2>2, <2>5, <3>3, <3>4, <3>6, <3>7 DEF Machines!Delay
    <3> QED  BY <3>8, SameProgram DEF Machines!MNext
  <2>6. CASE ~(delay_left[pc[s]] > 0)
    <3> DEFINE j == jmp_pc[pc[s]]
               n == DelayEnd(s)
    <3>1. Local(s, n, FALSE, 0, j, FALSE) /\ Sound(s, n, FALSE, 0, j, FALSE)
      BY <1>5, <2>6, DelayTurnIsLocal
    <3> HIDE DEF j, n
    <3>2. /\ \A t \in SMs : t # s => /\ Left'[t] = Left[t] /\ Goal'[t] = Goal[t]
                                    /\ Armed'[t] = Armed[t]
          /\ Left'[s] = -1 /\ Goal'[s] = -1 /\ Armed'[s] = FALSE
      BY <3>1, LocalMaps
    <3>3. Armed' = Armed  BY <3>2, <2>4 DEF Armed
    <3>4. Left' = [Left EXCEPT ![s] = -1] /\ Goal' = [Goal EXCEPT ![s] = -1]
      BY <3>2 DEF Left, Goal
    <3>5. pc' = [pc EXCEPT ![s] = Goal[s]]  BY <3>1, <2>2 DEF Local, n
    <3>6. Machines!Delay(s)
      BY <2>1, <2>2, <2>6, <3>3, <3>4, <3>5 DEF Machines!Delay
    <3> QED  BY <3>6, SameProgram DEF Machines!MNext
  <2> QED  BY <2>5, <2>6
<1> QED  BY <1>1, <1>2, <1>3, <1>4, <1>5 DEF Turn

\* The code, which keeps delays, jump targets and waiting marks in the shared
\* instruction memory, implements state machines that share only the flags.
THEOREM CellsImplementMachines == AllWellFormed => (Spec => ImplementsMachines)
<1> SUFFICES ASSUME AllWellFormed PROVE Spec => ImplementsMachines  OBVIOUS
<1>1. Init => Machines!MInit
  <2> SUFFICES ASSUME Init PROVE Machines!MInit  OBVIOUS
  <2>1. IInv  BY InitInvariant
  <2>2. \A s \in SMs : pc[s] \in Addrs  BY <2>1, PlaceOf
  <2>3. /\ Left = [s \in SMs |-> -1] /\ Goal = [s \in SMs |-> -1]
        /\ Armed = [s \in SMs |-> FALSE]
    BY <2>2 DEF Init, Left, Goal, Armed, DelayedAt
  <2> QED  BY <2>3, ProgramAssumption, SameProgram DEF Init, Machines!MInit
<1>2. IInv /\ [Next]_vars => [Machines!MNext]_(Machines!mvars)
  <2> SUFFICES ASSUME IInv, [Next]_vars PROVE [Machines!MNext]_(Machines!mvars)
    OBVIOUS
  <2>1. CASE Next  BY <2>1, TurnMaps DEF Next
  <2>2. CASE UNCHANGED vars
    BY <2>2 DEF vars, cells, Machines!mvars, Left, Goal, Armed, DelayedAt, Here
  <2> QED  BY <2>1, <2>2
<1>3. Spec => []IInv  BY InvariantHolds
<1> QED  BY <1>1, <1>2, <1>3, PTL DEF Spec, ImplementsMachines, Machines!MSpec
=============================================================================
