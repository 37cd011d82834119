------------------------------ MODULE MCDataPath ------------------------------
(***************************************************************************)
(* DataPath on words of four bits and four pins: one setup for each group  *)
(* of instructions, in both shift directions.                              *)
(***************************************************************************)
EXTENDS DataPath

\* An instruction as the parser leaves it.
Parsed == [NewExec EXCEPT !.side = -1, !.source = "unset", !.destination = "unset",
                          !.operation = "unset", !.condition = "unset", !.wait_source = "unset"]

InI(source, n) == [Parsed EXCEPT !.type = "in", !.source = source, !.bit_count = n]
OutI(dest, n) == [Parsed EXCEPT !.type = "out", !.destination = dest, !.bit_count = n]
MovI(dest, op, source) == [Parsed EXCEPT !.type = "mov", !.destination = dest, !.operation = op,
                                         !.source = source]
SetI(dest, v) == [Parsed EXCEPT !.type = "set", !.destination = dest, !.index_or_value = v]
JmpI(condition) == [Parsed EXCEPT !.type = "jmp", !.condition = condition]
WaitI(polarity, source, n) == [Parsed EXCEPT !.type = "wait", !.polarity = polarity,
                                             !.wait_source = source, !.index_or_value = n]
PushI(if_full, block) == [Parsed EXCEPT !.type = "push", !.if_full = if_full, !.block = block]
PullI(if_empty, block) == [Parsed EXCEPT !.type = "pull", !.if_empty = if_empty, !.block = block]
IrqI(op, n, relative) == [Parsed EXCEPT !.type = "irq", !.operation = op, !.index_or_value = n,
                                        !.is_relative = relative]
Side(i, v) == [i EXCEPT !.side = v]
Delay(i, n) == [i EXCEPT !.delay = n]

Plain == [in_base |-> 0, out_base |-> 0, out_num |-> 0, set_base |-> 0, set_num |-> 0,
          side_base |-> 0, side_num |-> 0, side_optional |-> TRUE, side_pindirs |-> FALSE,
          in_right |-> FALSE, out_right |-> FALSE, autopush |-> FALSE, autopull |-> FALSE, jmp_pin |-> -1, words |-> {0},
          rows |-> <<>>, cols |-> <<>>, user_pins |-> {}, exec_bits |-> 2,
          program |-> {}, execs |-> {}]

Ins == {SetI("x", 10), SetI("y", 13), PushI(1, 1), PushI(0, 0), InI("x", 1), InI("y", 3),
        InI("null", 2), InI("isr", 1), InI("x", 4)}
Outs == {PullI(1, 1), PullI(0, 0), OutI("x", 1), OutI("y", 3), OutI("null", 2), OutI("isr", 2),
         OutI("x", 4), InI("osr", 2)}
PinOuts == {PullI(0, 1), OutI("pins", 2), OutI("pindirs", 3), OutI("x", 3), MovI("pins", "invert", "x"),
            SetI("pins", 2)}
PinIns == {InI("pins", 2), InI("pins", 3), PushI(0, 1), JmpI("pin"), WaitI(1, "gpio", 3),
           WaitI(0, "pin", 3)}
PinMovs == {MovI("x", "no_operation", "pins"), MovI("y", "bit_reverse", "pins")}
Counts == {SetI("x", 2), MovI("y", "invert", "x"), MovI("x", "bit_reverse", "y"), JmpI("x_zero"),
           JmpI("y_zero"), JmpI("x_decrement"), JmpI("y_decrement"), JmpI("x_not_equal_y"),
           JmpI("not_osre"), MovI("osr", "invert", "null"), MovI("isr", "no_operation", "osr")}
Flags == {MovI("x", "no_operation", "status"), MovI("isr", "bit_reverse", "status"), SetI("y", 3), InI("y", 2),
          WaitI(1, "irq", 3), IrqI("wait", 1, 0), IrqI("clear", 1, 1)}
Sides == {Side(SetI("pins", 5), 2), Side(SetI("pins", 10), -1), Side(JmpI("always"), 1)}
Keys == {SetI("pins", v) : v \in {0, 1, 2}} \cup {InI("pins", 2), PushI(0, 1)}

\* Executed instructions: an OUT before and after one that reads the pins, a count of
\* 32, every operation of MOV and of IRQ, and instructions of each other kind.
ExecIn == {Delay(InI("x", 1), 9), InI("pins", 2), MovI("isr", "no_operation", "osr"),
           MovI("pins", "no_operation", "x")}
ExecOut == {InI("pins", 2), OutI("x", 3), OutI("pins", 1), OutI("pins", 3)}
ExecWhole == {InI("y", 32), OutI("y", 32), OutI("isr", 2), MovI("y", "invert", "pins"),
              MovI("x", "bit_reverse", "osr"), MovI("osr", "no_operation", "status")}
ExecIndex == {WaitI(1, "gpio", 1), WaitI(0, "pin", 3), WaitI(1, "irq", 2), IrqI("wait", 1, 0),
              IrqI("clear", 2, 1), IrqI("nowait", 3, 0), Delay(SetI("y", 5), 31), SetI("pins", 2)}
ExecFifo == {PushI(1, 0), PushI(0, 1), PullI(1, 0), PullI(0, 1)}
ExecJmp == {JmpI("x_decrement"), JmpI("not_osre"), MovI("pins", "no_operation", "x")}

MCSetups ==
    {[Plain EXCEPT !.in_right = right, !.autopush = auto, !.program = Ins] :
        right \in BOOLEAN, auto \in BOOLEAN}
    \cup {[Plain EXCEPT !.out_right = right, !.autopull = auto, !.words = {6, 13}, !.program = Outs] :
              right \in BOOLEAN, auto \in BOOLEAN}
    \cup {[Plain EXCEPT !.out_right = right, !.words = {6, 11}, !.out_base = 3, !.out_num = 2,
                        !.set_base = 1, !.set_num = 2, !.program = PinOuts] : right \in BOOLEAN}
    \cup {[Plain EXCEPT !.in_base = 3, !.user_pins = Idx, !.jmp_pin = 2, !.program = PinIns],
          [Plain EXCEPT !.in_base = 1, !.user_pins = Idx, !.program = PinMovs],
          [Plain EXCEPT !.program = Counts], [Plain EXCEPT !.program = Flags],
          [Plain EXCEPT !.program = {SetI("pindirs", 1), SetI("pindirs", 0)}]}
    \cup {[Plain EXCEPT !.set_num = 4, !.side_base = 1, !.side_num = 2, !.side_optional = optional,
                        !.side_pindirs = pindirs, !.program = Sides] :
              optional \in BOOLEAN, pindirs \in BOOLEAN}
    \cup {[Plain EXCEPT !.rows = <<0, 1>>, !.cols = <<2, 3>>, !.set_num = 2, !.in_base = 2,
                        !.user_pins = {1}, !.program = Keys]}
    \cup {[Plain EXCEPT !.out_num = 2, !.out_right = right, !.set_num = 2, !.side_base = 3, !.side_num = 1,
                        !.words = {6}, !.autopush = right, !.autopull = right, !.execs = execs,
                        !.program = {SetI("x", 2)}] :
              right \in BOOLEAN, execs \in {ExecIn, ExecWhole, ExecIndex, ExecFifo, ExecJmp}}
    \cup {[Plain EXCEPT !.out_num = 2, !.out_right = right, !.words = {6}, !.autopull = TRUE,
                        !.execs = ExecOut] : right \in BOOLEAN}
=============================================================================
