-------------------------------- MODULE Decode --------------------------------
(***************************************************************************)
(* exec_instruction_decode of execution.c: from a 16-bit machine           *)
(* instruction to the record the instruction routines work from.  A state  *)
(* machine has one such record, exec_instruction, and a decode leaves the  *)
(* fields of other kinds of instruction as they were.                      *)
(***************************************************************************)
EXTENDS Integers

\* hardware.c keeps exec_instruction in a static array: all fields are zero.
NewExec == [type |-> "jmp", delay |-> 0, side |-> 0, condition |-> "always", polarity |-> 0,
            wait_source |-> "gpio", index_or_value |-> 0, bit_count |-> 0, source |-> "pins",
            destination |-> "pins", operation |-> "no_operation", block |-> 0, if_full |-> 0,
            if_empty |-> 0, wait |-> 0, clear |-> 0, is_relative |-> 0, jmp_pc |-> 0]

\* instruction_field
Field(mi, from, to) == (mi \div 2 ^ from) % 2 ^ (to - from + 1)

Pick(table, number) == table[number + 1]

\* A JMP's location is one too low: the pc is incremented afterwards.
DecodeJmp(e, mi) ==
    [e EXCEPT !.type = "jmp", !.side = -1,
              !.condition = Pick(<<"always", "x_zero", "x_decrement", "y_zero", "y_decrement",
                                   "x_not_equal_y", "pin", "not_osre">>, Field(mi, 5, 7)),
              !.jmp_pc = Field(mi, 0, 4) - 1]

DecodeWait(e, mi) ==
    [e EXCEPT !.type = "wait", !.polarity = Field(mi, 7, 7), !.index_or_value = Field(mi, 0, 4),
              !.wait_source = Pick(<<"gpio", "pin", "irq", "reserved">>, Field(mi, 5, 6))]

DecodeIn(e, mi) ==
    [e EXCEPT !.type = "in", !.bit_count = Field(mi, 0, 4),
              !.source = Pick(<<"pins", "x", "y", "null", "reserved", "reserved", "isr", "osr">>,
                              Field(mi, 5, 7))]

DecodeOut(e, mi) ==
    [e EXCEPT !.type = "out", !.bit_count = Field(mi, 0, 4),
              !.destination = Pick(<<"pins", "x", "y", "null", "pindirs", "pc", "isr", "exec">>,
                                   Field(mi, 5, 7))]

\* Mutant: the block bit is only looked at for a PULL.
DecodePullBlock(e, mi) ==
    IF Field(mi, 7, 7) = 1
    THEN [e EXCEPT !.type = "pull", !.block = Field(mi, 5, 5), !.if_empty = Field(mi, 6, 6)]
    ELSE [e EXCEPT !.type = "push", !.if_full = Field(mi, 6, 6)]

DecodePushPull(e, mi) ==
    IF Field(mi, 7, 7) = 1
    THEN [e EXCEPT !.type = "pull", !.block = Field(mi, 5, 5), !.if_empty = Field(mi, 6, 6)]
    ELSE [e EXCEPT !.type = "push", !.block = Field(mi, 5, 5), !.if_full = Field(mi, 6, 6)]

\* The operation's number is stored as the source: invert is 1, which is x_source,
\* bit_reverse 2, y_source, reserved_operation 7, reserved_source.
DecodeMov(e, mi) ==
    LET from == Pick(<<"pins", "x", "y", "null", "reserved", "status", "isr", "osr">>, Field(mi, 0, 2))
        operation == Field(mi, 3, 4)
    IN [e EXCEPT !.type = "mov",
                 !.destination = Pick(<<"pins", "x", "y", "reserved", "exec", "pc", "isr", "osr">>,
                                      Field(mi, 5, 7)),
                 !.source = Pick(<<from, "x", "y", "reserved">>, operation),
                 !.operation = IF operation = 0 THEN "no_operation" ELSE @]

\* Of an IRQ's fields these are not the ones run_irq_instruction works from: it turns
\* on the operation, which is left as it was.
DecodeIrq(e, mi) ==
    [e EXCEPT !.type = "irq", !.index_or_value = Field(mi, 0, 4), !.wait = Field(mi, 5, 5),
              !.clear = Field(mi, 6, 6)]

DecodeSet(e, mi) ==
    [e EXCEPT !.type = "set", !.index_or_value = Field(mi, 0, 4),
              !.destination = Pick(<<"pins", "x", "y", "reserved", "pindirs", "reserved", "reserved",
                                     "reserved">>, Field(mi, 5, 7))]

\* side_set_count, which nothing ever sets, is 0: the delay has all five bits and
\* the side set value is 0, not none.
Decoded(e, mi) ==
    LET d == [e EXCEPT !.delay = Field(mi, 8, 12), !.side = Field(mi, 13, 12)]
        kind == Field(mi, 13, 15)
    IN CASE kind = 0 -> DecodeJmp(d, mi)
         [] kind = 1 -> DecodeWait(d, mi)
         [] kind = 2 -> DecodeIn(d, mi)
         [] kind = 3 -> DecodeOut(d, mi)
         [] kind = 4 -> DecodePushPull(d, mi)
         [] kind = 5 -> DecodeMov(d, mi)
         [] kind = 6 -> DecodeIrq(d, mi)
         [] kind = 7 -> DecodeSet(d, mi)

-----------------------------------------------------------------------------
(* Reference: the encoding of the RP2040, for which doc/pio_programming.md *)
(* and execution.c refer to its data sheet.                                *)

Number(table, name) == (CHOOSE k \in DOMAIN table : table[k] = name) - 1

Kind == [jmp |-> 0, wait |-> 1, in |-> 2, out |-> 3, push |-> 4, pull |-> 4, mov |-> 5,
         irq |-> 6, set |-> 7]

\* Bits 5 to 7.
Operand(i) ==
    CASE i.type = "jmp" -> Number(<<"always", "x_zero", "x_decrement", "y_zero", "y_decrement",
                                    "x_not_equal_y", "pin", "not_osre">>, i.condition)
      [] i.type = "wait" -> 4 * i.polarity + Number(<<"gpio", "pin", "irq">>, i.wait_source)
      [] i.type = "in" -> Number(<<"pins", "x", "y", "null", "reserved", "reserved", "isr", "osr">>,
                                 i.source)
      [] i.type = "out" -> Number(<<"pins", "x", "y", "null", "pindirs", "pc", "isr", "exec">>,
                                  i.destination)
      [] i.type = "push" -> 2 * i.if_full + i.block
      [] i.type = "pull" -> 4 + 2 * i.if_empty + i.block
      [] i.type = "mov" -> Number(<<"pins", "x", "y", "reserved", "exec", "pc", "isr", "osr">>,
                                  i.destination)
      [] i.type = "irq" -> Number(<<"nowait", "wait", "clear">>, i.operation)
      [] i.type = "set" -> Number(<<"pins", "x", "y", "reserved", "pindirs">>, i.destination)

\* Bits 0 to 4.
Argument(i) ==
    CASE i.type = "jmp" -> i.jmp_pc
      [] i.type \in {"in", "out"} -> i.bit_count % 32
      [] i.type \in {"wait", "set"} -> i.index_or_value
      [] i.type = "irq" -> 16 * i.is_relative + i.index_or_value
      [] i.type \in {"push", "pull"} -> 0
      [] i.type = "mov" -> 8 * Number(<<"no_operation", "invert", "bit_reverse">>, i.operation)
                           + Number(<<"pins", "x", "y", "null", "reserved", "status", "isr", "osr">>,
                                    i.source)

Encode(i) == 2 ^ 13 * Kind[i.type] + 2 ^ 8 * i.delay + 2 ^ 5 * Operand(i) + Argument(i)

\* What has an encoding: fields that fit their bits.  No bits are set apart for a side
\* set value (side_set_count is 0).
Encodable(i) ==
    /\ i.delay \in 0..31 /\ i.side = -1
    /\ \/ /\ i.type = "jmp" /\ i.jmp_pc \in 0..31
          /\ i.condition \in {"always", "x_zero", "x_decrement", "y_zero", "y_decrement",
                              "x_not_equal_y", "pin", "not_osre"}
       \/ /\ i.type = "wait" /\ i.polarity \in {0, 1} /\ i.index_or_value \in 0..31
          /\ i.wait_source \in {"gpio", "pin", "irq"}
       \/ /\ i.type = "in" /\ i.bit_count \in 1..32
          /\ i.source \in {"pins", "x", "y", "null", "isr", "osr"}
       \/ /\ i.type = "out" /\ i.bit_count \in 1..32
          /\ i.destination \in {"pins", "x", "y", "null", "pindirs", "pc", "isr", "exec"}
       \/ i.type = "push" /\ i.if_full \in {0, 1} /\ i.block \in {0, 1}
       \/ i.type = "pull" /\ i.if_empty \in {0, 1} /\ i.block \in {0, 1}
       \/ /\ i.type = "mov" /\ i.operation \in {"no_operation", "invert", "bit_reverse"}
          /\ i.source \in {"pins", "x", "y", "null", "status", "isr", "osr"}
          /\ i.destination \in {"pins", "x", "y", "exec", "pc", "isr", "osr"}
       \/ /\ i.type = "irq" /\ i.operation \in {"nowait", "wait", "clear"}
          /\ i.index_or_value \in 0..7 /\ i.is_relative \in {0, 1}
       \/ /\ i.type = "set" /\ i.index_or_value \in 0..31
          /\ i.destination \in {"pins", "x", "y", "pindirs"}

\* The fields exec_run_instruction and the routine for the kind of instruction read.
Means(i) ==
    {"type", "delay", "side"} \cup
    CASE i.type = "jmp" -> {"condition", "jmp_pc"}
      [] i.type = "wait" -> {"polarity", "wait_source", "index_or_value"}
      [] i.type = "in" -> {"source", "bit_count"}
      [] i.type = "out" -> {"source", "destination", "bit_count"}
      [] i.type = "push" -> {"block", "if_full"}
      [] i.type = "pull" -> {"block", "if_empty"}
      [] i.type = "mov" -> {"source", "operation", "destination"}
      [] i.type = "irq" -> {"index_or_value", "is_relative", "operation"}
      [] i.type = "set" -> {"destination", "index_or_value"}

\* Those of them that do not say after a decode what was encoded:
\*  - the side set value, which becomes 0 instead of none (line 173), but for a JMP
\*  - a JMP's location, kept less one (line 213)
\*  - a count of 32, which is encoded as 0 and not taken for 32 again (line 239)
\*  - an OUT's source, by which it may limit its bits (line 1100): it keeps the one of
\*    the IN or MOV decoded before
\*  - a MOV's operation and source, when there is an operation (line 385)
\*  - an IRQ's operation, and its index, in which REL is one of the bits (line 400)
Departs(i) ==
    (IF i.type = "jmp" THEN {"jmp_pc"} ELSE {"side"}) \cup
    (IF i.type \in {"in", "out"} /\ i.bit_count = 32 THEN {"bit_count"} ELSE {}) \cup
    CASE i.type = "out" -> {"source"}
      [] i.type = "mov" /\ i.operation # "no_operation" -> {"source", "operation"}
      [] i.type = "irq" -> {"operation"} \cup
                           (IF i.is_relative = 1 THEN {"index_or_value", "is_relative"} ELSE {})
      [] OTHER -> {}
=============================================================================
