------------------------------- MODULE SpiFlash -------------------------------
(***************************************************************************)
(* The simulated SPI flash chip, device_spi_flash.c, and the host that     *)
(* drives its pins: a PIO program such as tests/test_spi_flash.simpio.     *)
(* The scheduler runs the device (spif_sm) after every turn of a state     *)
(* machine (execution.c:711), so a step is one turn that may change pins   *)
(* and the device's look at them.                                          *)
(*                                                                         *)
(* spif_stay_busy_for is never called, so delay and busy stay 0.  The      *)
(* fields only the display reads (prev_cmd, mode, last_clk, num_bytes,     *)
(* bytes_received, byte_index) are left out.                               *)
(***************************************************************************)
EXTENDS Integers, Sequences

CONSTANTS ByteRange, WordRange, Size, SectorSize, Id,
          PAGE_PROGRAM, READ, STATUS, WRITE_EN, SECTOR_ERASE, READ_ID,
          Width,       \* bits in a byte: 8
          CountRange,  \* values of the eight-bit shift_count: 256
          Messages     \* the byte sequences the host sends

ASSUME FlashAssumption ==
    /\ Width \in Nat \ {0} /\ ByteRange = 2 ^ Width
    /\ WordRange \in Nat \ {0} /\ Size \in Nat \ {0} /\ SectorSize \in Nat \ {0}
    /\ {PAGE_PROGRAM, READ, STATUS, WRITE_EN, SECTOR_ERASE, READ_ID} \subseteq 1..(ByteRange - 1)
    /\ Id \in Seq(0..(ByteRange - 1)) /\ Len(Id) = 2
    /\ CountRange \in Nat /\ CountRange > Width
    /\ Messages \subseteq Seq(0..(ByteRange - 1))

VARIABLES
    storage, write_enable_latch,
    state, shift_state, shift_count, cmd, addr1, addr2, addr3, addr,
    response_byte, program_byte, bytes_responded,
    data,                       \* what data_ptr points to: status or ID bytes
    clk, tx, rx, cs,            \* the pins
    to_send, bits_sent,         \* the host: its message and the bits of it sent,
    sampled, answer             \* the bits of the byte under way, the last whole one

regs == <<cmd, addr1, addr2, addr3, addr, response_byte, program_byte, bytes_responded, data>>
pins == <<clk, tx, cs>>
host == <<to_send, bits_sent, sampled, answer>>
vars == <<storage, write_enable_latch, state, shift_state, shift_count, regs, pins, rx, host>>

Bytes == 0..(ByteRange - 1)
Cells == 0..(Size - 1)
Erased == ByteRange - 1
Commands == {PAGE_PROGRAM, READ, STATUS, WRITE_EN, SECTOR_ERASE, READ_ID}

-----------------------------------------------------------------------------
(* Shifting *)

Pushed(byte, bit) == ((byte * 2) % ByteRange) + bit
TopBit(byte) == byte \div (ByteRange \div 2)

\* spif_shift_in_next_bit takes a bit from tx at a rising edge of the clock.
TakesBit == shift_state = "clk_high" /\ clk' = 1

AfterIn(taken) == IF taken THEN "clk_low_then_high"
                  ELSE IF shift_state = "clk_low_then_high" /\ clk' = 0 THEN "clk_high"
                  ELSE shift_state

\* spif_shift_out_next_bit puts a bit on rx at a falling edge.
PutsBit == shift_state = "clk_low" /\ clk' = 0

AfterOut == IF PutsBit THEN "clk_high_then_low"
            ELSE IF shift_state = "clk_high_then_low" /\ clk' = 1 THEN "clk_low"
            ELSE shift_state

CountAfter(moved) == IF moved THEN (shift_count + 1) % CountRange ELSE shift_count

\* A byte register after spif_shift_in_next_bit.
ShiftedIn(byte) == IF TakesBit THEN Pushed(byte, tx') ELSE byte

-----------------------------------------------------------------------------
(* What a whole command or address byte sets off.  The operand is the value *)
(* the shift has just left in the register.                                 *)

Storing == <<storage, write_enable_latch>>

GoOn(next) == /\ state' = next /\ shift_count' = 0
              /\ shift_state' = "clk_low_then_high"
              /\ UNCHANGED <<Storing, addr, response_byte, data>>

Finish == /\ state' = "done" /\ shift_count' = 0
          /\ shift_state' = AfterIn(TakesBit)
          /\ UNCHANGED <<Storing, addr, response_byte, data>>

\* spif_setup_response
Respond(bytes) == /\ state' = "writing_response" /\ shift_count' = 0
                  /\ shift_state' = "clk_low"
                  /\ data' = bytes /\ response_byte' = bytes[1]
                  /\ UNCHANGED <<Storing, addr>>

ProcessCmd(c) ==
    \/ c \in {PAGE_PROGRAM, READ, SECTOR_ERASE, READ_ID} /\ GoOn("getting_addr1")
    \/ c = STATUS /\ Respond(<<IF write_enable_latch THEN 2 ELSE 0>>)
    \/ /\ c = WRITE_EN /\ state' = "done" /\ write_enable_latch' = TRUE
       /\ shift_count' = Width /\ shift_state' = AfterIn(TakesBit)
       /\ UNCHANGED <<storage, addr, response_byte, data>>
    \/ c \notin Commands /\ Finish

\* spif_get_addr has no return statement; an unoptimised build, which is what the
\* Makefile asks for, returns the sum it computed last.
GetAddr(a3) == (addr1 * ByteRange + addr2) * ByteRange + a3

\* The first byte is fetched without a test of the address: beyond the array it
\* is whatever the memory there holds.
SetupRead(a) ==
    /\ state' = "reading" /\ shift_count' = 0 /\ shift_state' = "clk_low"
    /\ addr' = a + 1
    /\ response_byte' \in IF a \in Cells THEN {storage[a]} ELSE Bytes
    /\ UNCHANGED <<Storing, data>>

SetupProgram(a) ==
    /\ state' = "programming" /\ shift_count' = 0 /\ shift_state' = "clk_low_then_high"
    /\ addr' = a
    /\ UNCHANGED <<Storing, response_byte, data>>

SectorCells(n) == LET first == (n * SectorSize) % WordRange
                      max == ((n + 1) * SectorSize) % WordRange
                      last == IF max > Size THEN Size ELSE max
                  IN IF first > Size THEN {} ELSE first..(last - 1)

\* spif_setup_sector_erase leaves the state and the full shift count alone, so
\* the erase is done again at every call until the next clock edge or deselect.
SectorErase(a) ==
    /\ storage' = [i \in Cells |-> IF i \in SectorCells(a) THEN Erased ELSE storage[i]]
    /\ shift_count' = CountAfter(TakesBit) /\ shift_state' = AfterIn(TakesBit)
    /\ UNCHANGED <<state, write_enable_latch, addr, response_byte, data>>

\* The command is one of these four, so the switch's other cases are never taken.
ProcessAddr3(a3) ==
    \/ cmd = PAGE_PROGRAM /\ SetupProgram(GetAddr(a3))
    \/ cmd = READ /\ SetupRead(GetAddr(a3))
    \/ cmd = SECTOR_ERASE /\ SectorErase(GetAddr(a3))
    \/ cmd = READ_ID /\ Respond(Id)

-----------------------------------------------------------------------------
(* The device's look at the pins, one action per state *)

Whole == CountAfter(TakesBit) = Width

\* No byte is complete: only the shift has happened.
Partial == /\ shift_count' = CountAfter(TakesBit) /\ shift_state' = AfterIn(TakesBit)
           /\ UNCHANGED <<state, Storing, addr, response_byte, data>>

\* Mutant: a clock that is low already has to go low first.
FirstEdgeAfterLow == "clk_low_then_high"

\* The clock may rest at either level when the chip is selected.
FirstEdge == IF clk' = 1 THEN "clk_low_then_high" ELSE "clk_high"

WhenIdle ==
    /\ state = "idle" /\ state' = "getting_cmd" /\ shift_count' = 0
    /\ shift_state' = FirstEdge
    /\ UNCHANGED <<Storing, regs, rx>>

WhenGettingCmd ==
    /\ state = "getting_cmd" /\ cmd' = ShiftedIn(cmd)
    /\ IF Whole THEN ProcessCmd(cmd') ELSE Partial
    /\ UNCHANGED <<addr1, addr2, addr3, program_byte, bytes_responded, rx>>

WhenGettingAddr1 ==
    /\ state = "getting_addr1" /\ addr1' = ShiftedIn(addr1)
    /\ IF Whole THEN GoOn("getting_addr2") ELSE Partial
    /\ UNCHANGED <<cmd, addr2, addr3, program_byte, bytes_responded, rx>>

WhenGettingAddr2 ==
    /\ state = "getting_addr2" /\ addr2' = ShiftedIn(addr2)
    /\ IF Whole THEN GoOn("getting_addr3") ELSE Partial
    /\ UNCHANGED <<cmd, addr1, addr3, program_byte, bytes_responded, rx>>

WhenGettingAddr3 ==
    /\ state = "getting_addr3" /\ addr3' = ShiftedIn(addr3)
    /\ IF Whole THEN ProcessAddr3(addr3') ELSE Partial
    /\ UNCHANGED <<cmd, addr1, addr2, program_byte, bytes_responded, rx>>

\* spif_program beyond the storage leaves the full shift count standing.
WhenProgramming ==
    /\ state = "programming" /\ program_byte' = ShiftedIn(program_byte)
    /\ shift_state' = AfterIn(TakesBit)
    /\ IF Whole /\ addr < Size
       THEN /\ storage' = [storage EXCEPT ![addr] = program_byte']
            /\ addr' = addr + 1 /\ shift_count' = 0
       ELSE shift_count' = CountAfter(TakesBit) /\ UNCHANGED <<storage, addr>>
    /\ UNCHANGED <<state, write_enable_latch, cmd, addr1, addr2, addr3, response_byte,
                   bytes_responded, data, rx>>

\* Both ways of answering put out the top bit of response_byte.
PutBit == rx' = IF PutsBit THEN TopBit(response_byte) ELSE rx
Sent == CountAfter(PutsBit) = Width
ShiftedOut == IF PutsBit THEN Pushed(response_byte, 0) ELSE response_byte

WhenReading ==
    /\ state = "reading" /\ PutBit /\ shift_state' = AfterOut
    /\ IF Sent
       THEN /\ shift_count' = 0 /\ bytes_responded' = bytes_responded + 1
            /\ response_byte' = IF addr >= Size THEN Erased ELSE storage[addr]
            /\ addr' = IF addr >= Size THEN addr ELSE addr + 1
       ELSE /\ shift_count' = CountAfter(PutsBit) /\ response_byte' = ShiftedOut
            /\ UNCHANGED <<addr, bytes_responded>>
    /\ UNCHANGED <<Storing, state, cmd, addr1, addr2, addr3, program_byte, data>>

\* The second shift of spif_response finds the clock low and does nothing.
WhenWritingResponse ==
    /\ state = "writing_response" /\ PutBit /\ shift_state' = AfterOut
    /\ bytes_responded' = IF Sent THEN bytes_responded + 1 ELSE bytes_responded
    /\ IF Sent /\ bytes_responded' # Len(data)
       THEN shift_count' = 0 /\ response_byte' = data[bytes_responded' + 1]
       ELSE shift_count' = CountAfter(PutsBit) /\ response_byte' = ShiftedOut
    /\ state' = IF Sent /\ bytes_responded' = Len(data) THEN "done" ELSE state
    /\ UNCHANGED <<Storing, cmd, addr1, addr2, addr3, addr, program_byte, data>>

WhenDone == state = "done" /\ UNCHANGED <<Storing, state, shift_state, shift_count, regs, rx>>

\* spif_reset_for_next_cmd
ClearRegs == /\ cmd' = 0 /\ addr1' = 0 /\ addr2' = 0 /\ addr3' = 0 /\ addr' = 0
             /\ response_byte' = 0 /\ program_byte' = 0 /\ bytes_responded' = 0
             /\ data' = <<>>

\* spif_finish
Deselected == /\ state' = "idle" /\ ClearRegs /\ shift_count' = 0
              /\ UNCHANGED <<Storing, shift_state, rx>>

Device == IF cs' = 1 THEN Deselected
          ELSE \/ WhenIdle
               \/ WhenGettingCmd \/ WhenGettingAddr1 \/ WhenGettingAddr2 \/ WhenGettingAddr3
               \/ WhenProgramming \/ WhenReading \/ WhenWritingResponse
               \/ WhenDone

-----------------------------------------------------------------------------
(* The host *)

WholeByte == ((bits_sent + 1) % Width) = 0

\* The chip is selected with a message to send; the clock rests at either level
\* and does not move in the same turn.
Select == /\ cs = 1 /\ cs' = 0
          /\ to_send' \in Messages /\ bits_sent' = 0 /\ sampled' = 0
          /\ UNCHANGED <<clk, tx, answer>>
          /\ Device

\* With the chip deselected the clock belongs to others.
ClockElsewhere == /\ cs = 1
                  /\ clk' = 1 - clk
                  /\ UNCHANGED <<tx, cs, host>>
                  /\ Device

\* Data is set and, or before, the clock rises; the answer is sampled as in the
\* turn that raises it.
ClockUp ==
    LET byte == to_send[bits_sent \div Width + 1]
        bit == (byte \div 2 ^ (Width - 1 - (bits_sent % Width))) % 2
    IN /\ cs = 0 /\ clk = 0
       /\ bits_sent < Width * Len(to_send)
       /\ clk' = 1 /\ tx' = bit /\ cs' = cs
       /\ bits_sent' = bits_sent + 1
       /\ sampled' = IF WholeByte THEN 0 ELSE Pushed(sampled, rx)
       /\ answer' = IF WholeByte THEN Pushed(sampled, rx) ELSE answer
       /\ UNCHANGED to_send
       /\ Device

ClockDown == /\ cs = 0 /\ clk = 1 /\ clk' = 0
             /\ UNCHANGED <<tx, cs, host>>
             /\ Device

\* At any time, also in the middle of a byte.
Deselect == /\ cs = 0 /\ cs' = 1
            /\ to_send' = <<>> /\ bits_sent' = 0 /\ sampled' = 0
            /\ UNCHANGED <<clk, tx, answer>>
            /\ Device

\* A turn that leaves the pins alone.
OtherTurn == /\ UNCHANGED <<pins, host>>
             /\ Device

\* device_enable_spi_flash, called by a rebuild, which leaves the pins, the
\* storage and the state of the shift register alone.  The program starts anew by
\* raising cs.
Rebuild == /\ write_enable_latch' = FALSE /\ ClearRegs /\ shift_count' = 0
           /\ to_send' = <<>> /\ bits_sent' = 0 /\ sampled' = 0
           /\ UNCHANGED <<storage, answer, state, shift_state, pins, rx>>

\* All pins are low before the program's first instruction, so the chip starts
\* out selected.
Init == /\ storage = [i \in Cells |-> 0] /\ write_enable_latch = FALSE
        /\ state = "idle" /\ shift_state = "clk_low_then_high" /\ shift_count = 0
        /\ cmd = 0 /\ addr1 = 0 /\ addr2 = 0 /\ addr3 = 0 /\ addr = 0
        /\ response_byte = 0 /\ program_byte = 0 /\ bytes_responded = 0
        /\ data = <<>>
        /\ clk = 0 /\ tx = 0 /\ rx = 0 /\ cs = 0
        /\ to_send = <<>> /\ bits_sent = 0 /\ sampled = 0 /\ answer = 0

Next == Select \/ ClockElsewhere \/ ClockUp \/ ClockDown \/ Deselect \/ OtherTurn \/ Rebuild

Spec == Init /\ [][Next]_vars

-----------------------------------------------------------------------------
(* What must hold *)

\* What the chip has received of the message under way.
Received == SubSeq(to_send, 1, bits_sent \div Width)

Chip == INSTANCE FlashChip WITH message <- Received

\* A device that is called at every level of its pins, that keeps its place in
\* nine state variables and may be deselected in the middle of any bit, behaves
\* as a chip that exchanges whole bytes (device_spi_flash.c as a whole).
ImplementsChip == Chip!ChipSpec
=============================================================================
