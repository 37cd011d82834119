------------------------------ MODULE FlashChip ------------------------------
(***************************************************************************)
(* What the simulated SPI flash chip promises its host: while it is        *)
(* selected, every byte the host clocks in is exchanged for one byte of    *)
(* answer, and the bytes received so far decide what both mean.  The first *)
(* byte is the command, the next three are the address; what follows is    *)
(* data.  Deselecting the chip ends the command wherever it stands.        *)
(*                                                                         *)
(* SpiFlash.tla, the state machine that sees one clock level at a time,    *)
(* implements this module.                                                 *)
(***************************************************************************)
EXTENDS Integers, Sequences

CONSTANTS ByteRange,    \* values of a byte: 256
          WordRange,    \* values of a uint32_t
          Size,         \* SPI_FLASH_SIZE
          SectorSize,   \* SPI_SECTOR_SIZE
          Id,           \* spif_id
          PAGE_PROGRAM, READ, STATUS, WRITE_EN, SECTOR_ERASE, READ_ID

Bytes == 0..(ByteRange - 1)
Cells == 0..(Size - 1)
Erased == ByteRange - 1

VARIABLES storage,               \* spif_storage
          write_enable_latch,
          message,               \* the whole bytes received since the chip was selected
          answer                 \* the byte that went out with the last of them

chip == <<storage, write_enable_latch, message, answer>>

Address(m) == (m[2] * ByteRange + m[3]) * ByteRange + m[4]

\* Where the next data byte of a READ or a PAGE_PROGRAM belongs.
Cursor(m) == Address(m) + Len(m) - 4

\* The cells of a sector; the arithmetic is that of 32-bit words.
Sector(n) == LET first == (n * SectorSize) % WordRange
                 max == ((n + 1) * SectorSize) % WordRange
             IN {i \in Cells : first <= i /\ i < max}

\* The bytes that may go out while the byte after m comes in.  The first byte
\* of a READ beyond the storage is whatever the memory behind it holds.
Answers(m) ==
    CASE Len(m) = 1 /\ m[1] = STATUS -> {IF write_enable_latch THEN 2 ELSE 0}
      [] Len(m) \in {4, 5} /\ m[1] = READ_ID -> {Id[Len(m) - 3]}
      [] Len(m) >= 4 /\ m[1] = READ /\ Cursor(m) \in Cells -> {storage[Cursor(m)]}
      [] Len(m) > 4 /\ m[1] = READ /\ Cursor(m) \notin Cells -> {Erased}
      [] OTHER -> Bytes

\* What the byte that completes m changes.
Effect(m, byte) ==
    /\ storage' = CASE Len(m) >= 4 /\ m[1] = PAGE_PROGRAM /\ Cursor(m) \in Cells ->
                           [storage EXCEPT ![Cursor(m)] = byte]
                    [] Len(m) = 3 /\ m[1] = SECTOR_ERASE ->
                           [i \in Cells |-> IF i \in Sector(Address(Append(m, byte)))
                                            THEN Erased ELSE storage[i]]
                    [] OTHER -> storage
    /\ write_enable_latch' = (write_enable_latch \/ (m = <<>> /\ byte = WRITE_EN))

Transfer(byte) == /\ Effect(message, byte)
                  /\ answer' \in Answers(message)
                  /\ message' = Append(message, byte)

\* Selecting or deselecting the chip starts over.
StartOver == /\ message' = <<>>
             /\ UNCHANGED <<storage, write_enable_latch, answer>>

\* The device is enabled anew by a rebuild of the program.
Enable == /\ message' = <<>> /\ write_enable_latch' = FALSE
          /\ UNCHANGED <<storage, answer>>

ChipInit == /\ storage = [i \in Cells |-> 0]
            /\ write_enable_latch = FALSE
            /\ message = <<>> /\ answer = 0

ChipNext == (\E byte \in Bytes : Transfer(byte)) \/ StartOver \/ Enable

ChipSpec == ChipInit /\ [][ChipNext]_chip
=============================================================================
