----------------------------- MODULE MCSpiFlash -----------------------------
(***************************************************************************)
(* SpiFlash with bytes of three bits, two cells and sectors larger than    *)
(* the storage, as in the code.  The messages hold every command, an       *)
(* unknown one, addresses at, before and beyond the end, and a sector      *)
(* number whose address wraps.                                             *)
(***************************************************************************)
EXTENDS SpiFlash

MCId == <<5, 2>>

MCMessages ==
    {<<WRITE_EN, 0>>, <<STATUS, 0, 0>>, <<7, WRITE_EN>>,
     <<READ_ID, 0, 0, 0, 0, 0, 0>>,
     <<READ, 0, 0, 0, 0, 0, 0>>, <<READ, 0, 0, 2, 0, 0>>,
     <<PAGE_PROGRAM, 0, 0, 0, 5>>, <<PAGE_PROGRAM, 0, 0, 1, 2, 1>>,
     <<SECTOR_ERASE, 0, 0, 0, 1>>, <<SECTOR_ERASE, 4, 0, 0>>, <<SECTOR_ERASE, 0, 0, 1>>}
=============================================================================
