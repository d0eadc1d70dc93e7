----------------------------- MODULE MCYafBitmap -----------------------------
(***************************************************************************)
(* Small bitmaps for TLC: two threads, two blocks of a few bits.  uint32_t *)
(* is scaled to 2^8, far above every index of these bitmaps.               *)
(***************************************************************************)
EXTENDS YafBitmap

MCU32 == 256

\* The inode bitmap as mkfs leaves it: RESERVED_INO and ROOT_INO are taken.
InodePreset == {0, 1}
ReservedIno == 0

\* The data bitmap: nothing is taken, RESERVED_DNO is -1 as a uint32_t.
DataPreset == {}
ReservedDno == MCU32 - 1
==============================================================================
