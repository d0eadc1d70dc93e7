----------------------------- MODULE MCYafInode ------------------------------
(***************************************************************************)
(* Small disks for TLC.  uint32_t is scaled to 2^6.                        *)
(***************************************************************************)
EXTENDS YafInode

MCU32 == 64
==============================================================================
