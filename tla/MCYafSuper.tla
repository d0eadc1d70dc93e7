----------------------------- MODULE MCYafSuper ------------------------------
(***************************************************************************)
(* Devices of a few blocks for TLC: 4 inodes per block, 8 bits per bitmap  *)
(* block, uint32_t of 6 bits.                                              *)
(***************************************************************************)
EXTENDS YafSuper
==============================================================================
