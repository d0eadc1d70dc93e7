------------------------------ MODULE YafLayout ------------------------------
(***************************************************************************)
(* The sections of a device: the counts mkfs computes from the number of   *)
(* blocks (write_superblock of tool/mkfs.c) and the places include/fs.h,   *)
(* include/inode.h and include/bitmap.h compute from the counts.           *)
(***************************************************************************)
EXTENDS Integers

CONSTANTS INODES_PER_BLOCK,
          BLOCK_BITS,       \* YAF_BLOCK_SIZE * BITS_PER_BYTE
          U32               \* 2^32

ASSUME LayoutAssumption ==
  /\ INODES_PER_BLOCK \in Nat /\ INODES_PER_BLOCK >= 4
  /\ BLOCK_BITS \in Nat /\ BLOCK_BITS >= INODES_PER_BLOCK
  /\ U32 \in Nat /\ U32 > BLOCK_BITS

RESERVED_INO == 0
ROOT_INO     == 1

align_down(x, a) == (x \div a) * a
idiv_ceil(a, b)  == (a \div b) + (IF a % b # 0 THEN 1 ELSE 0)

\* The blocks mkfs uses of a device of bnr blocks: a long, taken as uint32_t.
Usable(bnr) == align_down(bnr % U32, INODES_PER_BLOCK)

\* Yaf_Sb_Info as write_superblock() fills it.
SbInfo(bnr) ==
  LET n  == Usable(bnr)
      bm == idiv_ceil(n, BLOCK_BITS)
      ni == idiv_ceil(n, INODES_PER_BLOCK)
  IN  [nr_ibp |-> bm, nr_dbp |-> bm, nr_i |-> ni,
       nr_d |-> (n - 1 - ni - bm - bm) % U32]

\* The first block of each section; it ends before the next one starts.
BID_IBP_MIN(s) == 1
BID_DBP_MIN(s) == BID_IBP_MIN(s) + s.nr_ibp
BID_I_MIN(s)   == BID_DBP_MIN(s) + s.nr_dbp
BID_D_MIN(s)   == BID_I_MIN(s) + s.nr_i
BID_D_MAX(s)   == BID_D_MIN(s) + s.nr_d - 1

\* The block of an inode, of a data block, and of their bits.
INO2BID(s, ino)  == BID_I_MIN(s) + ino \div INODES_PER_BLOCK
DNO2BID(s, dno)  == BID_D_MIN(s) + dno
IDXI2BID(s, ino) == BID_IBP_MIN(s) + ino \div BLOCK_BITS
IDXD2BID(s, dno) == BID_DBP_MIN(s) + dno \div BLOCK_BITS
==============================================================================
