-------------------------- MODULE YafLayout_proofs ---------------------------
(***************************************************************************)
(* The layout mkfs computes is sound for every size of device of at least  *)
(* INODES_PER_BLOCK blocks: the sections do not overlap and end where the  *)
(* usable blocks end, and every inode and data block has a bit.            *)
(***************************************************************************)
EXTENDS YafLayout, YafNumbers

USE LayoutAssumption

-----------------------------------------------------------------------------
(* Arithmetic. *)

\* idiv_ceil() rounds up.
LEMMA CeilDiv ==
  ASSUME NEW a \in Nat, NEW b \in Nat \ {0}
  PROVE  /\ idiv_ceil(a, b) \in Nat
         /\ a <= b * idiv_ceil(a, b)
         /\ b * idiv_ceil(a, b) < a + b
<1> DEFINE q == a \div b
<1>1. /\ q \in Nat /\ b * q \in Nat /\ b * q <= a
      /\ a < b * q + b /\ a % b = a - b * q
  BY Quotient
<1>2. CASE a % b = 0
  <2>1. idiv_ceil(a, b) = q                  BY <1>1, <1>2 DEF idiv_ceil
  <2> QED                                    BY <1>1, <1>2, <2>1
<1>3. CASE a % b # 0
  <2>1. idiv_ceil(a, b) = q + 1              BY <1>1, <1>3 DEF idiv_ceil
  <2>2. b * (q + 1) = b * q + b              BY <1>1
  <2>3. a # b * q                            BY <1>1, <1>3
  <2> HIDE DEF q
  <2> QED                                    BY <1>1, <2>1, <2>2, <2>3
<1> QED  BY <1>2, <1>3

-----------------------------------------------------------------------------
(* The counts. *)

\* The blocks that are used: whole groups of INODES_PER_BLOCK, on the device.
LEMMA UsableBlocks ==
  ASSUME NEW bnr \in Nat
  PROVE  /\ Usable(bnr) \in Nat
         /\ Usable(bnr) <= bnr
         /\ Usable(bnr) < U32
         /\ \E q \in Nat : Usable(bnr) = INODES_PER_BLOCK * q
<1> DEFINE m == bnr % U32
           q == m \div INODES_PER_BLOCK
<1>1. m \in Nat /\ m < U32 /\ m <= bnr
  <2>1. /\ U32 * (bnr \div U32) \in Nat
        /\ bnr % U32 = bnr - U32 * (bnr \div U32)
        /\ bnr < U32 * (bnr \div U32) + U32
        /\ U32 * (bnr \div U32) <= bnr
    <3>1. U32 \in Nat \ {0}                   OBVIOUS
    <3> QED  BY <3>1, Quotient
  <2> QED  BY <2>1
<1>2. /\ q \in Nat /\ INODES_PER_BLOCK * q \in Nat
      /\ INODES_PER_BLOCK * q <= m
  <2> HIDE DEF m
  <2> QED  BY <1>1, Quotient
<1>3. Usable(bnr) = INODES_PER_BLOCK * q
  <2>1. Usable(bnr) = q * INODES_PER_BLOCK   BY DEF Usable, align_down
  <2> HIDE DEF q
  <2> QED  BY <1>2, <2>1
<1> HIDE DEF m, q
<1> QED  BY <1>1, <1>2, <1>3

\* The superblock of a device of at least INODES_PER_BLOCK blocks: the inode
\* blocks hold as many inodes as there are blocks, the bitmaps have as many
\* bits, and nr_d did not wrap around.
LEMMA Counts ==
  ASSUME NEW bnr \in Nat, Usable(bnr) > 0
  PROVE  LET s == SbInfo(bnr) IN
         /\ s.nr_ibp \in Nat \ {0} /\ s.nr_dbp = s.nr_ibp
         /\ Usable(bnr) <= BLOCK_BITS * s.nr_ibp
         /\ s.nr_i \in Nat \ {0}
         /\ INODES_PER_BLOCK * s.nr_i = Usable(bnr)
         /\ s.nr_d \in Nat
         /\ s.nr_d = Usable(bnr) - 1 - s.nr_i - s.nr_ibp - s.nr_dbp
<1> DEFINE n  == Usable(bnr)
           bm == idiv_ceil(n, BLOCK_BITS)
           ni == idiv_ceil(n, INODES_PER_BLOCK)
<1>1. n \in Nat /\ n > 0 /\ n < U32          BY UsableBlocks
<1>2. PICK q \in Nat : n = INODES_PER_BLOCK * q
  BY UsableBlocks
<1>3. SbInfo(bnr) = [nr_ibp |-> bm, nr_dbp |-> bm, nr_i |-> ni,
                     nr_d |-> (n - 1 - ni - bm - bm) % U32]
  BY DEF SbInfo
<1> HIDE DEF n
<1>4. /\ ni \in Nat /\ n <= INODES_PER_BLOCK * ni
      /\ INODES_PER_BLOCK * ni < n + INODES_PER_BLOCK
  BY <1>1, CeilDiv
<1>5. /\ bm \in Nat /\ n <= BLOCK_BITS * bm /\ BLOCK_BITS * bm < n + BLOCK_BITS
  BY <1>1, CeilDiv
<1> HIDE DEF bm, ni
<1>6. q >= 1 /\ bm >= 1                      BY <1>1, <1>2, <1>5
<1>7. ni = q
  <2>1. CASE ni >= q + 1
    <3>1. INODES_PER_BLOCK * (q + 1) <= INODES_PER_BLOCK * ni
      BY <1>2, <1>4, <2>1, Product
    <3>2. INODES_PER_BLOCK * (q + 1) = n + INODES_PER_BLOCK   BY <1>2
    <3> QED  BY <1>1, <1>4, <3>1, <3>2
  <2>2. CASE ni <= q - 1
    <3>1. INODES_PER_BLOCK * ni <= INODES_PER_BLOCK * (q - 1)
      BY <1>2, <1>4, <2>2, Product
    <3>2. INODES_PER_BLOCK * (q - 1) = n - INODES_PER_BLOCK   BY <1>2
    <3> QED  BY <1>1, <1>4, <3>1, <3>2
  <2> QED  BY <1>2, <1>4, <2>1, <2>2
<1>8. bm <= q
  <2> SUFFICES ASSUME bm >= q + 1 PROVE FALSE   BY <1>2, <1>5
  <2>1. BLOCK_BITS * (q + 1) <= BLOCK_BITS * bm   BY <1>2, <1>5, Product
  <2>2. BLOCK_BITS * (q + 1) = q * BLOCK_BITS + BLOCK_BITS  BY <1>2
  <2>3. q * INODES_PER_BLOCK <= q * BLOCK_BITS    BY <1>2, Product
  <2>4. n = q * INODES_PER_BLOCK                  BY <1>2
  <2>5. n \in Nat /\ q * BLOCK_BITS \in Nat /\ BLOCK_BITS * bm \in Nat
    BY <1>1, <1>2, <1>5
  <2> QED  BY <1>5, <2>1, <2>2, <2>3, <2>4, <2>5
<1>9. n >= 4 * q
  <2>1. q * 4 <= q * INODES_PER_BLOCK             BY <1>2, Product
  <2> QED  BY <1>2, <2>1
<1>10. n - 1 - ni - bm - bm \in 0 .. U32 - 1
  BY <1>1, <1>2, <1>5, <1>6, <1>7, <1>8, <1>9
<1>11. (n - 1 - ni - bm - bm) % U32 = n - 1 - ni - bm - bm
  BY <1>10
<1> QED
  BY <1>1, <1>2, <1>3, <1>4, <1>5, <1>6, <1>7, <1>10, <1>11 DEF n

-----------------------------------------------------------------------------
(* The sections. *)

\* Superblock, inode bitmap, data bitmap, inode blocks and data blocks follow
\* each other, none but the last is empty, and the last ends with the usable
\* blocks of the device (write_superblock of mkfs.c, BID_* of fs.h).
THEOREM SectionsFit ==
  ASSUME NEW bnr \in Nat, Usable(bnr) > 0
  PROVE  LET s == SbInfo(bnr) IN
         /\ 0 < BID_IBP_MIN(s)
         /\ BID_IBP_MIN(s) < BID_DBP_MIN(s)
         /\ BID_DBP_MIN(s) < BID_I_MIN(s)
         /\ BID_I_MIN(s) < BID_D_MIN(s)
         /\ BID_D_MIN(s) <= BID_D_MAX(s) + 1
         /\ BID_D_MAX(s) = Usable(bnr) - 1
         /\ BID_D_MAX(s) < bnr
BY Counts, UsableBlocks
   DEF BID_IBP_MIN, BID_DBP_MIN, BID_I_MIN, BID_D_MIN, BID_D_MAX

\* Every inode number that yaf_iget accepts has its place among the inode
\* blocks, and its bit in the inode bitmap (INO2BID, IDXI2BID).
THEOREM InodePlaces ==
  ASSUME NEW bnr \in Nat, Usable(bnr) > 0,
         NEW ino \in 0 .. SbInfo(bnr).nr_i * INODES_PER_BLOCK - 1
  PROVE  LET s == SbInfo(bnr) IN
         /\ INO2BID(s, ino) \in BID_I_MIN(s) .. BID_D_MIN(s) - 1
         /\ IDXI2BID(s, ino) \in BID_IBP_MIN(s) .. BID_DBP_MIN(s) - 1
<1> DEFINE s == SbInfo(bnr)
<1>1. /\ s.nr_ibp \in Nat /\ s.nr_dbp \in Nat /\ s.nr_i \in Nat
      /\ Usable(bnr) <= BLOCK_BITS * s.nr_ibp
      /\ INODES_PER_BLOCK * s.nr_i = Usable(bnr)
  BY Counts
<1>2. Usable(bnr) \in Nat                    BY UsableBlocks
<1>3. ino \in 0 .. s.nr_i * INODES_PER_BLOCK - 1   OBVIOUS
<1> HIDE DEF s
<1>4. ino \in Nat /\ ino < INODES_PER_BLOCK * s.nr_i /\ ino < BLOCK_BITS * s.nr_ibp
  <2>1. s.nr_i * INODES_PER_BLOCK = INODES_PER_BLOCK * s.nr_i   BY <1>1
  <2>2. BLOCK_BITS * s.nr_ibp \in Nat                           BY <1>1
  <2> QED  BY <1>1, <1>2, <1>3, <2>1, <2>2
<1>5. ino \div INODES_PER_BLOCK \in 0 .. s.nr_i - 1   BY <1>1, <1>4, InGroup
<1>6. ino \div BLOCK_BITS \in 0 .. s.nr_ibp - 1       BY <1>1, <1>4, InGroup
<1>7. /\ INO2BID(s, ino) \in BID_I_MIN(s) .. BID_D_MIN(s) - 1
      /\ IDXI2BID(s, ino) \in BID_IBP_MIN(s) .. BID_DBP_MIN(s) - 1
  BY <1>1, <1>5, <1>6
     DEF INO2BID, IDXI2BID, BID_IBP_MIN, BID_DBP_MIN, BID_I_MIN, BID_D_MIN
<1> QED  BY <1>7 DEF s

\* Every data block has its place among the data blocks, on the device, and
\* its bit in the data bitmap (DNO2BID, IDXD2BID).
THEOREM DataPlaces ==
  ASSUME NEW bnr \in Nat, Usable(bnr) > 0,
         NEW dno \in 0 .. SbInfo(bnr).nr_d - 1
  PROVE  LET s == SbInfo(bnr) IN
         /\ DNO2BID(s, dno) \in BID_D_MIN(s) .. bnr - 1
         /\ IDXD2BID(s, dno) \in BID_DBP_MIN(s) .. BID_I_MIN(s) - 1
<1> DEFINE s == SbInfo(bnr)
<1>1. /\ s.nr_ibp \in Nat /\ s.nr_dbp = s.nr_ibp /\ s.nr_i \in Nat /\ s.nr_d \in Nat
      /\ Usable(bnr) <= BLOCK_BITS * s.nr_ibp
      /\ s.nr_d = Usable(bnr) - 1 - s.nr_i - s.nr_ibp - s.nr_dbp
  BY Counts
<1>2. Usable(bnr) \in Nat /\ Usable(bnr) <= bnr   BY UsableBlocks
<1>3. dno \in 0 .. s.nr_d - 1                OBVIOUS
<1> HIDE DEF s
<1>4. dno \in Nat /\ dno < BLOCK_BITS * s.nr_dbp
  <2>1. BLOCK_BITS * s.nr_ibp \in Nat        BY <1>1
  <2> QED  BY <1>1, <1>2, <1>3, <2>1
<1>5. dno \div BLOCK_BITS \in 0 .. s.nr_dbp - 1   BY <1>1, <1>4, InGroup
<1>6. /\ DNO2BID(s, dno) \in BID_D_MIN(s) .. bnr - 1
      /\ IDXD2BID(s, dno) \in BID_DBP_MIN(s) .. BID_I_MIN(s) - 1
  BY <1>1, <1>2, <1>3, <1>5
     DEF DNO2BID, IDXD2BID, BID_IBP_MIN, BID_DBP_MIN, BID_I_MIN, BID_D_MIN
<1> QED  BY <1>6 DEF s
==============================================================================
