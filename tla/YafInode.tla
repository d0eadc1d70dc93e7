------------------------------ MODULE YafInode -------------------------------
(***************************************************************************)
(* The namespace of a mounted yaf: driver/inode.c, yaf_write_inode of      *)
(* driver/super.c and the block allocation of driver/file.c.               *)
(*                                                                         *)
(* The VFS (external) calls every operation with the locks of the inodes   *)
(* it changes held, so an operation is one step; what happens between two  *)
(* operations, writeback and the eviction of dentries and inodes, are      *)
(* steps of their own, and so is the iput() with which unlink and rmdir    *)
(* let go of the inode they removed.                                       *)
(* The bitmaps are the pools YafBitmap implements.                         *)
(* Blocks are what the buffer cache shows; a directory's size is counted   *)
(* in dentries, and a file's in the same unit.  Names are at most          *)
(* YAF_DENTRY_NAME_LEN bytes long: longer ones are refused by lookup and   *)
(* create before anything changes.                                         *)
(***************************************************************************)
EXTENDS Integers, FiniteSets, FiniteSetsExt

CONSTANTS
  Names,             \* file names
  NR_INODES,         \* nr_i * INODES_PER_BLOCK
  INODE_BITS,        \* bits of the inode bitmap
  DATA_BITS,         \* bits of the data bitmap
  DEV_DBLOCKS,       \* blocks the device has from BID_D_MIN on
  DENTRYS_PER_BLOCK,
  YAF_IBLOCKS,
  U32,               \* 2^32: the modulus of uint32_t
  Env                \* what users and the kernel may do, see the actions

RESERVED_INO == 0
ROOT_INO     == 1
RESERVED_DNO == U32 - 1
NotFound     == U32 - 2        \* -ENOENT as a uint32_t
Uncached     == -1             \* no dentry in the dcache
MAX_DENTRYS  == YAF_IBLOCKS * DENTRYS_PER_BLOCK

ASSUME InodeAssumption ==
  /\ Names # {}
  /\ NR_INODES \in Nat /\ NR_INODES > ROOT_INO
  /\ INODE_BITS \in Nat /\ INODE_BITS >= NR_INODES
  /\ DATA_BITS \in Nat \ {0}
  /\ DEV_DBLOCKS \in Nat
  /\ DENTRYS_PER_BLOCK \in Nat \ {0}
  /\ YAF_IBLOCKS \in Nat \ {0}
  /\ U32 \in Nat
  /\ INODE_BITS < NotFound /\ DATA_BITS < NotFound /\ MAX_DENTRYS < NotFound
  /\ DEV_DBLOCKS < NotFound

Ino   == 0 .. NR_INODES - 1
Word  == 0 .. U32 - 1
Bidx  == 0 .. YAF_IBLOCKS - 1
Slot  == 0 .. DENTRYS_PER_BLOCK - 1
Dno   == 0 .. DEV_DBLOCKS - 1

Inode == [kind : {"none", "file", "dir"}, nlink : Word, size : 0 .. MAX_DENTRYS,
          block : [Bidx -> Word]]

\* Yaf_Dentry, as far as it matters.
Dentry == [d_ino : Ino, d_name : Names]

\* An on-disk inode that was never written.
ZeroInode == [kind |-> "none", nlink |-> 0, size |-> 0, block |-> [b \in Bidx |-> 0]]

\* What yaf_new_inode and mkfs put into a new inode.
NewInode(k) == [kind |-> k, nlink |-> 1, size |-> 0,
                block |-> [b \in Bidx |-> RESERVED_DNO]]

\* What file data looks like to code that takes it for a directory entry.
FileData == [d_ino |-> ROOT_INO, d_name |-> CHOOSE n \in Names : TRUE]

VARIABLES
  ibmap,     \* bits set in the inode bitmap
  dbmap,     \* bits set in the data bitmap
  itable,    \* itable[i]: the on-disk inode i
  blocks,    \* blocks[b]: the dentries in data block b
  incore,    \* inodes that have a struct inode
  icache,    \* icache[i]: the struct inode and Yaf_Inode_Info of i
  dirty,     \* inodes marked dirty
  dcache,    \* dcache[d][n]: the dentry's inode, RESERVED_INO if negative
  opens,     \* regular files held open
  refs,      \* <<l, i>>: a call that is not over holds a reference to inode
             \* i and the lock of directory l (RESERVED_INO: of none)
  stuck,     \* inodes with a reference that a failed yaf_iget left behind
  mounted,
  panic      \* an assertion failed or the kernel crashed

disk == <<ibmap, dbmap, itable, blocks>>
users == <<opens, refs, stuck>>
vars == <<ibmap, dbmap, itable, blocks, incore, icache, dirty, dcache, opens, refs,
          stuck, mounted, panic>>

NoDentries == [n \in Names |-> Uncached]

\* The disk as mkfs leaves it.  mkfs writes no data block, so the data
\* blocks hold whatever was on the device before.
Init ==
  /\ ibmap = {RESERVED_INO, ROOT_INO}
  /\ dbmap = {}
  /\ itable = [i \in Ino |-> IF i = ROOT_INO THEN NewInode("dir") ELSE ZeroInode]
  /\ blocks = [b \in Dno |-> [s \in Slot |-> FileData]]
  /\ incore = {}
  /\ icache = [i \in Ino |-> ZeroInode]
  /\ dirty = {}
  /\ dcache = [i \in Ino |-> NoDentries]
  /\ opens = {}
  /\ refs = {}
  /\ stuck = {}
  /\ mounted = FALSE
  /\ panic = FALSE

Running == mounted /\ ~panic

-----------------------------------------------------------------------------
(* Helpers. *)

\* Wrong: nr <= bits as the condition of the loop.
FreeBit_PastEnd(used, bits, c) ==
  LET free == (0 .. bits) \ used
      nth  == {x \in free : Cardinality({y \in free : y < x}) = c}
  IN  IF nth = {} THEN NotFound ELSE CHOOSE x \in nth : TRUE

\* What the c-th call in a row (from 0) of yaf_get_free_inode or
\* yaf_get_free_dblock returns: clear bits in order, and NotFound from a
\* full bitmap (see YafBitmap).
FreeBit(used, bits, c) ==
  LET free == (0 .. bits - 1) \ used
      nth  == {x \in free : Cardinality({y \in free : y < x}) = c}
  IN  IF nth = {} THEN NotFound ELSE CHOOSE x \in nth : TRUE

\* sb_bread(DNO2BID(dno)) succeeds.
Readable(dno) == dno \in Dno

\* The block that holds entry k of a directory, and the entry.
BlockAt(ind, k) == ind.block[k \div DENTRYS_PER_BLOCK]
EntryAt(bs, ind, k) == bs[BlockAt(ind, k)][k % DENTRYS_PER_BLOCK]
SetEntry(bs, ind, k, e) ==
  [bs EXCEPT ![BlockAt(ind, k)] =
    [@ EXCEPT ![k % DENTRYS_PER_BLOCK] = e]]

\* Both searches of a directory walk its entries in order and stop at the
\* first match or at the first block that cannot be read.
Stops(ind, Match(_)) ==
  {k \in 0 .. ind.size - 1 :
     ~Readable(BlockAt(ind, k)) \/ Match(EntryAt(blocks, ind, k))}

\* _yaf_lookup: where it stops for name n.
Hits(ind, n) == Stops(ind, LAMBDA e : e.d_ino # RESERVED_INO /\ e.d_name = n)

\* The name is found, at Min(Hits(ind, n)).
Found(ind, n) == Hits(ind, n) # {} /\ Readable(BlockAt(ind, Min(Hits(ind, n))))

\* The inode that is called n in a directory, if any.
NamedBy(ind, n) == IF Found(ind, n)
                   THEN EntryAt(blocks, ind, Min(Hits(ind, n))).d_ino
                   ELSE RESERVED_INO

\* The dentries of inode i; they, open files and calls keep it in memory.
Dentries(i) == {p \in Ino \X Names : dcache[p[1]][p[2]] = i}
Reached(i)  == i = ROOT_INO \/ i \in opens \/ Dentries(i) # {}
Held(i)     == i \in stuck \/ \E p \in refs : p[2] = i
Pinned(i)   == Reached(i) \/ Held(i)

\* I_NEW for ever: iget_locked() of such an inode does not return.
Stuck(i) == i \in stuck \ incore

\* No call has the lock of directory d.
Unlocked(d) == \A p \in refs : p[1] # d

\* A directory that path lookup can reach.
IsDir(d) == /\ d \in incore
            /\ icache[d].kind = "dir"
            /\ Reached(d)

\* A regular file that path lookup can reach, or that is open.
IsFile(i) == i \in incore /\ icache[i].kind = "file" /\ Reached(i)

\* iput(): an inode without links is evicted when its last user lets go.
Iput(i) ==
  IF icache[i].nlink = 0 /\ ~Pinned(i)'
  THEN /\ incore' = incore \ {i}
       /\ dirty' = dirty \ {i}
       /\ icache' = [icache EXCEPT ![i] = ZeroInode]
  ELSE UNCHANGED <<incore, dirty, icache>>

\* Wrong: the link is not dropped.
DropNlink_Kept(ind) == ind

\* drop_nlink() on a uint32_t.
DropNlink(ind) == [ind EXCEPT !.nlink = (@ - 1) % U32]

-----------------------------------------------------------------------------
(* yaf_lookup(), called for a name that is not in the dcache. *)

\* The directory's lock is shared with a lookup that hangs.
LookupGuard(d, n) == /\ Running
                     /\ IsDir(d)
                     /\ dcache[d][n] = Uncached
                     /\ \A p \in refs : p[1] = d => Stuck(p[2])

\* The name is in the directory.  yaf_iget() reads the on-disk inode into
\* the struct inode, also when iget_locked() found one in the inode cache.
\* A number out of bounds is an error that changes nothing.
Lookup(d, n) ==
  /\ LookupGuard(d, n)
  /\ Found(icache[d], n)
  /\ LET i == NamedBy(icache[d], n) IN
       /\ ~Stuck(i)
       /\ icache' = [icache EXCEPT ![i] = itable[i]]
       /\ incore' = incore \cup {i}
       /\ dcache' = [dcache EXCEPT ![d][n] = i]
  /\ dirty' = dirty \cup {d}
  /\ UNCHANGED <<ibmap, dbmap, itable, blocks, users, mounted, panic>>

\* The name is not in the directory: d_add() makes a negative dentry.
LookupMiss(d, n) ==
  /\ LookupGuard(d, n)
  /\ Hits(icache[d], n) = {}
  /\ dcache' = [dcache EXCEPT ![d][n] = RESERVED_INO]
  /\ dirty' = dirty \cup {d}
  /\ UNCHANGED <<ibmap, dbmap, itable, blocks, incore, icache, users, mounted, panic>>

\* yaf_iget() cannot read the inode ("eio_iget"): it neither unlocks nor puts
\* the struct inode that iget_locked() returned.
LookupLeaks(d, n) ==
  /\ "eio_iget" \in Env
  /\ LookupGuard(d, n)
  /\ Found(icache[d], n)
  /\ LET i == NamedBy(icache[d], n) IN
       /\ ~Stuck(i)
       /\ stuck' = stuck \cup {i}
  /\ UNCHANGED <<disk, incore, icache, dirty, dcache, opens, refs, mounted, panic>>

\* The inode is stuck: iget_locked() waits for ever, with the directory's lock.
LookupHangs(d, n) ==
  /\ LookupGuard(d, n)
  /\ Found(icache[d], n)
  /\ Stuck(NamedBy(icache[d], n))
  /\ refs' = refs \cup {<<d, NamedBy(icache[d], n)>>}
  /\ UNCHANGED <<disk, incore, icache, dirty, dcache, opens, stuck, mounted, panic>>

-----------------------------------------------------------------------------
(* yaf_create(), yaf_mkdir(), called for a negative dentry.  Env says what  *)
(* users make: files ("file"), directories ("dir") or both.                *)

\* yaf_get_free_dentry: the slot it returns is the first unused entry, or
\* one more at the end, for which a block is allocated if there is no room.
Unused(ind)    == Stops(ind, LAMBDA e : e.d_ino = RESERVED_INO)
SlotFor(ind)   == IF Unused(ind) = {} THEN ind.size ELSE Min(Unused(ind))
Grows(ind)     == Unused(ind) = {}
NeedsBlock(ind) == Grows(ind) /\ ind.size % DENTRYS_PER_BLOCK = 0

\* Which of some calls of yaf_get_free_dblock cannot read a block of the data
\* bitmap ("eio_dbmap").  Such a call returns 0, a data block, and marks nothing.
Unread(calls) == IF "eio_dbmap" \in Env THEN SUBSET calls ELSE {{}}
FreeDno(U)    == IF U = {} THEN FreeBit(dbmap, DATA_BITS, 0) ELSE 0

\* The directory's inode when yaf_get_free_dentry returns.
DirFor(ind, U) ==
  IF ~Grows(ind) THEN ind
  ELSE [ind EXCEPT !.size = @ + 1,
                   !.block = IF NeedsBlock(ind)
                             THEN [@ EXCEPT ![ind.size \div DENTRYS_PER_BLOCK] = FreeDno(U)]
                             ELSE @]

\* Wrong: the block of a directory that grows is not marked as used.
DbmapFor_Unmarked(ind, U) == dbmap

DbmapFor(ind, U) ==
  IF NeedsBlock(ind) /\ U = {} THEN dbmap \cup ({FreeDno(U)} \ {NotFound}) ELSE dbmap

\* BlocksFor_Stale, BlocksFor_Cleared: wrong, the new last entry is not marked
\* as unused, and its whole block is.
BlocksFor_Stale(ind, U) == blocks

BlocksFor_Cleared(ind, U) ==
  IF ~Grows(ind) THEN blocks
  ELSE [blocks EXCEPT ![BlockAt(DirFor(ind, U), ind.size)] =
          [s \in Slot |-> [@[s] EXCEPT !.d_ino = RESERVED_INO]]]

\* A new last entry is marked as unused, and the others of its block are not.
BlocksFor(ind, U) ==
  IF ~Grows(ind) THEN blocks
  ELSE SetEntry(blocks, DirFor(ind, U), ind.size,
                [EntryAt(blocks, DirFor(ind, U), ind.size) EXCEPT !.d_ino = RESERVED_INO])

\* yaf_get_free_dentry fails.  -EIO and -ENOSPC become huge uint64_t offsets
\* in _yaf_create, whose test doff < 0 is never true, and index i_block far
\* out of bounds; the other two are failed assertions.
NoSlot(ind, U) ==
  \/ ~Grows(ind) /\ ~Readable(BlockAt(ind, SlotFor(ind)))
  \/ Grows(ind) /\ ind.size = MAX_DENTRYS
  \/ /\ Grows(ind) /\ ind.size < MAX_DENTRYS
     /\ \/ NeedsBlock(ind) /\ BlockAt(ind, ind.size) # RESERVED_DNO
        \/ ~Readable(BlockAt(DirFor(ind, U), ind.size))

FreeIno == FreeBit(ibmap, INODE_BITS, 0)

CreateGuard(d, n) ==
  Running /\ IsDir(d) /\ dcache[d][n] = RESERVED_INO /\ Unlocked(d)

\* The number may be that of an inode which is still in memory because the call
\* that removed it has not let go, or because it is open: iget_locked() returns
\* that struct inode, and yaf_new_inode() makes it the new one.
Create(d, n, k, U) ==
  /\ CreateGuard(d, n)
  /\ ~NoSlot(icache[d], U)
  /\ FreeIno < NR_INODES /\ ~Stuck(FreeIno)
  /\ LET i == FreeIno
         dir == DirFor(icache[d], U)
     IN  /\ ibmap' = ibmap \cup {i}
         /\ dbmap' = DbmapFor(icache[d], U)
         /\ blocks' = SetEntry(BlocksFor(icache[d], U), dir, SlotFor(icache[d]),
                               [d_ino |-> i, d_name |-> n])
         /\ icache' = [icache EXCEPT ![i] = NewInode(k),
                                     ![d] = [dir EXCEPT !.nlink = (@ + 1) % U32]]
         /\ incore' = incore \cup {i}
         /\ dirty' = dirty \cup {i, d}
         /\ dcache' = [dcache EXCEPT ![d][n] = i]
  /\ UNCHANGED <<itable, users, mounted, panic>>

\* There is a slot and no inode for it: a directory that was extended stays
\* extended.
Extend(d, U) ==
  /\ ~NoSlot(icache[d], U)
  /\ dbmap' = DbmapFor(icache[d], U)
  /\ blocks' = BlocksFor(icache[d], U)
  /\ icache' = [icache EXCEPT ![d] = DirFor(@, U)]
  /\ dirty' = IF Grows(icache[d]) THEN dirty \cup {d} ELSE dirty

\* Wrong: inc_nlink(dir) before yaf_new_inode().
CreateNoInode_Linked(d, n, U) ==
  /\ CreateGuard(d, n)
  /\ ~NoSlot(icache[d], U)
  /\ FreeIno \in NR_INODES .. INODE_BITS - 1
  /\ dbmap' = DbmapFor(icache[d], U)
  /\ blocks' = BlocksFor(icache[d], U)
  /\ icache' = [icache EXCEPT ![d] = [DirFor(@, U) EXCEPT !.nlink = (@ + 1) % U32]]
  /\ dirty' = dirty \cup {d}
  /\ UNCHANGED <<ibmap, itable, incore, dcache, users, mounted, panic>>

\* yaf_iget() rejects the inode number, which is put back, or a block cannot be
\* read ("eio"): that of the slot or of the inode bitmap.
CreateNoInode(d, n, U) ==
  /\ CreateGuard(d, n)
  /\ FreeIno \in NR_INODES .. INODE_BITS - 1 \/ "eio" \in Env
  /\ Extend(d, U)
  /\ UNCHANGED <<ibmap, itable, incore, dcache, users, mounted, panic>>

\* yaf_iget() cannot read the inode ("eio_iget"): the number is put back, and
\* the struct inode stays behind as in LookupLeaks.
CreateLeaks(d, n, U) ==
  /\ "eio_iget" \in Env
  /\ CreateGuard(d, n)
  /\ FreeIno < NR_INODES /\ ~Stuck(FreeIno)
  /\ Extend(d, U)
  /\ stuck' = stuck \cup {FreeIno}
  /\ UNCHANGED <<ibmap, itable, incore, dcache, opens, refs, mounted, panic>>

\* The number is that of a stuck inode: the call never returns, and neither the
\* number nor the directory's lock comes back.
CreateHangs(d, n, U) ==
  /\ CreateGuard(d, n)
  /\ FreeIno < NR_INODES /\ Stuck(FreeIno)
  /\ Extend(d, U)
  /\ ibmap' = ibmap \cup {FreeIno}
  /\ refs' = refs \cup {<<d, FreeIno>>}
  /\ UNCHANGED <<itable, incore, dcache, opens, stuck, mounted, panic>>

\* No slot, also when the directory cannot be read ("eio"), or a full inode
\* bitmap: NotFound is put back into a bitmap block that does not exist, and
\* assert(bh) fails.
CreatePanics(d, n, U) ==
  /\ CreateGuard(d, n)
  /\ NoSlot(icache[d], U) \/ FreeIno = NotFound \/ "eio" \in Env
  /\ panic' = TRUE
  /\ UNCHANGED <<disk, incore, icache, dirty, dcache, users, mounted>>

-----------------------------------------------------------------------------
(* yaf_unlink() and yaf_rmdir(). *)

\* Wrong: rmdir does not look at the links.
DeleteGuard_Any(d, n) ==
  /\ Running
  /\ IsDir(d)
  /\ dcache[d][n] \notin {Uncached, RESERVED_INO}
  /\ Unlocked(d) /\ Unlocked(dcache[d][n])

\* A directory is removed only with no more than one link; a file that is
\* open, if users do that ("open").
DeleteGuard(d, n) ==
  /\ Running
  /\ IsDir(d)
  /\ dcache[d][n] \notin {Uncached, RESERVED_INO}
  /\ Unlocked(d) /\ Unlocked(dcache[d][n])
  /\ LET ind == icache[dcache[d][n]] IN ind.kind = "dir" => ind.nlink <= 1

\* Covered_Less, Covered_More: wrong, the loop over i_size ends one block early
\* or one block late.
Covered_Less(ind) == {b \in Bidx : (b + 1) * DENTRYS_PER_BLOCK < ind.size}
Covered_More(ind) == {b \in Bidx : b * DENTRYS_PER_BLOCK <= ind.size}

\* The blocks yaf_delete puts back: as many as i_size says.
Covered(ind) == {b \in Bidx : b * DENTRYS_PER_BLOCK < ind.size}
Freed(ind)   == {ind.block[b] : b \in Covered(ind)}

\* The assertions of yaf_put_dblock, yaf_put_inode and yaf_put_bit hold.
CanFree(i, ind) == /\ Freed(ind) \subseteq dbmap
                   /\ Cardinality(Freed(ind)) = Cardinality(Covered(ind))
                   /\ i \in ibmap

LastLink(i) == DropNlink(icache[i]).nlink <= 1

\* Wrong: the dentry stays as it was.
Unhashed_Kept(d, n, i) == [dcache EXCEPT ![i] = NoDentries]

\* What the VFS does with the dentry (d_delete): it becomes negative, or is
\* dropped while the file is open.  rmdir also drops the dentries below it.
Unhashed(d, n, i) ==
  [[dcache EXCEPT ![i] = NoDentries]
     EXCEPT ![d][n] = IF i \in opens THEN Uncached ELSE RESERVED_INO]

\* Wrong: the last entry of the directory goes, whatever its name is.
RemoveEntry_Last(d, n, i) ==
  LET k == icache[d].size - 1 IN
  blocks' = SetEntry(blocks, icache[d], k,
                     [EntryAt(blocks, icache[d], k) EXCEPT !.d_ino = RESERVED_INO])

\* yaf_delete up to the test of i_nlink: the entry is unused, and both inodes
\* have lost a link.
RemoveEntry(d, n, i) ==
  LET k == Min(Hits(icache[d], n)) IN
  blocks' = SetEntry(blocks, icache[d], k,
                     [EntryAt(blocks, icache[d], k) EXCEPT !.d_ino = RESERVED_INO])
Dropped(d, i) == [icache EXCEPT ![d] = DropNlink(@), ![i] = DropNlink(@)]

\* unlink and rmdir keep a reference to the inode and drop it when everything
\* else is done: unlink after the directory was unlocked, rmdir before.  A pair
\* in refs may stand for several calls: letting go of any but the last changes
\* nothing.
HeldBy(d, i) == <<IF icache[i].kind = "dir" THEN d ELSE RESERVED_INO, i>>

\* The last link: blocks and inode are put back.
Delete(d, n) ==
  /\ DeleteGuard(d, n)
  /\ Found(icache[d], n)
  /\ LET i == dcache[d][n] IN
       /\ LastLink(i)
       /\ CanFree(i, icache[i])
       /\ RemoveEntry(d, n, i)
       /\ dbmap' = dbmap \ Freed(icache[i])
       /\ ibmap' = ibmap \ {i}
       /\ dcache' = Unhashed(d, n, i)
       /\ dirty' = dirty \cup {d, i}
       /\ icache' = Dropped(d, i)
       /\ refs' = refs \cup {HeldBy(d, i)}
  /\ UNCHANGED <<itable, incore, opens, stuck, mounted, panic>>

\* Wrong: no mark_inode_dirty() for the inode that lost a link.
DeleteLinked_Clean(d, n) ==
  /\ DeleteGuard(d, n)
  /\ Found(icache[d], n)
  /\ LET i == dcache[d][n] IN
       /\ ~LastLink(i)
       /\ RemoveEntry(d, n, i)
       /\ dcache' = Unhashed(d, n, i)
       /\ dirty' = dirty \cup {d}
       /\ icache' = Dropped(d, i)
       /\ refs' = refs \cup {HeldBy(d, i)}
  /\ UNCHANGED <<ibmap, dbmap, itable, incore, opens, stuck, mounted, panic>>

\* "there still other link for this inode".
DeleteLinked(d, n) ==
  /\ DeleteGuard(d, n)
  /\ Found(icache[d], n)
  /\ LET i == dcache[d][n] IN
       /\ ~LastLink(i)
       /\ RemoveEntry(d, n, i)
       /\ dcache' = Unhashed(d, n, i)
       /\ dirty' = dirty \cup {d, i}
       /\ icache' = Dropped(d, i)
       /\ refs' = refs \cup {HeldBy(d, i)}
  /\ UNCHANGED <<ibmap, dbmap, itable, incore, opens, stuck, mounted, panic>>

\* The entry is not there, a bit that is put back is not set, or a block cannot
\* be read: of the directory or the inode bitmap ("eio"), or of the data bitmap.
DeletePanics(d, n) ==
  /\ DeleteGuard(d, n)
  /\ LET i == dcache[d][n] IN
       \/ ~Found(icache[d], n)
       \/ LastLink(i) /\ ~CanFree(i, icache[i])
       \/ "eio" \in Env
       \/ LastLink(i) /\ Covered(icache[i]) # {} /\ "eio_dbmap" \in Env
  /\ panic' = TRUE
  /\ UNCHANGED <<disk, incore, icache, dirty, dcache, users, mounted>>

\* The call lets go of the inode it removed, and of the directory's lock.
Release(p) ==
  /\ Running
  /\ p \in refs /\ ~Stuck(p[2])
  /\ refs' = refs \ {p}
  /\ UNCHANGED <<disk, dcache, opens, stuck, mounted, panic>>
  /\ Iput(p[2])

-----------------------------------------------------------------------------
(* Writing to a file: yaf_write_begin(), yaf_get_block(), yaf_write_end(). *)

\* The number of blocks a file has: the entries of i_block before the first
\* RESERVED_DNO.
NrBlocks(ind) == Min({b \in Bidx : ind.block[b] = RESERVED_DNO} \cup {YAF_IBLOCKS})

\* yaf_get_block(create = 1) allocates every block up to block b; U are those
\* for which the bitmap cannot be read.
Allocated(ind, b, U) ==
  [c \in Bidx |->
     IF ~(NrBlocks(ind) <= c /\ c <= b) THEN ind.block[c]
     ELSE IF c \in U THEN 0
     ELSE FreeBit(dbmap, DATA_BITS, Cardinality((NrBlocks(ind) .. c - 1) \ U))]

GetBlock(i, b, U) ==
  dbmap' = dbmap \cup ({Allocated(icache[i], b, U)[c] :
                           c \in (NrBlocks(icache[i]) .. b) \ U} \ {NotFound})

\* Writing to block b of the file; a block past YAF_IBLOCKS is refused before
\* anything changes.  The data goes to the block unless it is off the device.
Write(i, b, U) ==
  /\ Running
  /\ IsFile(i)
  /\ GetBlock(i, b, U)
  /\ LET block == Allocated(icache[i], b, U) IN
       /\ icache' = [icache EXCEPT ![i].block = block,
                                   ![i].size = Max({@, (b + 1) * DENTRYS_PER_BLOCK})]
       /\ blocks' = IF Readable(block[b])
                    THEN [blocks EXCEPT ![block[b]] = [s \in Slot |-> FileData]]
                    ELSE blocks
  /\ dirty' = dirty \cup {i}
  /\ UNCHANGED <<ibmap, itable, incore, dcache, users, mounted, panic>>

\* The copy of the data fails after yaf_write_begin ("writefail"): the blocks
\* stay allocated and i_size stays as it was.
WriteFails(i, b, U) ==
  /\ "writefail" \in Env
  /\ Running
  /\ IsFile(i)
  /\ NrBlocks(icache[i]) <= b
  /\ GetBlock(i, b, U)
  /\ icache' = [icache EXCEPT ![i].block = Allocated(icache[i], b, U)]
  /\ dirty' = dirty \cup {i}
  /\ UNCHANGED <<ibmap, itable, blocks, incore, dcache, users, mounted, panic>>

-----------------------------------------------------------------------------
(* What the VFS does by itself (external), with yaf_write_inode(),         *)
(* yaf_fill_super() and yaf_kill_sb().                                     *)

\* truncate() and O_TRUNC ("truncate"): yaf has no setattr, and the VFS's own
\* changes i_size only.
Truncate(i, size) ==
  /\ "truncate" \in Env
  /\ Running
  /\ IsFile(i)
  /\ icache' = [icache EXCEPT ![i].size = size]
  /\ dirty' = dirty \cup {i}
  /\ UNCHANGED <<disk, incore, dcache, users, mounted, panic>>

\* Keeping a file open ("open"), perhaps past its unlink().
Open(i) ==
  /\ "open" \in Env
  /\ Running
  /\ IsFile(i) /\ Dentries(i) # {}
  /\ opens' = opens \cup {i}
  /\ UNCHANGED <<disk, incore, icache, dirty, dcache, refs, stuck, mounted, panic>>

Close(i) ==
  /\ Running
  /\ i \in opens
  /\ opens' = opens \ {i}
  /\ UNCHANGED <<disk, dcache, refs, stuck, mounted, panic>>
  /\ Iput(i)

\* Writeback of one inode before unmounting ("writeback").
WriteInode(i) ==
  /\ "writeback" \in Env
  /\ Running
  /\ i \in dirty
  /\ itable' = [itable EXCEPT ![i] = icache[i]]
  /\ dirty' = dirty \ {i}
  /\ UNCHANGED <<ibmap, dbmap, blocks, incore, icache, dcache, users, mounted, panic>>

\* Memory pressure ("pressure"): a dentry that no call uses goes, and later a
\* clean inode without users.
ShrinkDentry(d, n) ==
  /\ "pressure" \in Env
  /\ Running
  /\ dcache[d][n] # Uncached
  /\ dcache' = [dcache EXCEPT ![d][n] = Uncached]
  /\ UNCHANGED <<disk, users, mounted, panic>>
  /\ IF dcache[d][n] = RESERVED_INO
     THEN UNCHANGED <<incore, dirty, icache>>
     ELSE LET i == dcache[d][n] IN
            /\ i \notin opens
            /\ dcache[i] = NoDentries
            /\ Unlocked(i)
            /\ Iput(i)

EvictInode(i) ==
  /\ "pressure" \in Env
  /\ Running
  /\ i \in incore \ dirty
  /\ ~Pinned(i)
  /\ incore' = incore \ {i}
  /\ icache' = [icache EXCEPT ![i] = ZeroInode]
  /\ UNCHANGED <<disk, dirty, dcache, users, mounted, panic>>

\* umount, when no call or open file uses the mount, writes the dirty inodes and
\* drops the caches; what a failed yaf_iget left behind is of no mount any more.
Umount ==
  /\ "umount" \in Env
  /\ Running
  /\ opens = {} /\ refs = {}
  /\ itable' = [i \in Ino |-> IF i \in dirty THEN icache[i] ELSE itable[i]]
  /\ incore' = {}
  /\ icache' = [i \in Ino |-> ZeroInode]
  /\ dirty' = {}
  /\ dcache' = [i \in Ino |-> NoDentries]
  /\ stuck' = {}
  /\ mounted' = FALSE
  /\ UNCHANGED <<ibmap, dbmap, blocks, opens, refs, panic>>

\* yaf_fill_super gets the root inode.
Mount ==
  /\ ~mounted
  /\ incore' = {ROOT_INO}
  /\ icache' = [icache EXCEPT ![ROOT_INO] = itable[ROOT_INO]]
  /\ mounted' = TRUE
  /\ UNCHANGED <<disk, dirty, dcache, users, panic>>

-----------------------------------------------------------------------------
CreateStep(d, n, U) ==
  \/ \E k \in {"file", "dir"} \cap Env : Create(d, n, k, U)
  \/ CreateNoInode(d, n, U) \/ CreateLeaks(d, n, U) \/ CreateHangs(d, n, U)
  \/ CreatePanics(d, n, U)

NamespaceStep(d, n) ==
  \/ Lookup(d, n) \/ LookupMiss(d, n) \/ LookupLeaks(d, n) \/ LookupHangs(d, n)
  \/ \E U \in Unread({0}) : CreateStep(d, n, U)
  \/ Delete(d, n) \/ DeleteLinked(d, n) \/ DeletePanics(d, n)
  \/ ShrinkDentry(d, n)

InodeStep(i) ==
  \/ \E b \in Bidx : \E U \in Unread(0 .. b) : Write(i, b, U) \/ WriteFails(i, b, U)
  \/ \E c \in 0 .. YAF_IBLOCKS : Truncate(i, c * DENTRYS_PER_BLOCK)
  \/ Open(i) \/ Close(i) \/ WriteInode(i) \/ EvictInode(i)

Next == \/ \E d \in Ino, n \in Names : NamespaceStep(d, n)
        \/ \E i \in Ino : InodeStep(i)
        \/ \E p \in refs : Release(p)
        \/ Umount \/ Mount

Spec == Init /\ [][Next]_vars

-----------------------------------------------------------------------------
(* Properties. *)

TypeOK ==
  /\ ibmap \subseteq 0 .. INODE_BITS - 1
  /\ dbmap \subseteq 0 .. DATA_BITS - 1
  /\ itable \in [Ino -> Inode]
  /\ blocks \in [Dno -> [Slot -> Dentry]]
  /\ incore \subseteq Ino
  /\ icache \in [Ino -> Inode]
  /\ dirty \subseteq Ino
  /\ dcache \in [Ino -> [Names -> Ino \cup {Uncached}]]
  /\ opens \subseteq Ino
  /\ refs \subseteq Ino \X Ino
  /\ stuck \subseteq Ino
  /\ mounted \in BOOLEAN
  /\ panic \in BOOLEAN

\* The inode as the file system sees it: the struct inode if there is one.
View(i) == IF i \in incore THEN icache[i] ELSE itable[i]

Used == (ibmap \cap Ino) \ {RESERVED_INO}
Entry(d, n) == IF d \in Used /\ View(d).kind = "dir"
               THEN NamedBy(View(d), n) ELSE RESERVED_INO

\* The namespace seen through the caches is a tree that only create, mkdir,
\* unlink and rmdir change, each of them by one entry: a directory that is
\* removed is empty, a new file gets an inode nobody uses, and neither stale
\* blocks nor writeback nor mounting again make an entry appear or vanish.
Tree == INSTANCE YafTree WITH
          RESERVED <- RESERVED_INO, ROOT <- ROOT_INO,
          kind <- [i \in Ino |-> IF i \in Used THEN View(i).kind ELSE "free"],
          ent  <- [d \in Ino |-> [n \in Names |-> Entry(d, n)]]

TreeSpec == Tree!Spec

\* i_nlink of a directory is one more than its entries, the number rmdir
\* relies on to tell an empty directory (inode.c:376).
NlinkCounts ==
  \A d \in Used : View(d).kind = "dir" =>
    View(d).nlink = 1 + Cardinality({n \in Names : Entry(d, n) # RESERVED_INO})

\* The places of the i_block arrays that hold a block, and the block there.
BlockIn(p) == View(p[1]).block[p[2]]
Places == {p \in Used \X Bidx : BlockIn(p) # RESERVED_DNO}

\* A data block that an inode uses is marked as used and is in no other
\* place of any inode.
BlocksExclusive ==
  \A p \in Places : /\ BlockIn(p) \in dbmap
                    /\ \A q \in Places \ {p} : BlockIn(p) # BlockIn(q)

\* No block is lost: a data block that is marked as used is in some inode,
\* also after files and directories that grew are removed.
NoLeak == \A x \in dbmap : \E p \in Places : BlockIn(p) = x

\* A cached dentry, positive or negative, says what the directory says: a
\* name that is taken is never created again, and one that is free is found
\* to be free.
DcacheAgrees ==
  \A d \in Ino, n \in Names :
    dcache[d][n] # Uncached => d \in Used /\ dcache[d][n] = Entry(d, n)

\* No assertion of inode.c or bitmap.c fails, and no index is out of bounds.
NoPanic == ~panic

\* An inode that is clean is on the disk as it is in memory: every path of
\* every operation that changes an inode marks it dirty.
CleanMatchesDisk == \A i \in incore \ dirty : icache[i] = itable[i]

\* An inode in memory whose number is free is one that a call still holds, and
\* it goes when the call lets go: no removed inode stays behind in the cache,
\* whether or not its number was handed out again in between.
FreedLeaves == \A i \in incore : i \in Used \/ Held(i)

\* "Return an unused inode number and mark it used" (bitmap.c:28): a number
\* that is handed out is not the number of an inode still in memory, whose
\* struct inode yaf_iget would then give to the new file.
FreshIno == [][\A i \in ibmap' \ ibmap : i \notin incore]_vars
==============================================================================
