--------------------------- MODULE YafInode_proofs ---------------------------
(***************************************************************************)
(* Proofs about YafInode, for every size of the disk and whatever users    *)
(* and the kernel do (Env).                                                *)
(***************************************************************************)
EXTENDS YafInode, YafNumbers

(* Numbers. *)

\* The position of an entry in its directory lies in the block array.
LEMMA Position ==
  ASSUME NEW k \in 0 .. MAX_DENTRYS - 1
  PROVE  k \div DENTRYS_PER_BLOCK \in Bidx /\ k % DENTRYS_PER_BLOCK \in Slot
<1>1. /\ k \div DENTRYS_PER_BLOCK \in Nat
      /\ k % DENTRYS_PER_BLOCK \in 0 .. DENTRYS_PER_BLOCK - 1
      /\ k = DENTRYS_PER_BLOCK * (k \div DENTRYS_PER_BLOCK) + (k % DENTRYS_PER_BLOCK)
  BY InodeAssumption
<1>2. k \div DENTRYS_PER_BLOCK < YAF_IBLOCKS
  <2> DEFINE q == k \div DENTRYS_PER_BLOCK
  <2>1. SUFFICES ASSUME q >= YAF_IBLOCKS PROVE FALSE
    BY <1>1, InodeAssumption
  <2>2. DENTRYS_PER_BLOCK * q >= DENTRYS_PER_BLOCK * YAF_IBLOCKS
    BY <1>1, <2>1, InodeAssumption
  <2> QED BY <1>1, <2>2, InodeAssumption DEF MAX_DENTRYS
<1> QED BY <1>1, <1>2, InodeAssumption DEF Bidx, Slot

\* The reserved words are words, and inode numbers are.
LEMMA Words ==
  /\ RESERVED_DNO \in Word /\ NotFound \in Word
  /\ ROOT_INO \in Ino /\ RESERVED_INO \in Ino
  /\ \A w \in Word : (w + 1) % U32 \in Word /\ (w - 1) % U32 \in Word
  /\ MAX_DENTRYS \in Nat
  BY InodeAssumption DEF RESERVED_DNO, NotFound, ROOT_INO, RESERVED_INO, Word, Ino,
     MAX_DENTRYS

\* The search of a bitmap returns a bit of the bitmap or NotFound.
LEMMA FreeBitRange ==
  ASSUME NEW used, NEW bits \in Nat, NEW c
  PROVE  FreeBit(used, bits, c) \in (0 .. bits - 1) \cup {NotFound}
  BY DEF FreeBit

LEMMA FreeBits ==
  /\ FreeIno \in 0 .. INODE_BITS - 1 \/ FreeIno = NotFound
  /\ \A c : /\ FreeBit(dbmap, DATA_BITS, c) \in Word
            /\ FreeBit(dbmap, DATA_BITS, c) \in (0 .. DATA_BITS - 1) \cup {NotFound}
<1>1. INODE_BITS \in Nat /\ DATA_BITS \in Nat
  BY InodeAssumption
<1>2. FreeIno \in 0 .. INODE_BITS - 1 \/ FreeIno = NotFound
  BY <1>1, FreeBitRange DEF FreeIno
<1>3. \A c : FreeBit(dbmap, DATA_BITS, c) \in (0 .. DATA_BITS - 1) \cup {NotFound}
  BY <1>1, FreeBitRange
<1>4. (0 .. DATA_BITS - 1) \cup {NotFound} \subseteq Word
  BY Words, InodeAssumption DEF Word, NotFound
<1> QED BY <1>2, <1>3, <1>4

-----------------------------------------------------------------------------
(* Directories. *)

\* New inodes, and file data read as an entry, have their types.
LEMMA Constants ==
  /\ ZeroInode \in Inode
  /\ \A k \in {"file", "dir"} : NewInode(k) \in Inode
  /\ FileData \in Dentry
  /\ NoDentries \in [Names -> Ino \cup {Uncached}]
<1>1. (CHOOSE n \in Names : TRUE) \in Names
  BY InodeAssumption
<1>2. 0 \in Word /\ 1 \in Word
  BY InodeAssumption DEF Word, NotFound
<1> QED BY <1>1, <1>2, Words DEF ZeroInode, NewInode, Inode, FileData, Dentry, NoDentries

\* The entries a search may stop at are entries of the directory.
LEMMA StopsInside ==
  ASSUME NEW ind \in Inode, NEW n
  PROVE  /\ Hits(ind, n) \subseteq 0 .. ind.size - 1
         /\ Unused(ind) \subseteq 0 .. ind.size - 1
         /\ ind.size \in 0 .. MAX_DENTRYS
         /\ 0 .. ind.size - 1 \subseteq 0 .. MAX_DENTRYS - 1
  BY Words DEF Hits, Unused, Stops, Inode

LEMMA StopsAt ==
  ASSUME NEW ind \in Inode, NEW n
  PROVE  /\ Hits(ind, n) # {} => Min(Hits(ind, n)) \in 0 .. MAX_DENTRYS - 1
         /\ Unused(ind) # {} => Min(Unused(ind)) \in 0 .. MAX_DENTRYS - 1
<1>1. Hits(ind, n) \in SUBSET Nat /\ Unused(ind) \in SUBSET Nat
  BY StopsInside, Words
<1>2. Hits(ind, n) # {} => Min(Hits(ind, n)) \in Hits(ind, n)
  BY <1>1, MinIn
<1>3. Unused(ind) # {} => Min(Unused(ind)) \in Unused(ind)
  BY <1>1, MinIn
<1> QED BY <1>2, <1>3, StopsInside

Blocks == [Dno -> [Slot -> Dentry]]

LEMMA EntryType ==
  ASSUME NEW bs \in Blocks, NEW ind \in Inode, NEW k \in 0 .. MAX_DENTRYS - 1,
         Readable(BlockAt(ind, k))
  PROVE  EntryAt(bs, ind, k) \in Dentry
  BY Position DEF Blocks, Readable, EntryAt

LEMMA SetEntryType ==
  ASSUME NEW bs \in Blocks, NEW ind \in Inode, NEW k \in 0 .. MAX_DENTRYS - 1,
         NEW e \in Dentry
  PROVE  SetEntry(bs, ind, k, e) \in Blocks
  BY Position DEF Blocks, SetEntry

\* A name that is found is the name of an inode of the table.
LEMMA NamedType ==
  ASSUME TypeOK, NEW ind \in Inode, NEW n, Found(ind, n)
  PROVE  NamedBy(ind, n) \in Ino
<1>1. Min(Hits(ind, n)) \in 0 .. MAX_DENTRYS - 1
  BY StopsAt DEF Found
<1>2. EntryAt(blocks, ind, Min(Hits(ind, n))) \in Dentry
  BY <1>1, EntryType DEF Found, TypeOK, Blocks
<1> QED BY <1>2 DEF NamedBy, Dentry

\* yaf_get_free_dentry keeps the directory an inode, its size in bounds and
\* the blocks dentries.
LEMMA SlotType ==
  ASSUME TypeOK, NEW ind \in Inode, NEW U, ~NoSlot(ind, U)
  PROVE  /\ DirFor(ind, U) \in Inode
         /\ SlotFor(ind) \in 0 .. MAX_DENTRYS - 1
         /\ BlocksFor(ind, U) \in Blocks
         /\ DbmapFor(ind, U) \subseteq 0 .. DATA_BITS - 1
<1>1. /\ FreeDno(U) \in Word
      /\ U = {} => FreeDno(U) \in (0 .. DATA_BITS - 1) \cup {NotFound}
  <2>1. 0 \in Word
    BY InodeAssumption DEF Word, NotFound
  <2> QED BY <2>1, FreeBits DEF FreeDno
<1>2. DbmapFor(ind, U) \subseteq 0 .. DATA_BITS - 1
  BY <1>1 DEF DbmapFor, TypeOK
<1>3. CASE ~Grows(ind)
  BY <1>2, <1>3, StopsAt DEF DirFor, SlotFor, BlocksFor, Grows, TypeOK, Blocks
<1>4. CASE Grows(ind)
  <2>1. ind.size \in 0 .. MAX_DENTRYS - 1
    BY <1>4, Words DEF NoSlot, Inode
  <2>2. DirFor(ind, U) \in Inode
    <3> DEFINE bl == IF NeedsBlock(ind)
                     THEN [ind.block EXCEPT ![ind.size \div DENTRYS_PER_BLOCK] = FreeDno(U)]
                     ELSE ind.block
    <3>1. bl \in [Bidx -> Word]
      BY <1>1 DEF Inode
    <3>2. DirFor(ind, U) = [ind EXCEPT !.size = @ + 1, !.block = bl]
      BY <1>4 DEF DirFor
    <3> HIDE DEF bl
    <3>3. ind.size + 1 \in 0 .. MAX_DENTRYS
      BY <2>1, Words
    <3> QED BY <3>1, <3>2, <3>3 DEF Inode
  <2>3. SlotFor(ind) = ind.size
    BY <1>4 DEF SlotFor, Grows
  <2>4. Readable(BlockAt(DirFor(ind, U), ind.size))
    BY <1>4, <2>1, Words DEF NoSlot
  <2>5. EntryAt(blocks, DirFor(ind, U), ind.size) \in Dentry
    BY <2>1, <2>2, <2>4, EntryType DEF TypeOK, Blocks
  <2>6. [EntryAt(blocks, DirFor(ind, U), ind.size) EXCEPT !.d_ino = RESERVED_INO] \in Dentry
    BY <2>5, Words DEF Dentry
  <2>7. BlocksFor(ind, U) \in Blocks
    BY <1>4, <2>1, <2>2, <2>6, SetEntryType DEF BlocksFor, TypeOK, Blocks
  <2> QED BY <1>2, <2>1, <2>2, <2>3, <2>7
<1> QED BY <1>3, <1>4

-----------------------------------------------------------------------------
(* Steps. *)

\* An inode, and a dentry's inode.
LEMMA DentryTypes ==
  ASSUME TypeOK, NEW d \in Ino, NEW n \in Names
  PROVE  /\ icache[d] \in Inode /\ itable[d] \in Inode
         /\ dcache[d][n] # Uncached => dcache[d][n] \in Ino
  BY DEF TypeOK

\* Losing a link keeps an inode an inode.
LEMMA DropType == \A ind \in Inode : DropNlink(ind) \in Inode
  BY Words DEF DropNlink, Inode

\* The entry that yaf_delete clears is an entry.
LEMMA RemoveType ==
  ASSUME TypeOK, NEW d \in Ino, NEW n \in Names, NEW i, Found(icache[d], n),
         RemoveEntry(d, n, i)
  PROVE  blocks' \in Blocks
<1> DEFINE k == Min(Hits(icache[d], n))
<1>1. icache[d] \in Inode /\ blocks \in Blocks
  BY DEF TypeOK, Blocks
<1>2. k \in 0 .. MAX_DENTRYS - 1
  BY <1>1, StopsAt DEF Found
<1>3. EntryAt(blocks, icache[d], k) \in Dentry
  BY <1>1, <1>2, EntryType DEF Found
<1>4. [EntryAt(blocks, icache[d], k) EXCEPT !.d_ino = RESERVED_INO] \in Dentry
  BY <1>3, Words DEF Dentry
<1> QED BY <1>1, <1>2, <1>4, SetEntryType DEF RemoveEntry

\* yaf_get_block keeps i_block and the bitmap in their types.
LEMMA GetBlockType ==
  ASSUME TypeOK, NEW i \in Ino, NEW b \in Bidx, NEW U, GetBlock(i, b, U)
  PROVE  /\ Allocated(icache[i], b, U) \in [Bidx -> Word]
         /\ dbmap' \subseteq 0 .. DATA_BITS - 1
<1>1. icache[i].block \in [Bidx -> Word]
  BY DEF TypeOK, Inode
<1>2. Allocated(icache[i], b, U) \in [Bidx -> Word]
  <2>1. 0 \in Word
    BY InodeAssumption DEF Word, NotFound
  <2> QED BY <1>1, <2>1, FreeBits DEF Allocated
<1>3. NrBlocks(icache[i]) \in 0 .. YAF_IBLOCKS
  <2> DEFINE S == {c \in Bidx : icache[i].block[c] = RESERVED_DNO} \cup {YAF_IBLOCKS}
  <2>1. S \in SUBSET (0 .. YAF_IBLOCKS) /\ S # {}
    BY InodeAssumption DEF Bidx
  <2>2. S \in SUBSET Nat
    BY <2>1, InodeAssumption
  <2> HIDE DEF S
  <2>3. Min(S) \in S
    BY <2>1, <2>2, MinIn
  <2> QED BY <2>1, <2>3 DEF NrBlocks, S
<1>4. \A c \in (NrBlocks(icache[i]) .. b) \ U :
        Allocated(icache[i], b, U)[c] \in (0 .. DATA_BITS - 1) \cup {NotFound}
  <2> TAKE c \in (NrBlocks(icache[i]) .. b) \ U
  <2>1. c \in Bidx /\ NrBlocks(icache[i]) <= c /\ c <= b
    BY <1>3, InodeAssumption DEF Bidx
  <2> QED BY <2>1, FreeBits DEF Allocated
<1>5. dbmap' \subseteq 0 .. DATA_BITS - 1
  BY <1>4 DEF GetBlock, TypeOK
<1> QED BY <1>2, <1>5

\* iput() of an inode, and what it does to the caches.
LEMMA IputStep ==
  ASSUME TypeOK, CleanMatchesDisk, NEW i \in Ino, Iput(i), UNCHANGED itable
  PROVE  /\ incore' \subseteq Ino /\ dirty' \subseteq Ino
         /\ icache' \in [Ino -> Inode]
         /\ CleanMatchesDisk'
<1>1. CASE icache[i].nlink = 0 /\ ~Pinned(i)'
  BY <1>1, Constants DEF Iput, TypeOK, CleanMatchesDisk
<1>2. CASE ~(icache[i].nlink = 0 /\ ~Pinned(i)')
  BY <1>2 DEF Iput, TypeOK, CleanMatchesDisk
<1> QED BY <1>1, <1>2

\* A call that keeps a reference to an inode, perhaps with a directory's lock.
LEMMA RefType ==
  ASSUME TypeOK, NEW l \in Ino, NEW i \in Ino
  PROVE  refs \cup {<<l, i>>} \subseteq Ino \X Ino
<1>1. <<l, i>> \in Ino \X Ino
  OBVIOUS
<1> QED BY <1>1 DEF TypeOK

\* Extending a directory marks it dirty.
LEMMA ExtendKeeps ==
  ASSUME TypeOK, CleanMatchesDisk, NEW d \in Ino, NEW U, Extend(d, U),
         UNCHANGED <<itable, incore>>
  PROVE  /\ dbmap' \subseteq 0 .. DATA_BITS - 1
         /\ blocks' \in [Dno -> [Slot -> Dentry]]
         /\ icache' \in [Ino -> Inode]
         /\ dirty' \subseteq Ino
         /\ CleanMatchesDisk'
<1>1. icache[d] \in Inode
  BY DEF TypeOK
<1>2. /\ DirFor(icache[d], U) \in Inode
      /\ BlocksFor(icache[d], U) \in Blocks
      /\ DbmapFor(icache[d], U) \subseteq 0 .. DATA_BITS - 1
  BY <1>1, SlotType DEF Extend
<1>3. ~Grows(icache[d]) => DirFor(icache[d], U) = icache[d]
  BY DEF DirFor
<1>4. CleanMatchesDisk'
  BY <1>3 DEF Extend, TypeOK, CleanMatchesDisk
<1> QED BY <1>2, <1>4 DEF Extend, TypeOK, Blocks

IInv == TypeOK /\ CleanMatchesDisk

LEMMA IInvInit == Init => IInv
<1> SUFFICES ASSUME Init PROVE IInv
  OBVIOUS
<1>1. {RESERVED_INO, ROOT_INO} \subseteq 0 .. INODE_BITS - 1
  BY InodeAssumption DEF RESERVED_INO, ROOT_INO
<1> QED BY <1>1, Constants DEF Init, IInv, TypeOK, CleanMatchesDisk

\* Steps on a name of a directory.
LEMMA NamespaceKeeps ==
  ASSUME IInv, NEW d \in Ino, NEW n \in Names, NamespaceStep(d, n)
  PROVE  IInv'
<1> USE DEF IInv
<1>0. icache[d] \in Inode
  BY DentryTypes
<1>1. CASE Lookup(d, n)
  <2>1. NamedBy(icache[d], n) \in Ino
    BY <1>0, <1>1, NamedType DEF Lookup
  <2>2. TypeOK'
    BY <1>1, <2>1 DEF Lookup, users, TypeOK
  <2>3. CleanMatchesDisk'
    BY <1>1, <2>1 DEF Lookup, TypeOK, CleanMatchesDisk
  <2> QED BY <2>2, <2>3
<1>2. CASE LookupMiss(d, n)
  BY <1>2, Words DEF LookupMiss, users, TypeOK, CleanMatchesDisk
<1>9. CASE LookupLeaks(d, n) \/ LookupHangs(d, n)
  <2>1. NamedBy(icache[d], n) \in Ino
    BY <1>0, <1>9, NamedType DEF LookupLeaks, LookupHangs
  <2>2. refs' \subseteq Ino \X Ino
    BY <1>9, <2>1, RefType DEF LookupLeaks, LookupHangs, TypeOK
  <2>3. stuck' \subseteq Ino
    BY <1>9, <2>1 DEF LookupLeaks, LookupHangs, TypeOK
  <2> QED BY <1>9, <2>2, <2>3 DEF LookupLeaks, LookupHangs, disk, TypeOK, CleanMatchesDisk
<1>3. ASSUME NEW U, NEW k \in {"file", "dir"}, Create(d, n, k, U) PROVE IInv'
  <2> DEFINE i == FreeIno
  <2>1. i \in Ino
    BY <1>3, FreeBits, InodeAssumption DEF Create, Ino, NotFound
  <2>2. i \in 0 .. INODE_BITS - 1
    BY <2>1, InodeAssumption DEF Ino
  <2>3. /\ DirFor(icache[d], U) \in Inode
        /\ SlotFor(icache[d]) \in 0 .. MAX_DENTRYS - 1
        /\ BlocksFor(icache[d], U) \in Blocks
        /\ DbmapFor(icache[d], U) \subseteq 0 .. DATA_BITS - 1
    BY <1>0, <1>3, SlotType DEF Create
  <2>4. [DirFor(icache[d], U) EXCEPT !.nlink = (@ + 1) % U32] \in Inode
    BY <2>3, Words DEF Inode
  <2>5. [d_ino |-> i, d_name |-> n] \in Dentry
    BY <2>1 DEF Dentry
  <2>6. blocks' \in Blocks
    BY <1>3, <2>3, <2>5, SetEntryType DEF Create
  <2>7. icache' \in [Ino -> Inode]
    BY <1>3, <2>1, <2>4, Constants DEF Create, TypeOK
  <2>8. TypeOK'
    BY <1>3, <2>1, <2>2, <2>3, <2>6, <2>7 DEF Create, users, TypeOK, Blocks
  <2>9. CleanMatchesDisk'
    BY <1>3, <2>1 DEF Create, TypeOK, CleanMatchesDisk
  <2> QED BY <2>8, <2>9
<1>4. ASSUME NEW U,
             CreateNoInode(d, n, U) \/ CreateLeaks(d, n, U) \/ CreateHangs(d, n, U)
      PROVE  IInv'
  <2>1. FreeIno < NR_INODES => FreeIno \in Ino /\ FreeIno \in 0 .. INODE_BITS - 1
    BY FreeBits, InodeAssumption DEF Ino, NotFound
  <2>2. Extend(d, U) /\ UNCHANGED <<itable, incore, dcache, opens, mounted, panic>>
    BY <1>4 DEF CreateNoInode, CreateLeaks, CreateHangs, users
  <2>3. /\ ibmap' \subseteq 0 .. INODE_BITS - 1
        /\ stuck' \subseteq Ino
    BY <1>4, <2>1 DEF CreateNoInode, CreateLeaks, CreateHangs, users, TypeOK
  <2>6. refs' \subseteq Ino \X Ino
    BY <1>4, <2>1, RefType DEF CreateNoInode, CreateLeaks, CreateHangs, users, TypeOK
  <2>4. /\ dbmap' \subseteq 0 .. DATA_BITS - 1
        /\ blocks' \in [Dno -> [Slot -> Dentry]]
        /\ icache' \in [Ino -> Inode]
        /\ dirty' \subseteq Ino
        /\ CleanMatchesDisk'
    BY <2>2, ExtendKeeps
  <2>5. TypeOK'
    BY <2>2, <2>3, <2>4, <2>6 DEF TypeOK
  <2> QED BY <2>4, <2>5
<1>5. ASSUME NEW U, CreatePanics(d, n, U) \/ DeletePanics(d, n) PROVE IInv'
  BY <1>5 DEF CreatePanics, DeletePanics, disk, users, TypeOK, CleanMatchesDisk
<1>6. CASE Delete(d, n)
  <2> DEFINE i == dcache[d][n]
  <2>1. i \in Ino /\ icache[i] \in Inode
    BY <1>6, DentryTypes DEF Delete, DeleteGuard
  <2>2. Dropped(d, i) \in [Ino -> Inode]
    BY <2>1, DropType DEF Dropped, TypeOK
  <2>3. blocks' \in Blocks
    BY <1>6, RemoveType DEF Delete
  <2>4. dcache' \in [Ino -> [Names -> Ino \cup {Uncached}]]
    BY <1>6, <2>1, Words, Constants DEF Delete, Unhashed, TypeOK
  <2>5. icache' \in [Ino -> Inode]
    BY <1>6, <2>1, <2>2, Constants DEF Delete
  <2>8. refs' \subseteq Ino \X Ino
    BY <1>6, <2>1, Words, RefType DEF Delete, HeldBy
  <2>6. TypeOK'
    BY <1>6, <2>1, <2>3, <2>4, <2>5, <2>8 DEF Delete, TypeOK, Blocks
  <2>7. CleanMatchesDisk'
    BY <1>6, <2>1 DEF Delete, Dropped, TypeOK, CleanMatchesDisk
  <2> QED BY <2>6, <2>7
<1>7. CASE DeleteLinked(d, n)
  <2> DEFINE i == dcache[d][n]
  <2>1. i \in Ino /\ icache[i] \in Inode
    BY <1>7, DentryTypes DEF DeleteLinked, DeleteGuard
  <2>2. Dropped(d, i) \in [Ino -> Inode]
    BY <2>1, DropType DEF Dropped, TypeOK
  <2>3. blocks' \in Blocks
    BY <1>7, RemoveType DEF DeleteLinked
  <2>4. dcache' \in [Ino -> [Names -> Ino \cup {Uncached}]]
    BY <1>7, <2>1, Words, Constants DEF DeleteLinked, Unhashed, TypeOK
  <2>7. refs' \subseteq Ino \X Ino
    BY <1>7, <2>1, Words, RefType DEF DeleteLinked, HeldBy
  <2>5. TypeOK'
    BY <1>7, <2>1, <2>2, <2>3, <2>4, <2>7 DEF DeleteLinked, TypeOK, Blocks
  <2>6. CleanMatchesDisk'
    BY <1>7, <2>1 DEF DeleteLinked, Dropped, TypeOK, CleanMatchesDisk
  <2> QED BY <2>5, <2>6
<1>8. CASE ShrinkDentry(d, n)
  <2>1. dcache' \in [Ino -> [Names -> Ino \cup {Uncached}]]
    BY <1>8 DEF ShrinkDentry, TypeOK
  <2>2. CASE dcache[d][n] = RESERVED_INO
    BY <1>8, <2>1, <2>2 DEF ShrinkDentry, disk, users, TypeOK, CleanMatchesDisk
  <2>3. CASE dcache[d][n] # RESERVED_INO
    <3> DEFINE i == dcache[d][n]
    <3>1. i \in Ino
      BY <1>8, DentryTypes DEF ShrinkDentry
    <3>2. Iput(i) /\ UNCHANGED itable
      BY <1>8, <2>3 DEF ShrinkDentry, disk
    <3> HIDE DEF i
    <3>3. /\ incore' \subseteq Ino /\ dirty' \subseteq Ino
          /\ icache' \in [Ino -> Inode]
          /\ CleanMatchesDisk'
      BY <3>1, <3>2, IputStep
    <3> QED BY <1>8, <2>1, <3>3 DEF ShrinkDentry, disk, users, TypeOK
  <2> QED BY <2>2, <2>3
<1>10. (\E U \in Unread({0}) : CreateStep(d, n, U)) => IInv'
  BY <1>3, <1>4, <1>5 DEF CreateStep
<1> QED BY <1>1, <1>2, <1>5, <1>6, <1>7, <1>8, <1>9, <1>10 DEF NamespaceStep

\* Steps on an inode.
LEMMA InodeKeeps ==
  ASSUME IInv, NEW i \in Ino, InodeStep(i)
  PROVE  IInv'
<1> USE DEF IInv
<1>1. ASSUME NEW b \in Bidx, NEW U, Write(i, b, U) PROVE IInv'
  <2> DEFINE size == Max({icache[i].size, (b + 1) * DENTRYS_PER_BLOCK})
             block == Allocated(icache[i], b, U)
  <2>1. block \in [Bidx -> Word] /\ dbmap' \subseteq 0 .. DATA_BITS - 1
    BY <1>1, GetBlockType DEF Write
  <2>2. (b + 1) * DENTRYS_PER_BLOCK \in 0 .. MAX_DENTRYS
    <3>1. b + 1 \in Nat /\ b + 1 <= YAF_IBLOCKS
      BY InodeAssumption DEF Bidx
    <3>2. (b + 1) * DENTRYS_PER_BLOCK <= YAF_IBLOCKS * DENTRYS_PER_BLOCK
      BY <3>1, InodeAssumption
    <3>3. (b + 1) * DENTRYS_PER_BLOCK \in Nat
      BY <3>1, InodeAssumption
    <3> QED BY <3>2, <3>3, InodeAssumption DEF MAX_DENTRYS
  <2>3. size \in 0 .. MAX_DENTRYS
    <3>1. icache[i].size \in 0 .. MAX_DENTRYS
      BY DEF TypeOK, Inode
    <3>2. \A x, y \in 0 .. MAX_DENTRYS : Max({x, y}) \in {x, y}
      BY Words DEF Max
    <3> QED BY <2>2, <3>1, <3>2
  <2> HIDE DEF size, block
  <2>4. icache' = [icache EXCEPT ![i].block = block, ![i].size = size]
    BY <1>1 DEF Write, size, block
  <2>5. icache' \in [Ino -> Inode]
    BY <2>1, <2>3, <2>4 DEF TypeOK, Inode
  <2>6. [s \in Slot |-> FileData] \in [Slot -> Dentry]
    BY Constants
  <2>7. blocks' \in [Dno -> [Slot -> Dentry]]
    BY <1>1, <2>6 DEF Write, TypeOK
  <2>8. TypeOK'
    BY <1>1, <2>1, <2>5, <2>7 DEF Write, users, TypeOK
  <2>9. CleanMatchesDisk'
    BY <1>1, <2>4 DEF Write, TypeOK, CleanMatchesDisk
  <2> QED BY <2>8, <2>9
<1>2. ASSUME NEW b \in Bidx, NEW U, WriteFails(i, b, U) PROVE IInv'
  <2>1. Allocated(icache[i], b, U) \in [Bidx -> Word] /\ dbmap' \subseteq 0 .. DATA_BITS - 1
    BY <1>2, GetBlockType DEF WriteFails
  <2>2. icache' \in [Ino -> Inode]
    BY <1>2, <2>1 DEF WriteFails, TypeOK, Inode
  <2>3. TypeOK'
    BY <1>2, <2>1, <2>2 DEF WriteFails, users, TypeOK
  <2>4. CleanMatchesDisk'
    BY <1>2 DEF WriteFails, TypeOK, CleanMatchesDisk
  <2> QED BY <2>3, <2>4
<1>3. ASSUME NEW c \in 0 .. YAF_IBLOCKS, Truncate(i, c * DENTRYS_PER_BLOCK) PROVE IInv'
  <2>1. c * DENTRYS_PER_BLOCK \in 0 .. MAX_DENTRYS
    <3>1. c \in Nat /\ c <= YAF_IBLOCKS
      BY InodeAssumption
    <3>2. c * DENTRYS_PER_BLOCK <= YAF_IBLOCKS * DENTRYS_PER_BLOCK
      BY <3>1, InodeAssumption
    <3>3. c * DENTRYS_PER_BLOCK \in Nat
      BY <3>1, InodeAssumption
    <3> QED BY <3>2, <3>3, InodeAssumption DEF MAX_DENTRYS
  <2>2. icache' \in [Ino -> Inode]
    BY <1>3, <2>1 DEF Truncate, TypeOK, Inode
  <2> QED BY <1>3, <2>2 DEF Truncate, disk, users, TypeOK, CleanMatchesDisk
<1>4. CASE Open(i)
  BY <1>4 DEF Open, disk, TypeOK, CleanMatchesDisk
<1>5. CASE Close(i)
  <2>1. /\ incore' \subseteq Ino /\ dirty' \subseteq Ino
        /\ icache' \in [Ino -> Inode]
        /\ CleanMatchesDisk'
    <3>1. Iput(i) /\ UNCHANGED itable
      BY <1>5 DEF Close, disk
    <3> QED BY <3>1, IputStep
  <2> QED BY <1>5, <2>1 DEF Close, disk, TypeOK
<1>6. CASE WriteInode(i)
  BY <1>6 DEF WriteInode, users, TypeOK, CleanMatchesDisk
<1>7. CASE EvictInode(i)
  BY <1>7, Constants DEF EvictInode, disk, users, TypeOK, CleanMatchesDisk
<1> QED BY <1>1, <1>2, <1>3, <1>4, <1>5, <1>6, <1>7 DEF InodeStep

\* The end of a call.
LEMMA ReleaseKeeps ==
  ASSUME IInv, NEW p \in refs, Release(p)
  PROVE  IInv'
<1> USE DEF IInv
<1>1. p[2] \in Ino
  BY DEF TypeOK
<1>2. Iput(p[2]) /\ UNCHANGED itable
  BY DEF Release, disk
<1>3. /\ incore' \subseteq Ino /\ dirty' \subseteq Ino
      /\ icache' \in [Ino -> Inode]
      /\ CleanMatchesDisk'
  BY <1>1, <1>2, IputStep
<1> QED BY <1>3 DEF Release, disk, TypeOK

LEMMA IInvStep ==
  ASSUME IInv, [Next]_vars
  PROVE  IInv'
<1>1. CASE Umount
  BY <1>1, Constants DEF Umount, IInv, TypeOK, CleanMatchesDisk
<1>2. CASE Mount
  BY <1>2, Words DEF Mount, disk, users, IInv, TypeOK, CleanMatchesDisk
<1>3. CASE UNCHANGED vars
  BY <1>3 DEF vars, IInv, TypeOK, CleanMatchesDisk
<1> QED BY <1>1, <1>2, <1>3, NamespaceKeeps, InodeKeeps, ReleaseKeeps DEF Next

\* Every variable keeps its type, whatever users and the kernel do: in
\* particular a directory never outgrows MAX_DENTRYS, and no search gets an
\* inode number that is not in the table.
THEOREM TypeCorrect == Spec => []TypeOK
<1>1. IInv => TypeOK
  BY DEF IInv
<1> QED BY <1>1, IInvInit, IInvStep, PTL DEF Spec

\* A struct inode that is not marked dirty is on the disk, whatever users and
\* the kernel do: no path of lookup, create, unlink, rmdir, write or truncate
\* changes an inode and leaves writeback without notice of it.
THEOREM CleanOnDisk == Spec => []CleanMatchesDisk
<1>1. IInv => CleanMatchesDisk
  BY DEF IInv
<1> QED BY <1>1, IInvInit, IInvStep, PTL DEF Spec
==============================================================================
