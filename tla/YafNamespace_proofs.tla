------------------------- MODULE YafNamespace_proofs --------------------------
(***************************************************************************)
(* Proofs about YafInode's namespace: that it is the tree of YafTree, with  *)
(* the dentry cache, the link counts and the data blocks that go with it.   *)
(***************************************************************************)
EXTENDS YafInode_proofs, FiniteSetTheorems

\* The environments in which the namespace is a tree: inodes do not leave the
\* inode cache while they have a name, no file is open when it is removed, and
\* inodes and the data bitmap can be read.
Quiet == Env \cap {"pressure", "open", "eio_iget", "eio_dbmap"} = {}

\* And those in which a file has the blocks that i_size says.
Steady == Env \cap {"truncate", "writefail"} = {}

IsDirectory(d) == d \in Used /\ View(d).kind = "dir"

\* The entries of a directory, and those that are in use.
At(d, k) == EntryAt(blocks, View(d), k)
Live(d)  == {k \in 0 .. View(d).size - 1 : At(d, k).d_ino # RESERVED_INO}

\* Block b of a file or directory lies below its size.
Below(ind, b) == b * DENTRYS_PER_BLOCK < ind.size

\* A directory has the blocks its size needs, all on the device, and no others.
Shape ==
  /\ IsDirectory(ROOT_INO) /\ RESERVED_INO \in ibmap
  /\ \A i \in Used : View(i).kind \in {"file", "dir"}
  /\ \A d \in Ino : IsDirectory(d) =>
       \A b \in Bidx : IF Below(View(d), b) THEN View(d).block[b] \in Dno
                       ELSE View(d).block[b] = RESERVED_DNO

\* BlocksExclusive, except for what a full bitmap gives out.
Real(x) == x \notin {RESERVED_DNO, NotFound}
Alone ==
  \A i \in Used, b \in Bidx : Real(View(i).block[b]) =>
    /\ View(i).block[b] \in dbmap
    /\ \A j \in Used, c \in Bidx :
         View(j).block[c] = View(i).block[b] => j = i /\ c = b

\* An inode that is used has one name, and a directory has a name once.
Listed ==
  \A d \in Ino : IsDirectory(d) => \A k \in Live(d) :
    /\ At(d, k).d_ino \in Used \ {ROOT_INO}
    /\ \A e \in Ino : IsDirectory(e) => \A l \in Live(e) :
         \/ At(d, k).d_ino = At(e, l).d_ino
         \/ d = e /\ At(d, k).d_name = At(e, l).d_name
         => d = e /\ k = l

Links ==
  \A i \in Used :
    View(i).nlink = IF View(i).kind = "dir" THEN 1 + Cardinality(Live(i)) ELSE 1

\* Dentries hold the inodes that are used in memory, and only they do.  What is
\* in memory and not used has lost its last link, and a call still holds it.
Caches ==
  /\ opens = {} /\ stuck = {} /\ dirty \subseteq incore /\ RESERVED_INO \notin incore
  /\ mounted => ROOT_INO \in incore
  /\ ~mounted => incore = {} /\ \A d \in Ino, n \in Names : dcache[d][n] = Uncached
  /\ \A d \in Ino, n \in Names :
       dcache[d][n] \notin {Uncached, RESERVED_INO} => dcache[d][n] \in incore
  /\ \A i \in (incore \cap Used) \ {ROOT_INO} :
       \E d \in Ino, n \in Names : dcache[d][n] = i
  /\ \A i \in incore \ Used : icache[i].nlink = 0 /\ \E p \in refs : p[2] = i

\* The blocks of a file or directory are those below its size.
Sized ==
  \A i \in Used, b \in Bidx : View(i).block[b] # RESERVED_DNO <=> Below(View(i), b)

\* NoLeak.
Owned == \A x \in dbmap : \E i \in Used, b \in Bidx : View(i).block[b] = x

NsInv == /\ IInv
         /\ Shape /\ Alone /\ Listed /\ Links
         /\ Caches /\ DcacheAgrees
         /\ Steady => Sized /\ Owned

-----------------------------------------------------------------------------
(* Bitmaps. *)

\* What the search of a bitmap returns is clear and in the bitmap, and no two
\* of the numbers it returns in a row are equal.
LEMMA FreeBitOf ==
  ASSUME NEW used, NEW bits \in Nat, NEW c, FreeBit(used, bits, c) # NotFound
  PROVE  /\ FreeBit(used, bits, c) \in 0 .. bits - 1
         /\ FreeBit(used, bits, c) \notin used
         /\ \A e : FreeBit(used, bits, e) = FreeBit(used, bits, c) => e = c
<1> DEFINE free == (0 .. bits - 1) \ used
           nth(e) == {x \in free : Cardinality({y \in free : y < x}) = e}
<1>1. ASSUME NEW e, FreeBit(used, bits, e) # NotFound
      PROVE  FreeBit(used, bits, e) \in nth(e)
  <2>1. nth(e) # {} /\ FreeBit(used, bits, e) = CHOOSE x \in nth(e) : TRUE
    BY <1>1 DEF FreeBit
  <2> QED  BY <2>1
<1>2. FreeBit(used, bits, c) \in nth(c)   BY <1>1
<1>3. ASSUME NEW e, FreeBit(used, bits, e) = FreeBit(used, bits, c) PROVE e = c
  <2>1. FreeBit(used, bits, c) \in nth(e)   BY <1>1, <1>3
  <2> QED  BY <1>2, <2>1
<1> QED  BY <1>2, <1>3

-----------------------------------------------------------------------------
(* The entries of directories. *)

\* An entry lies in a block below the size, and two entries in two places.
LEMMA PlaceOf ==
  ASSUME NEW ind \in Inode, NEW k \in 0 .. ind.size - 1
  PROVE  /\ k \in 0 .. MAX_DENTRYS - 1 /\ k \in Nat
         /\ k \div DENTRYS_PER_BLOCK \in Bidx /\ k % DENTRYS_PER_BLOCK \in Slot
         /\ Below(ind, k \div DENTRYS_PER_BLOCK)
<1>1. k \in 0 .. MAX_DENTRYS - 1 /\ k \in Nat /\ ind.size \in Nat /\ k < ind.size
  BY Words DEF Inode
<1>2. /\ k \div DENTRYS_PER_BLOCK \in Nat
      /\ DENTRYS_PER_BLOCK * (k \div DENTRYS_PER_BLOCK) \in Nat
      /\ DENTRYS_PER_BLOCK * (k \div DENTRYS_PER_BLOCK) <= k
  BY <1>1, Quotient, InodeAssumption
<1>3. DENTRYS_PER_BLOCK * (k \div DENTRYS_PER_BLOCK)
        = (k \div DENTRYS_PER_BLOCK) * DENTRYS_PER_BLOCK
  BY <1>2, InodeAssumption
<1>4. Below(ind, k \div DENTRYS_PER_BLOCK)   BY <1>1, <1>2, <1>3 DEF Below
<1> QED  BY <1>1, <1>4, Position

LEMMA OnePlace ==
  ASSUME NEW k \in Nat, NEW l \in Nat,
         k \div DENTRYS_PER_BLOCK = l \div DENTRYS_PER_BLOCK,
         k % DENTRYS_PER_BLOCK = l % DENTRYS_PER_BLOCK
  PROVE  k = l
<1>1. /\ DENTRYS_PER_BLOCK * (k \div DENTRYS_PER_BLOCK) \in Nat
      /\ k % DENTRYS_PER_BLOCK = k - DENTRYS_PER_BLOCK * (k \div DENTRYS_PER_BLOCK)
  BY Quotient, InodeAssumption
<1>2. l % DENTRYS_PER_BLOCK = l - DENTRYS_PER_BLOCK * (l \div DENTRYS_PER_BLOCK)
  BY Quotient, InodeAssumption
<1> QED  BY <1>1, <1>2

\* The inodes of the table, through the caches.
LEMMA ViewType ==
  ASSUME TypeOK, NEW i \in Ino
  PROVE  View(i) \in Inode
  BY DEF TypeOK, View

\* The blocks of a directory's entries can be read.
LEMMA DirReadable ==
  ASSUME TypeOK, Shape, NEW d \in Ino, IsDirectory(d), NEW k \in 0 .. View(d).size - 1
  PROVE  /\ BlockAt(View(d), k) \in Dno /\ Readable(BlockAt(View(d), k))
         /\ At(d, k) \in Dentry
<1>1. View(d) \in Inode   BY ViewType
<1>2. k \div DENTRYS_PER_BLOCK \in Bidx /\ Below(View(d), k \div DENTRYS_PER_BLOCK)
      /\ k \in 0 .. MAX_DENTRYS - 1
  BY <1>1, PlaceOf
<1>3. BlockAt(View(d), k) \in Dno   BY <1>2 DEF Shape, BlockAt
<1>4. Readable(BlockAt(View(d), k))   BY <1>3 DEF Readable
<1> QED  BY <1>1, <1>2, <1>3, <1>4, EntryType DEF At, TypeOK, Blocks

\* What the searches of a directory for a name find.
Named ==
  \A d \in Ino, n \in Names :
    /\ ~IsDirectory(d) => Entry(d, n) = RESERVED_INO
    /\ IsDirectory(d) =>
         /\ \A k \in Live(d) : At(d, k).d_name = n =>
              /\ Hits(View(d), n) = {k} /\ Min(Hits(View(d), n)) = k
              /\ Found(View(d), n) /\ NamedBy(View(d), n) = At(d, k).d_ino
              /\ Entry(d, n) = At(d, k).d_ino
         /\ (\A k \in Live(d) : At(d, k).d_name # n) =>
              /\ Hits(View(d), n) = {}
              /\ Entry(d, n) = RESERVED_INO

LEMMA NamedInv == TypeOK /\ Shape /\ Listed => Named
<1> SUFFICES ASSUME TypeOK, Shape, Listed, NEW d \in Ino, NEW n \in Names, IsDirectory(d)
             PROVE  /\ \A k \in Live(d) : At(d, k).d_name = n =>
                         /\ Hits(View(d), n) = {k} /\ Min(Hits(View(d), n)) = k
                         /\ Found(View(d), n) /\ NamedBy(View(d), n) = At(d, k).d_ino
                    /\ (\A k \in Live(d) : At(d, k).d_name # n) =>
                         /\ Hits(View(d), n) = {}
  BY DEF Named, IsDirectory, Entry, NamedBy, Found
<1>1. \A k \in 0 .. View(d).size - 1 : Readable(BlockAt(View(d), k))
  BY DirReadable
<1>2. Hits(View(d), n) = {k \in Live(d) : At(d, k).d_name = n}
  BY <1>1 DEF Hits, Stops, Live, At
<1>3. ASSUME NEW k \in Live(d), At(d, k).d_name = n
      PROVE  /\ Hits(View(d), n) = {k} /\ Min(Hits(View(d), n)) = k
             /\ Found(View(d), n) /\ NamedBy(View(d), n) = At(d, k).d_ino
  <2>1. \A l \in Live(d) : At(d, l).d_name = n => l = k   BY <1>3 DEF Listed
  <2>2. Hits(View(d), n) = {k}   BY <1>2, <1>3, <2>1
  <2>3. k \in 0 .. View(d).size - 1 /\ k \in Nat   BY ViewType, PlaceOf DEF Live
  <2>4. Min({k}) = k   BY <2>3, MinPair
  <2>5. Found(View(d), n)   BY <1>1, <2>2, <2>3, <2>4 DEF Found
  <2> QED  BY <2>2, <2>4, <2>5 DEF NamedBy, At
<1> QED  BY <1>2, <1>3

LEMMA NamedNext == TypeOK' /\ Shape' /\ Listed' => Named'
  BY NamedInv, PTL

\* An inode has one name.
OneName ==
  \A d \in Ino, n \in Names : Entry(d, n) # RESERVED_INO =>
    /\ IsDirectory(d) /\ Entry(d, n) \in Used \ {ROOT_INO}
    /\ \A e \in Ino, m \in Names : Entry(e, m) = Entry(d, n) => e = d /\ m = n

LEMMA OneNameInv == TypeOK /\ Shape /\ Listed => OneName
<1> SUFFICES ASSUME TypeOK, Shape, Listed, NEW d \in Ino, NEW n \in Names,
                    Entry(d, n) # RESERVED_INO
             PROVE  /\ IsDirectory(d) /\ Entry(d, n) \in Used \ {ROOT_INO}
                    /\ \A e \in Ino, m \in Names :
                         Entry(e, m) = Entry(d, n) => e = d /\ m = n
  BY DEF OneName
<1>0. Named   BY NamedInv
<1>1. ASSUME NEW e \in Ino, NEW m \in Names, Entry(e, m) # RESERVED_INO
      PROVE  IsDirectory(e) /\ \E k \in Live(e) : /\ At(e, k).d_name = m
                                                  /\ At(e, k).d_ino = Entry(e, m)
  BY <1>0, <1>1 DEF Named
<1>2. PICK k \in Live(d) : At(d, k).d_name = n /\ At(d, k).d_ino = Entry(d, n)
  BY <1>1
<1>3. IsDirectory(d) /\ Entry(d, n) \in Used \ {ROOT_INO}
  BY <1>1, <1>2 DEF Listed
<1>4. ASSUME NEW e \in Ino, NEW m \in Names, Entry(e, m) = Entry(d, n)
      PROVE  e = d /\ m = n
  <2>1. PICK l \in Live(e) : At(e, l).d_name = m /\ At(e, l).d_ino = Entry(e, m)
    BY <1>1, <1>4
  <2>2. IsDirectory(e)   BY <1>1, <1>4
  <2>3. d = e /\ k = l   BY <1>2, <1>3, <1>4, <2>1, <2>2 DEF Listed
  <2> QED  BY <1>2, <2>1, <2>3
<1> QED  BY <1>3, <1>4

LEMMA OneNameNext == TypeOK' /\ Shape' /\ Listed' => OneName'
  BY OneNameInv, PTL

\* A directory has no more entries than there is room for.
FewLive == \A d \in Ino : /\ IsFiniteSet(Live(d))
                          /\ Cardinality(Live(d)) \in 0 .. MAX_DENTRYS

LEMMA FewLiveInv == TypeOK => FewLive
<1> SUFFICES ASSUME TypeOK, NEW d \in Ino
             PROVE  IsFiniteSet(Live(d)) /\ Cardinality(Live(d)) \in 0 .. MAX_DENTRYS
  BY DEF FewLive
<1>1. View(d).size \in 0 .. MAX_DENTRYS /\ View(d).size \in Nat
  BY ViewType, Words DEF Inode
<1>2. PICK top \in Int : top = View(d).size - 1   BY <1>1
<1>3. /\ IsFiniteSet(0 .. top)
      /\ Cardinality(0 .. top) = IF 0 > top THEN 0 ELSE top - 0 + 1
  BY FS_Interval
<1>4. Cardinality(0 .. top) = View(d).size   BY <1>1, <1>2, <1>3
<1>5. Live(d) \subseteq 0 .. top   BY <1>2 DEF Live
<1>6. IsFiniteSet(Live(d)) /\ Cardinality(Live(d)) <= View(d).size
  BY <1>3, <1>4, <1>5, FS_Subset
<1>7. Cardinality(Live(d)) \in Nat   BY <1>6, FS_CardinalityType
<1> QED  BY <1>1, <1>6, <1>7, Words

LEMMA FewLiveNext == TypeOK' => FewLive'
  BY FewLiveInv, PTL

-----------------------------------------------------------------------------
(* Steps that leave the tree as it is.                                        *)

\* What the tree shows of a step that leaves it alone.
SameTree == /\ Used' = Used
            /\ \A i \in Used : View(i)'.kind = View(i).kind
            /\ \A d \in Ino, n \in Names : Entry(d, n)' = Entry(d, n)

\* A step that leaves every directory with the entries it had.
LEMMA Settled ==
  ASSUME NsInv, IInv', ibmap' = ibmap,
         \A i \in Used : /\ View(i)'.kind = View(i).kind
                         /\ View(i)'.nlink = View(i).nlink,
         \A d \in Ino : IsDirectory(d) => /\ Live(d)' = Live(d)
                                          /\ \A k \in Live(d) : At(d, k)' = At(d, k),
         Shape', Alone', (Steady => Sized /\ Owned)', Caches',
         \A d \in Ino, n \in Names :
           dcache'[d][n] # Uncached => d \in Used /\ dcache'[d][n] = Entry(d, n)
  PROVE  NsInv' /\ SameTree
<1>0. TypeOK /\ Listed /\ Named   BY NamedInv DEF NsInv, IInv
<1>1. Used' = Used   BY DEF Used
<1>2. \A d \in Ino : IsDirectory(d)' <=> IsDirectory(d)
  BY <1>1 DEF IsDirectory
<1>3. Listed'   BY <1>0, <1>1, <1>2 DEF Listed
<1>4. Links'
  <2>1. \A i \in Used : View(i).kind = "dir" => IsDirectory(i) /\ i \in Ino
    BY DEF IsDirectory, Used
  <2> QED  BY <1>1, <2>1 DEF NsInv, Links
<1>5. Named'   BY <1>3, NamedNext DEF IInv
<1>6. ASSUME NEW d \in Ino, NEW n \in Names PROVE Entry(d, n)' = Entry(d, n)
  <2>1. CASE ~IsDirectory(d)   BY <1>0, <1>2, <1>5, <2>1 DEF Named
  <2>2. ASSUME IsDirectory(d), NEW k \in Live(d), At(d, k).d_name = n
        PROVE  Entry(d, n)' = Entry(d, n)
    <3>1. IsDirectory(d)' /\ k \in Live(d)' /\ At(d, k)' = At(d, k)
      BY <1>2, <2>2
    <3>2. Entry(d, n) = At(d, k).d_ino   BY <1>0, <2>2 DEF Named
    <3>3. Entry(d, n)' = At(d, k)'.d_ino   BY <1>5, <2>2, <3>1 DEF Named
    <3> QED  BY <3>1, <3>2, <3>3
  <2>3. ASSUME IsDirectory(d), \A k \in Live(d) : At(d, k).d_name # n
        PROVE  Entry(d, n)' = Entry(d, n)
    <3>1. IsDirectory(d)' /\ \A k \in Live(d)' : At(d, k)'.d_name # n
      BY <1>2, <2>3
    <3> QED  BY <1>0, <1>5, <2>3, <3>1 DEF Named
  <2> QED  BY <2>1, <2>2, <2>3
<1>7. DcacheAgrees'   BY <1>1, <1>6 DEF DcacheAgrees
<1>8. SameTree   BY <1>1, <1>6 DEF SameTree
<1> QED  BY <1>3, <1>4, <1>7, <1>8 DEF NsInv

\* Steps that change neither the blocks nor what an inode is.
Still == /\ UNCHANGED <<ibmap, dbmap, blocks>>
         /\ \A i \in Used : View(i)' = View(i)

LEMMA StillInv ==
  ASSUME NsInv, IInv', Still, Caches', \A d \in Ino, n \in Names :
           dcache'[d][n] # Uncached => d \in Used /\ dcache'[d][n] = Entry(d, n)
  PROVE  NsInv' /\ SameTree
<1>1. Used' = Used /\ ibmap' = ibmap /\ \A i \in Used : View(i)' = View(i)
  BY DEF Still, Used
<1>2. ASSUME NEW d \in Ino, IsDirectory(d)
      PROVE  Live(d)' = Live(d) /\ \A k : At(d, k)' = At(d, k)
  <2>1. d \in Used   BY <1>2 DEF IsDirectory
  <2>2. \A k : At(d, k)' = At(d, k)   BY <1>1, <2>1 DEF At, EntryAt, BlockAt, Still
  <2> QED  BY <1>1, <2>1, <2>2 DEF Live
<1>3. Shape'   BY <1>1 DEF NsInv, Shape, Still, IsDirectory, Below
<1>4. Alone'   BY <1>1 DEF NsInv, Alone, Still
<1>5. (Steady => Sized /\ Owned)'
  BY <1>1 DEF NsInv, Sized, Owned, Still, Below, Steady
<1> QED  BY <1>1, <1>2, <1>3, <1>4, <1>5, Settled

\* An inode that has a dentry is the one the entry names.
LEMMA ReachedUsed ==
  ASSUME NsInv, NEW i \in Ino, i # RESERVED_INO, Reached(i)
  PROVE  i \in Used
<1>1. CASE i = ROOT_INO   BY <1>1 DEF NsInv, Shape, IsDirectory
<1>2. CASE i # ROOT_INO
  <2>1. Dentries(i) # {}   BY <1>2 DEF Reached, NsInv, Caches
  <2>2. PICK d \in Ino, n \in Names : dcache[d][n] = i   BY <2>1 DEF Dentries
  <2>3. i # Uncached   BY DEF Ino, Uncached
  <2>4. Entry(d, n) = i   BY <2>2, <2>3 DEF NsInv, DcacheAgrees
  <2>5. OneName   BY OneNameInv DEF NsInv, IInv
  <2> QED  BY <2>4, <2>5 DEF OneName
<1> QED  BY <1>1, <1>2

\* A directory that path lookup reaches is the directory that is there.
LEMMA DirIs ==
  ASSUME NsInv, NEW d \in Ino, IsDir(d)
  PROVE  IsDirectory(d) /\ View(d) = icache[d] /\ d \in incore /\ d \in Used
<1>1. d \in incore /\ Reached(d) /\ icache[d].kind = "dir"   BY DEF IsDir
<1>2. d # RESERVED_INO   BY <1>1 DEF NsInv, Caches
<1>3. d \in Used   BY <1>1, <1>2, ReachedUsed
<1> QED  BY <1>1, <1>3 DEF IsDirectory, View

\* An inode that lookup finds is not in memory yet: else it would have a dentry,
\* and that would be the one that is looked up.
LEMMA LookupFinds ==
  ASSUME NsInv, NEW d \in Ino, NEW n \in Names, LookupGuard(d, n), Found(icache[d], n)
  PROVE  /\ NamedBy(icache[d], n) = Entry(d, n)
         /\ Entry(d, n) \in Used \ {ROOT_INO} /\ Entry(d, n) \notin incore
<1>0. Named /\ OneName   BY NamedInv, OneNameInv DEF NsInv, IInv
<1>1. IsDirectory(d) /\ View(d) = icache[d]   BY DirIs DEF LookupGuard
<1>2. Hits(View(d), n) # {}   BY <1>1 DEF Found
<1>3. PICK k \in Live(d) : At(d, k).d_name = n   BY <1>0, <1>1, <1>2 DEF Named
<1>4. Entry(d, n) = NamedBy(icache[d], n) /\ Entry(d, n) = At(d, k).d_ino
  BY <1>0, <1>1, <1>3 DEF Named
<1>5. Entry(d, n) # RESERVED_INO   BY <1>3, <1>4 DEF Live
<1>6. Entry(d, n) \in Used \ {ROOT_INO}   BY <1>0, <1>5 DEF OneName
<1>7. ASSUME Entry(d, n) \in incore PROVE FALSE
  <2>1. PICK e \in Ino, m \in Names : dcache[e][m] = Entry(d, n)
    BY <1>6, <1>7 DEF NsInv, Caches
  <2>2. Entry(d, n) # Uncached   BY <1>6 DEF Used, Ino, Uncached
  <2>3. dcache[e][m] = Entry(e, m)   BY <2>1, <2>2 DEF NsInv, DcacheAgrees
  <2>4. e = d /\ m = n   BY <1>0, <1>5, <2>1, <2>3 DEF OneName
  <2> QED  BY <2>1, <2>2, <2>4 DEF LookupGuard
<1> QED  BY <1>4, <1>6, <1>7

LEMMA Lookup_Inv ==
  ASSUME NsInv, IInv', NEW d \in Ino, NEW n \in Names, Lookup(d, n)
  PROVE  NsInv' /\ SameTree
<1> DEFINE i == Entry(d, n)
<1>0. TypeOK   BY DEF NsInv, IInv
<1>1. LookupGuard(d, n) /\ d \in incore /\ d \in Used   BY DirIs DEF Lookup, LookupGuard
<1>2. i \in Used \ {ROOT_INO} /\ i \notin incore /\ i \in Ino
  BY <1>1, LookupFinds DEF Lookup, Used
<1>3. /\ icache' = [icache EXCEPT ![i] = itable[i]]
      /\ incore' = incore \cup {i}
      /\ dcache' = [dcache EXCEPT ![d][n] = i]
      /\ dirty' = dirty \cup {d}
      /\ UNCHANGED <<ibmap, dbmap, itable, blocks, opens, refs, stuck, mounted, panic>>
  BY <1>1, LookupFinds DEF Lookup, users
<1> HIDE DEF i
<1>4. Still
  <2>1. \A j \in Used : View(j)' = View(j)
    BY <1>0, <1>2, <1>3 DEF View, TypeOK, Used
  <2> QED  BY <1>3, <2>1 DEF Still
<1>5. \A e \in Ino, m \in Names :
        dcache'[e][m] = IF e = d /\ m = n THEN i ELSE dcache[e][m]
  BY <1>0, <1>3 DEF TypeOK
<1>6. Caches'
  <2>1. dcache[d][n] = Uncached /\ ROOT_INO # Uncached
    BY <1>1 DEF LookupGuard, ROOT_INO, Uncached
  <2>2. \A j \in (incore' \cap Used) \ {ROOT_INO} :
          \E e \in Ino, m \in Names : dcache'[e][m] = j
    <3>1. ASSUME NEW j \in (incore \cap Used) \ {ROOT_INO}
          PROVE  \E e \in Ino, m \in Names : dcache'[e][m] = j
      <4>1. PICK e \in Ino, m \in Names : dcache[e][m] = j
        BY <3>1 DEF NsInv, Caches
      <4>2. j # Uncached   BY <3>1 DEF Used, Ino, Uncached
      <4> QED  BY <1>5, <2>1, <4>1, <4>2
    <3> QED  BY <1>3, <1>5, <3>1
  <2>3. \A e \in Ino, m \in Names :
          dcache'[e][m] \notin {Uncached, RESERVED_INO} => dcache'[e][m] \in incore'
    BY <1>3, <1>5 DEF NsInv, Caches
  <2>4. mounted   BY <1>1 DEF LookupGuard, Running
  <2>5. Used' = Used /\ i # RESERVED_INO   BY <1>2, <1>3 DEF Used
  <2>6. \A j \in incore' \ Used' : icache'[j].nlink = 0 /\ \E p \in refs' : p[2] = j
    <3>1. \A j \in incore' \ Used' : j \in incore \ Used /\ icache'[j] = icache[j]
      BY <1>0, <1>2, <1>3, <2>5 DEF TypeOK
    <3> QED  BY <1>3, <3>1 DEF NsInv, Caches
  <2> QED  BY <1>1, <1>2, <1>3, <2>2, <2>3, <2>4, <2>5, <2>6 DEF NsInv, Caches
<1>7. \A e \in Ino, m \in Names :
        dcache'[e][m] # Uncached => e \in Used /\ dcache'[e][m] = Entry(e, m)
  BY <1>1, <1>5 DEF NsInv, DcacheAgrees, i
<1> QED  BY <1>4, <1>6, <1>7, StillInv

LEMMA LookupMiss_Inv ==
  ASSUME NsInv, IInv', NEW d \in Ino, NEW n \in Names, LookupMiss(d, n)
  PROVE  NsInv' /\ SameTree
<1>0. TypeOK /\ Named   BY NamedInv DEF NsInv, IInv
<1>1. IsDirectory(d) /\ View(d) = icache[d] /\ d \in incore /\ d \in Used /\ mounted
  BY DirIs DEF LookupMiss, LookupGuard, Running
<1>2. Entry(d, n) = RESERVED_INO   BY <1>0, <1>1 DEF LookupMiss, Named
<1>3. /\ dcache' = [dcache EXCEPT ![d][n] = RESERVED_INO]
      /\ dirty' = dirty \cup {d}
      /\ UNCHANGED <<ibmap, dbmap, itable, blocks, incore, icache, opens, refs, stuck,
                     mounted, panic>>
  BY DEF LookupMiss, users
<1>4. Still   BY <1>3 DEF Still, View
<1>5. \A e \in Ino, m \in Names :
        dcache'[e][m] = IF e = d /\ m = n THEN RESERVED_INO ELSE dcache[e][m]
  BY <1>0, <1>3 DEF TypeOK
<1>6. Caches'
  <2>1. dcache[d][n] = Uncached   BY DEF LookupMiss, LookupGuard
  <2>2. ASSUME NEW j \in (incore \cap Used) \ {ROOT_INO}
        PROVE  \E e \in Ino, m \in Names : dcache'[e][m] = j
    <3>1. PICK e \in Ino, m \in Names : dcache[e][m] = j
      BY <2>2 DEF NsInv, Caches
    <3>2. j # Uncached   BY <2>2 DEF Used, Ino, Uncached
    <3> QED  BY <1>5, <2>1, <3>1, <3>2
  <2>3. \A e \in Ino, m \in Names :
          dcache'[e][m] \notin {Uncached, RESERVED_INO} => dcache'[e][m] \in incore'
    BY <1>3, <1>5 DEF NsInv, Caches
  <2>4. Used' = Used   BY <1>3 DEF Used
  <2> QED  BY <1>1, <1>3, <2>2, <2>3, <2>4 DEF NsInv, Caches
<1>7. \A e \in Ino, m \in Names :
        dcache'[e][m] # Uncached => e \in Used /\ dcache'[e][m] = Entry(e, m)
  BY <1>1, <1>2, <1>5 DEF NsInv, DcacheAgrees
<1> QED  BY <1>4, <1>6, <1>7, StillInv

\* Steps of the kernel, and what ends in a panic.
LEMMA Kernel_Inv ==
  ASSUME NsInv, IInv',
         \/ Umount \/ Mount \/ UNCHANGED vars
         \/ \E i \in Ino : WriteInode(i)
         \/ \E d \in Ino, n \in Names : CreatePanics(d, n, {}) \/ DeletePanics(d, n)
  PROVE  NsInv' /\ SameTree
<1>0. TypeOK /\ Caches /\ DcacheAgrees /\ CleanMatchesDisk   BY DEF NsInv, IInv
<1>1. CASE Umount
  <2>1. \A j \in Used : View(j)' = View(j)
    BY <1>0, <1>1 DEF Umount, View, CleanMatchesDisk, TypeOK, Used, Caches
  <2>2. Still   BY <1>1, <2>1 DEF Umount, Still
  <2>3. \A e \in Ino, m \in Names : dcache'[e][m] = Uncached
    BY <1>1 DEF Umount, NoDentries
  <2>4. Caches'   BY <1>1, <2>3 DEF Umount, Caches
  <2> QED  BY <2>2, <2>3, <2>4, StillInv
<1>2. CASE Mount
  <2>1. incore = {} /\ \A e \in Ino, m \in Names : dcache[e][m] = Uncached
    BY <1>0, <1>2 DEF Mount, Caches
  <2>2. ROOT_INO \in Used /\ ROOT_INO \in Ino   BY Words DEF NsInv, Shape, IsDirectory
  <2>3. \A j \in Used : View(j)' = View(j)
    BY <1>0, <1>2, <2>1, <2>2 DEF Mount, View, TypeOK, Used, disk
  <2>4. Still   BY <1>2, <2>3 DEF Mount, Still, disk
  <2>5. Caches'   BY <1>0, <1>2, <2>1, <2>2 DEF Mount, Caches, disk, users, Used,
          RESERVED_INO, ROOT_INO
  <2>6. dcache' = dcache   BY <1>2 DEF Mount
  <2> QED  BY <2>1, <2>4, <2>5, <2>6, StillInv
<1>3. ASSUME NEW i \in Ino, WriteInode(i) PROVE NsInv' /\ SameTree
  <2>1. \A j \in Used : View(j)' = View(j)
    BY <1>0, <1>3 DEF WriteInode, View, TypeOK, Used, Caches
  <2>2. Still   BY <1>3, <2>1 DEF WriteInode, Still
  <2>3. Caches'   BY <1>0, <1>3 DEF WriteInode, Caches, Used, users
  <2>4. dcache' = dcache   BY <1>3 DEF WriteInode
  <2> QED  BY <1>0, <2>2, <2>3, <2>4, StillInv DEF DcacheAgrees
<1>4. CASE \/ UNCHANGED vars
           \/ \E d \in Ino, n \in Names : CreatePanics(d, n, {}) \/ DeletePanics(d, n)
  <2>1. UNCHANGED <<ibmap, dbmap, itable, blocks, incore, icache, dirty, dcache,
                    opens, refs, stuck, mounted>>
    BY <1>4 DEF vars, CreatePanics, DeletePanics, disk, users
  <2>2. Still   BY <2>1 DEF Still, View
  <2>3. Caches'   BY <1>0, <2>1 DEF Caches, Used
  <2> QED  BY <1>0, <2>1, <2>2, <2>3, StillInv DEF DcacheAgrees
<1> QED  BY <1>1, <1>2, <1>3, <1>4

\* A call lets go of an inode: it is evicted if it has been removed, and stays if
\* its number is used again.
LEMMA Release_Inv ==
  ASSUME NsInv, IInv', NEW p \in refs, Release(p)
  PROVE  NsInv' /\ SameTree
<1> DEFINE i == p[2]
<1>0. TypeOK /\ Caches /\ DcacheAgrees /\ OneName   BY OneNameInv DEF NsInv, IInv
<1>1. /\ refs' = refs \ {p} /\ i \in Ino /\ mounted
      /\ UNCHANGED <<ibmap, dbmap, itable, blocks, dcache, opens, stuck, mounted>>
  <2>1. i \in Ino   BY <1>0 DEF TypeOK
  <2> QED  BY <2>1 DEF Release, disk, Running
<1>2. Used' = Used   BY <1>1 DEF Used
<1> HIDE DEF i
<1>3. ASSUME NEW e \in Ino, NEW m \in Names, dcache[e][m] \notin {Uncached, RESERVED_INO}
      PROVE  dcache[e][m] \in incore \cap Used
  BY <1>0, <1>3 DEF Caches, DcacheAgrees, OneName
<1>4. \A j \in incore' \ Used, q \in refs : j # i /\ q[2] = j => q \in refs'
  BY <1>1 DEF i
<1>5. CASE UNCHANGED <<incore, dirty, icache>> /\ (icache[i].nlink = 0 => Pinned(i)')
  <2>1. Still   BY <1>1, <1>5 DEF Still, View
  <2>2. ASSUME i \in incore \ Used PROVE \E q \in refs' : q[2] = i
    <3>1. Pinned(i)'   BY <1>0, <1>5, <2>2 DEF Caches
    <3>2. ~Reached(i)'
      <4>1. i # ROOT_INO   BY <2>2 DEF NsInv, Shape, IsDirectory
      <4>2. i \notin opens'   BY <1>0, <1>1 DEF Caches
      <4>3. i \notin {Uncached, RESERVED_INO}
        BY <1>0, <1>1, <2>2 DEF Caches, Ino, Uncached
      <4>4. Dentries(i)' = {}   BY <1>1, <1>3, <2>2, <4>3 DEF Dentries
      <4> QED  BY <4>1, <4>2, <4>4 DEF Reached
    <3>3. i \notin stuck'   BY <1>0, <1>1 DEF Caches
    <3> QED  BY <3>1, <3>2, <3>3 DEF Pinned, Held
  <2>3. Caches'
    BY <1>0, <1>1, <1>2, <1>4, <1>5, <2>2 DEF Caches
  <2> QED  BY <1>0, <1>1, <2>1, <2>3, StillInv DEF DcacheAgrees
<1>6. CASE /\ icache[i].nlink = 0
           /\ incore' = incore \ {i} /\ dirty' = dirty \ {i}
           /\ icache' = [icache EXCEPT ![i] = ZeroInode]
  <2>1. i \notin incore \cap Used
    <3>1. ASSUME i \in incore \cap Used PROVE FALSE
      <4>1. View(i) = icache[i]   BY <3>1 DEF View
      <4>2. Cardinality(Live(i)) \in Nat   BY <1>0, <1>1, FewLiveInv, Words DEF FewLive
      <4> QED  BY <1>6, <3>1, <4>1, <4>2 DEF NsInv, Links
    <3> QED  BY <3>1
  <2>2. \A j \in Ino \ {i} : icache'[j] = icache[j]   BY <1>0, <1>6 DEF TypeOK
  <2>3. \A j \in Used : View(j)' = View(j)
    BY <1>1, <1>6, <2>1, <2>2 DEF View, Used
  <2>4. Still   BY <1>1, <2>3 DEF Still
  <2>5. ROOT_INO \in Used /\ ROOT_INO \in incore
    BY <1>0, <1>1 DEF NsInv, Shape, IsDirectory, Caches
  <2>6. \A e \in Ino, m \in Names :
          dcache[e][m] \notin {Uncached, RESERVED_INO} => dcache[e][m] \in incore'
    BY <1>3, <1>6, <2>1
  <2>7. \A j \in incore' \ Used : /\ j \in incore \ Used /\ j # i
                                 /\ icache'[j] = icache[j]
    BY <1>0, <1>6, <2>2 DEF TypeOK
  <2>8. \A j \in incore' \ Used : icache'[j].nlink = 0 /\ \E q \in refs' : q[2] = j
    BY <1>0, <1>4, <2>7 DEF Caches
  <2>9. \A j \in (incore' \cap Used) \ {ROOT_INO} :
          \E e \in Ino, m \in Names : dcache[e][m] = j
    BY <1>0, <1>6 DEF Caches
  <2>10. /\ opens' = {} /\ stuck' = {} /\ dirty' \subseteq incore'
         /\ RESERVED_INO \notin incore' /\ ROOT_INO \in incore'
    BY <1>0, <1>1, <1>6, <2>1, <2>5 DEF Caches
  <2>11. Caches'   BY <1>1, <1>2, <2>6, <2>8, <2>9, <2>10 DEF Caches
  <2> QED  BY <1>0, <1>1, <2>4, <2>11, StillInv DEF DcacheAgrees
<1>7. Iput(i)   BY DEF Release, i
<1> QED  BY <1>5, <1>6, <1>7 DEF Iput
-----------------------------------------------------------------------------
(* Steps that change the blocks of one inode.                                  *)

\* One inode gets blocks nobody has, in the places of N; new inodes have none.
LEMMA AloneKept ==
  ASSUME TypeOK, Alone, NEW i \in Used, NEW N, dbmap \subseteq dbmap',
         \A j \in Used' \ {i}, c \in Bidx :
           \/ View(j)'.block[c] = RESERVED_DNO
           \/ j \in Used /\ View(j)'.block[c] = View(j).block[c],
         \A c \in Bidx \ N : View(i)'.block[c] = View(i).block[c],
         \A c \in N : View(i)'.block[c] # NotFound =>
           /\ View(i)'.block[c] \notin dbmap /\ View(i)'.block[c] \in dbmap'
           /\ \A e \in N : View(i)'.block[e] = View(i)'.block[c] => e = c
  PROVE  Alone'
<1> SUFFICES ASSUME NEW j \in Used', NEW c \in Bidx, Real(View(j)'.block[c])
             PROVE  /\ View(j)'.block[c] \in dbmap'
                    /\ \A l \in Used', e \in Bidx :
                         View(l)'.block[e] = View(j)'.block[c] => l = j /\ e = c
  BY DEF Alone
<1> DEFINE Fresh(l, e) == l = i /\ e \in N
<1>1. ASSUME NEW l \in Used', NEW e \in Bidx, Real(View(l)'.block[e]), ~Fresh(l, e)
      PROVE  l \in Used /\ View(l)'.block[e] = View(l).block[e]
             /\ View(l)'.block[e] \in dbmap
  <2>1. l \in Used /\ View(l)'.block[e] = View(l).block[e]
    BY <1>1 DEF Real
  <2> QED  BY <1>1, <2>1 DEF Alone
<1>2. ASSUME NEW l \in Used', NEW e \in Bidx, Real(View(l)'.block[e]), Fresh(l, e)
      PROVE  View(l)'.block[e] \notin dbmap /\ View(l)'.block[e] \in dbmap'
  BY <1>2 DEF Real
<1>3. View(j)'.block[c] \in dbmap'   BY <1>1, <1>2
<1>4. ASSUME NEW l \in Used', NEW e \in Bidx, View(l)'.block[e] = View(j)'.block[c]
      PROVE  l = j /\ e = c
  <2>1. Real(View(l)'.block[e])   BY <1>4
  <2>2. CASE Fresh(l, e)
    <3>1. Fresh(j, c)   BY <1>1, <1>2, <1>4, <2>1, <2>2
    <3> QED  BY <1>4, <2>1, <2>2, <3>1 DEF Real
  <2>3. CASE ~Fresh(l, e)
    <3>1. ~Fresh(j, c)   BY <1>1, <1>2, <1>4, <2>1, <2>3
    <3>2. /\ l \in Used /\ View(l)'.block[e] = View(l).block[e]
          /\ j \in Used /\ View(j)'.block[c] = View(j).block[c]
      BY <1>1, <2>1, <2>3, <3>1
    <3>3. Real(View(j).block[c])   BY <3>2
    <3>4. View(l).block[e] = View(j).block[c]   BY <1>4, <3>2
    <3> HIDE DEF Fresh
    <3> QED  BY <3>2, <3>3, <3>4 DEF Alone
  <2> QED  BY <2>2, <2>3
<1> QED  BY <1>3, <1>4

\* What is marked as used stays in some inode.
LEMMA OwnedKept ==
  ASSUME TypeOK, Owned, NEW i \in Used, NEW N \in SUBSET Bidx, Used \subseteq Used',
         \A j \in Used \ {i}, c \in Bidx : View(j)'.block[c] = View(j).block[c],
         \A c \in Bidx \ N : View(i)'.block[c] = View(i).block[c],
         \A c \in N : View(i).block[c] = RESERVED_DNO,
         \A x \in dbmap' \ dbmap : \E c \in N : View(i)'.block[c] = x
  PROVE  Owned'
<1> SUFFICES ASSUME NEW x \in dbmap'
             PROVE  \E j \in Used', c \in Bidx : View(j)'.block[c] = x
  BY DEF Owned
<1>1. CASE x \notin dbmap
  <2>1. i \in Used'   OBVIOUS
  <2> QED  BY <1>1, <2>1
<1>2. CASE x \in dbmap
  <2>1. PICK j \in Used, c \in Bidx : View(j).block[c] = x   BY <1>2 DEF Owned
  <2>2. x # RESERVED_DNO
    BY <1>2, InodeAssumption DEF TypeOK, RESERVED_DNO, NotFound
  <2>3. View(j)'.block[c] = x   BY <2>1, <2>2
  <2> QED  BY <2>1, <2>3
<1> QED  BY <1>1, <1>2
-----------------------------------------------------------------------------
(* Files.                                                                      *)

\* A file that is reached is the file that is there, and no directory.
LEMMA FileIs ==
  ASSUME NsInv, NEW i \in Ino, IsFile(i)
  PROVE  View(i) = icache[i] /\ i \in incore /\ i \in Used /\ ~IsDirectory(i)
<1>1. i \in incore /\ Reached(i) /\ icache[i].kind = "file"   BY DEF IsFile
<1>2. i # RESERVED_INO   BY <1>1 DEF NsInv, Caches
<1>3. i \in Used   BY <1>1, <1>2, ReachedUsed
<1> QED  BY <1>1, <1>3 DEF IsDirectory, View

\* The blocks of an inode up to NrBlocks, and the first block after them.
LEMMA NrBlocksIs ==
  ASSUME NEW ind \in Inode
  PROVE  /\ NrBlocks(ind) \in 0 .. YAF_IBLOCKS
         /\ \A c \in Bidx : c < NrBlocks(ind) => ind.block[c] # RESERVED_DNO
         /\ NrBlocks(ind) < YAF_IBLOCKS =>
              NrBlocks(ind) \in Bidx /\ ind.block[NrBlocks(ind)] = RESERVED_DNO
<1> DEFINE S == {c \in Bidx : ind.block[c] = RESERVED_DNO} \cup {YAF_IBLOCKS}
<1>1. S \in SUBSET Nat /\ S # {} /\ S \in SUBSET (0 .. YAF_IBLOCKS)
  BY InodeAssumption DEF Bidx
<1>2. NrBlocks(ind) = Min(S)   BY DEF NrBlocks
<1>3. Min(S) \in S /\ \A y \in S : Min(S) <= y
  <2> HIDE DEF S
  <2> QED  BY <1>1, MinIn
<1>4. NrBlocks(ind) \in 0 .. YAF_IBLOCKS   BY <1>1, <1>2, <1>3
<1>5. ASSUME NEW c \in Bidx, c < NrBlocks(ind) PROVE ind.block[c] # RESERVED_DNO
  <2>1. c \notin S   BY <1>1, <1>2, <1>3, <1>5
  <2> QED  BY <2>1
<1>6. NrBlocks(ind) < YAF_IBLOCKS =>
        NrBlocks(ind) \in Bidx /\ ind.block[NrBlocks(ind)] = RESERVED_DNO
  BY <1>2, <1>3, InodeAssumption
<1> QED  BY <1>4, <1>5, <1>6

\* What yaf_get_block gives the file: the blocks N, that nobody has.
Given(i, b) == {c \in Bidx : NrBlocks(icache[i]) <= c /\ c <= b}

LEMMA GetBlockGives ==
  ASSUME TypeOK, NEW i \in Ino, NEW b \in Bidx, GetBlock(i, b, {}),
         NEW blk, blk = Allocated(icache[i], b, {}), NEW N, N = Given(i, b)
  PROVE  /\ \A c \in Bidx \ N : blk[c] = icache[i].block[c]
         /\ \A c \in N : blk[c] # RESERVED_DNO
         /\ \A c \in N : blk[c] # NotFound =>
              /\ blk[c] \notin dbmap /\ blk[c] \in dbmap'
              /\ \A e \in N : blk[e] = blk[c] => e = c
         /\ dbmap \subseteq dbmap'
         /\ \A x \in dbmap' \ dbmap : \E c \in N : blk[c] = x
<1> DEFINE nr == NrBlocks(icache[i])
<1>0. nr \in 0 .. YAF_IBLOCKS /\ nr \in Int /\ DATA_BITS \in Nat
  BY NrBlocksIs, InodeAssumption DEF TypeOK
<1>1. \A c \in Bidx : c \in Int   BY DEF Bidx
<1>2. ASSUME NEW c \in N PROVE blk[c] = FreeBit(dbmap, DATA_BITS, c - nr)
  <2>1. blk[c] = FreeBit(dbmap, DATA_BITS, Cardinality((nr .. c - 1) \ {}))
    BY DEF Given, Allocated
  <2>2. nr <= c /\ c - 1 \in Int   BY <1>1 DEF Given
  <2>3. Cardinality((nr .. c - 1) \ {}) = c - nr
    <3>1. (nr .. c - 1) \ {} = nr .. c - 1   OBVIOUS
    <3>2. Cardinality(nr .. c - 1) = IF nr > c - 1 THEN 0 ELSE (c - 1) - nr + 1
      BY <1>0, <2>2, FS_Interval
    <3>3. c \in Int   BY <1>1 DEF Given
    <3> HIDE DEF nr
    <3> QED  BY <1>0, <2>2, <3>1, <3>2, <3>3
  <2> QED  BY <2>1, <2>3
<1>3. \A c \in Bidx \ N : blk[c] = icache[i].block[c]
  BY DEF Given, Allocated
<1>4. N = nr .. b
  BY <1>0, InodeAssumption DEF Given, Bidx
<1>5. dbmap' = dbmap \cup ({blk[c] : c \in N} \ {NotFound})
  BY <1>4 DEF GetBlock
<1> HIDE DEF nr
<1>6. \A c \in N : blk[c] # RESERVED_DNO
  BY <1>2, FreeBits, InodeAssumption DEF RESERVED_DNO, NotFound
<1>7. ASSUME NEW c \in N, blk[c] # NotFound
      PROVE  /\ blk[c] \notin dbmap
             /\ \A e \in N : blk[e] = blk[c] => e = c
  <2>1. FreeBit(dbmap, DATA_BITS, c - nr) # NotFound   BY <1>2, <1>7
  <2>2. blk[c] \notin dbmap   BY <1>0, <1>2, <2>1, FreeBitOf
  <2>3. ASSUME NEW e \in N, blk[e] = blk[c] PROVE e = c
    <3>1. FreeBit(dbmap, DATA_BITS, e - nr) = FreeBit(dbmap, DATA_BITS, c - nr)
      BY <1>2, <2>3
    <3>2. e - nr = c - nr   BY <1>0, <2>1, <3>1, FreeBitOf
    <3>3. e \in Int /\ c \in Int   BY <1>1 DEF Given
    <3> QED  BY <1>0, <3>2, <3>3
  <2> QED  BY <2>2, <2>3
<1> QED  BY <1>3, <1>5, <1>6, <1>7

\* Below, as an order of blocks.
LEMMA BelowDown ==
  ASSUME NEW ind \in Inode, NEW b \in Bidx, NEW c \in Bidx, b <= c, Below(ind, c)
  PROVE  Below(ind, b)
<1>1. /\ b \in Int /\ c \in Int /\ ind.size \in Int
      /\ b * DENTRYS_PER_BLOCK = DENTRYS_PER_BLOCK * b
      /\ c * DENTRYS_PER_BLOCK = DENTRYS_PER_BLOCK * c
  BY InodeAssumption, Words DEF Bidx, Inode
<1>2. /\ DENTRYS_PER_BLOCK * b \in Int /\ DENTRYS_PER_BLOCK * c \in Int
      /\ DENTRYS_PER_BLOCK * b <= DENTRYS_PER_BLOCK * c
  BY <1>1, Product, InodeAssumption
<1> QED  BY <1>1, <1>2 DEF Below

\* The blocks a file that has the blocks of its size is given were not its.
LEMMA GivenAfter ==
  ASSUME TypeOK, Sized, NEW i \in Used, View(i) = icache[i], NEW b \in Bidx
  PROVE  /\ \A c \in Given(i, b) : View(i).block[c] = RESERVED_DNO
         /\ \A c \in Bidx : c < NrBlocks(icache[i]) <=> Below(View(i), c)
<1>0. i \in Ino /\ View(i) \in Inode   BY ViewType DEF Used
<1> DEFINE nr == NrBlocks(icache[i])
<1>1. ASSUME NEW c \in Bidx, Below(View(i), c), nr <= c PROVE FALSE
  <2>1. nr \in Bidx /\ View(i).block[nr] = RESERVED_DNO
    BY <1>0, <1>1, NrBlocksIs, InodeAssumption DEF Bidx
  <2>2. ~Below(View(i), nr)   BY <2>1 DEF Sized
  <2> HIDE DEF nr
  <2> QED  BY <1>0, <1>1, <2>1, <2>2, BelowDown
<1>2. ASSUME NEW c \in Bidx, c < nr PROVE Below(View(i), c)
  BY <1>0, <1>2, NrBlocksIs DEF Sized
<1>3. nr \in Int /\ \A c \in Bidx : c \in Int   BY <1>0, NrBlocksIs DEF Bidx
<1> HIDE DEF nr
<1>4. \A c \in Bidx : c < nr <=> Below(View(i), c)   BY <1>1, <1>2, <1>3
<1>5. \A c \in Given(i, b) : View(i).block[c] = RESERVED_DNO
  BY <1>3, <1>4 DEF Given, Sized, nr
<1> QED  BY <1>4, <1>5 DEF nr

\* A step of a file that leaves the entries of the directories alone.
LEMMA FileSettled ==
  ASSUME NsInv, IInv', NEW i \in Ino, IsFile(i),
         UNCHANGED <<ibmap, itable, incore, dcache, opens, refs, stuck, mounted>>,
         dirty' = dirty \cup {i},
         \A j \in Ino \ {i} : icache'[j] = icache[j],
         icache'[i].kind = icache[i].kind, icache'[i].nlink = icache[i].nlink,
         \A d \in Ino : IsDirectory(d) => \A b \in Bidx :
           Below(View(d), b) => blocks'[View(d).block[b]] = blocks[View(d).block[b]],
         Alone', (Steady => Sized /\ Owned)'
  PROVE  NsInv' /\ SameTree
<1>0. TypeOK /\ Caches   BY DEF NsInv, IInv
<1>1. /\ i \in incore /\ i \in Used /\ ~IsDirectory(i) /\ Used' = Used
      /\ View(i) = icache[i] /\ View(i)' = icache'[i]
  BY FileIs DEF View, Used
<1>2. \A j \in Used \ {i} : View(j)' = View(j)
  BY DEF View, Used
<1>3. \A d \in Ino : IsDirectory(d)' <=> IsDirectory(d)
  BY <1>1, <1>2 DEF IsDirectory
<1>4. ASSUME NEW d \in Ino, IsDirectory(d)
      PROVE  /\ View(d)' = View(d)
             /\ Live(d)' = Live(d)
             /\ \A k \in Live(d) : At(d, k)' = At(d, k)
  <2>1. View(d)' = View(d)   BY <1>1, <1>2, <1>4 DEF IsDirectory
  <2>2. \A k \in 0 .. View(d).size - 1 : At(d, k)' = At(d, k)
    <3> SUFFICES ASSUME NEW k \in 0 .. View(d).size - 1 PROVE At(d, k)' = At(d, k)
      OBVIOUS
    <3>1. /\ k \div DENTRYS_PER_BLOCK \in Bidx
          /\ Below(View(d), k \div DENTRYS_PER_BLOCK)
      BY <1>0, ViewType, PlaceOf
    <3>2. blocks'[BlockAt(View(d), k)] = blocks[BlockAt(View(d), k)]
      BY <1>4, <3>1 DEF BlockAt
    <3> QED  BY <2>1, <3>2 DEF At, EntryAt, BlockAt
  <2> QED  BY <2>1, <2>2 DEF Live
<1>5. Shape'
  <2>1. \A j \in Used : View(j)'.kind = View(j).kind   BY <1>1, <1>2
  <2>2. IsDirectory(ROOT_INO)' /\ (RESERVED_INO \in ibmap)'
    BY <1>3, Words DEF NsInv, Shape
  <2>3. ASSUME NEW d \in Ino, IsDirectory(d)', NEW b \in Bidx
        PROVE  (IF Below(View(d), b) THEN View(d).block[b] \in Dno
                ELSE View(d).block[b] = RESERVED_DNO)'
    <3>1. IsDirectory(d) /\ View(d)' = View(d)   BY <1>3, <1>4, <2>3
    <3> QED  BY <3>1 DEF NsInv, Shape, Below
  <2> QED  BY <1>1, <2>1, <2>2, <2>3 DEF NsInv, Shape
<1>6. Caches'
  <2>1. \A j \in incore \ Used : icache'[j] = icache[j]   BY <1>0, <1>1 DEF TypeOK
  <2> QED  BY <1>0, <1>1, <2>1 DEF Caches
<1>7. \A j \in Used : /\ View(j)'.kind = View(j).kind /\ View(j)'.nlink = View(j).nlink
  BY <1>1, <1>2
<1>8. \A d \in Ino, n \in Names :
        dcache'[d][n] # Uncached => d \in Used /\ dcache'[d][n] = Entry(d, n)
  BY DEF NsInv, DcacheAgrees
<1> QED  BY <1>4, <1>5, <1>6, <1>7, <1>8, Settled

LEMMA Truncate_Inv ==
  ASSUME NsInv, IInv', NEW i \in Ino, NEW size, Truncate(i, size)
  PROVE  NsInv' /\ SameTree
<1>0. TypeOK   BY DEF NsInv, IInv
<1>1. IsFile(i) /\ ~Steady
  BY DEF Truncate, Steady
<1>2. /\ UNCHANGED <<ibmap, dbmap, itable, blocks, incore, dcache, opens, refs, stuck,
                     mounted>>
      /\ dirty' = dirty \cup {i}
      /\ icache' = [icache EXCEPT ![i].size = size]
  BY DEF Truncate, disk, users
<1>3. /\ \A j \in Ino \ {i} : icache'[j] = icache[j]
      /\ icache'[i].kind = icache[i].kind /\ icache'[i].nlink = icache[i].nlink
      /\ icache'[i].block = icache[i].block
  BY <1>0, <1>2 DEF TypeOK, Inode
<1>4. Used' = Used /\ \A j \in Used : View(j)'.block = View(j).block
  BY <1>2, <1>3 DEF View, Used
<1>5. Alone'   BY <1>2, <1>4 DEF NsInv, Alone
<1> QED  BY <1>1, <1>2, <1>3, <1>5, FileSettled DEF Steady

\* yaf_get_block leaves the other inodes their blocks.
LEMMA GetBlockAlone ==
  ASSUME NsInv, NEW i \in Ino, IsFile(i), NEW b \in Bidx, GetBlock(i, b, {}),
         UNCHANGED <<ibmap, itable, incore>>,
         \A j \in Ino \ {i} : icache'[j] = icache[j],
         icache'[i].block = Allocated(icache[i], b, {})
  PROVE  /\ Alone'
         /\ Sized /\ Owned => Owned'
<1> DEFINE N == Given(i, b)
<1>0. TypeOK   BY DEF NsInv, IInv
<1>1. /\ i \in incore /\ i \in Used /\ Used' = Used
      /\ View(i) = icache[i] /\ View(i)' = icache'[i]
  BY FileIs DEF View, Used
<1>2. \A j \in Used \ {i} : View(j)' = View(j)
  BY DEF View, Used
<1> HIDE DEF N
<1>3. N \in SUBSET Bidx   BY DEF N, Given
<1>4. /\ \A c \in Bidx \ N : View(i)'.block[c] = View(i).block[c]
      /\ \A c \in N : View(i)'.block[c] # NotFound =>
              /\ View(i)'.block[c] \notin dbmap /\ View(i)'.block[c] \in dbmap'
              /\ \A e \in N : View(i)'.block[e] = View(i)'.block[c] => e = c
      /\ dbmap \subseteq dbmap'
      /\ \A x \in dbmap' \ dbmap : \E c \in N : View(i)'.block[c] = x
  BY <1>0, <1>1, GetBlockGives DEF N
<1>5. Alone'   BY <1>0, <1>1, <1>2, <1>3, <1>4, AloneKept DEF NsInv
<1>6. ASSUME Sized, Owned PROVE Owned'
  <2>1. \A c \in N : View(i).block[c] = RESERVED_DNO
    BY <1>0, <1>1, <1>6, GivenAfter DEF N
  <2> QED  BY <1>0, <1>1, <1>2, <1>3, <1>4, <1>6, <2>1, OwnedKept
<1> QED  BY <1>5, <1>6

\* The block a file is written to is in no directory.
LEMMA WrittenElsewhere ==
  ASSUME NsInv, NEW i \in Ino, IsFile(i), NEW b \in Bidx, GetBlock(i, b, {}),
         NEW x \in Dno, x = Allocated(icache[i], b, {})[b],
         NEW d \in Ino, IsDirectory(d), NEW c \in Bidx, Below(View(d), c)
  PROVE  View(d).block[c] # x
<1>1. TypeOK /\ Shape /\ Alone   BY DEF NsInv, IInv
<1>2. i \in Used /\ View(i) = icache[i] /\ i # d /\ d \in Used
  BY FileIs DEF IsDirectory
<1>3. /\ Real(x) /\ x # NotFound
  BY InodeAssumption DEF Real, Dno, RESERVED_DNO, NotFound
<1>4. SUFFICES ASSUME View(d).block[c] = x PROVE FALSE
  OBVIOUS
<1>5. x \in dbmap   BY <1>1, <1>2, <1>3, <1>4 DEF Alone
<1>6. CASE b \in Given(i, b)   BY <1>1, <1>3, <1>5, <1>6, GetBlockGives
<1>7. CASE b \notin Given(i, b)
  <2>1. View(i).block[b] = x   BY <1>1, <1>2, <1>7, GetBlockGives
  <2> QED  BY <1>1, <1>2, <1>3, <1>4, <2>1 DEF Alone
<1> QED  BY <1>6, <1>7

\* After a write the file has the blocks of its size, if it had them before.
LEMMA WriteSizes ==
  ASSUME NsInv, IInv', NEW i \in Ino, NEW b \in Bidx, Write(i, b, {}), Sized
  PROVE  Sized'
<1> DEFINE N == Given(i, b)
           end == (b + 1) * DENTRYS_PER_BLOCK
<1>0. TypeOK /\ TypeOK'  BY DEF NsInv, IInv
<1>1. IsFile(i) /\ GetBlock(i, b, {})   BY DEF Write
<1>2. /\ i \in incore /\ i \in Used /\ Used' = Used /\ incore' = incore
      /\ View(i) = icache[i] /\ View(i)' = icache'[i]
  BY <1>1, FileIs DEF Write, View, Used
<1>3. \A j \in Used \ {i} : View(j)' = View(j)
  BY <1>0 DEF Write, View, Used, TypeOK
<1>4. /\ View(i)'.block = Allocated(icache[i], b, {})
      /\ View(i)'.size = Max({View(i).size, end})
  BY <1>0, <1>2 DEF Write, TypeOK, Inode
<1>5. /\ b \in Int /\ b + 1 \in Int /\ end \in Int /\ View(i).size \in Int
      /\ end = DENTRYS_PER_BLOCK * (b + 1)
      /\ \A c \in Bidx : /\ c \in Int
                         /\ c * DENTRYS_PER_BLOCK = DENTRYS_PER_BLOCK * c
                         /\ c * DENTRYS_PER_BLOCK \in Int
  <2>1. View(i).size \in Int   BY <1>0, <1>2, ViewType, Words DEF Inode, Used
  <2>2. b \in Int /\ b + 1 \in Int /\ \A c \in Bidx : c \in Int   BY DEF Bidx
  <2> QED  BY <2>1, <2>2, InodeAssumption
<1> HIDE DEF end
<1>6. View(i)'.size = IF View(i).size >= end THEN View(i).size ELSE end
  BY <1>4, <1>5, MaxPair
<1>7. ASSUME NEW c \in Bidx
      PROVE  View(i)'.block[c] # RESERVED_DNO <=> Below(View(i)', c)
  <2>1. c < NrBlocks(icache[i]) <=> Below(View(i), c)
    BY <1>0, <1>2, GivenAfter
  <2>2. Below(View(i)', c) <=> Below(View(i), c) \/ c * DENTRYS_PER_BLOCK < end
    BY <1>5, <1>6 DEF Below
  <2>3. c <= b => c * DENTRYS_PER_BLOCK < end
    <3>1. CASE c <= b
      <4>1. /\ DENTRYS_PER_BLOCK * c <= DENTRYS_PER_BLOCK * b
            /\ DENTRYS_PER_BLOCK * b \in Int
        BY <1>5, <3>1, Product, InodeAssumption
      <4>2. end = DENTRYS_PER_BLOCK * b + DENTRYS_PER_BLOCK
        BY <1>5, InodeAssumption
      <4> QED  BY <1>5, <4>1, <4>2, InodeAssumption
    <3> QED  BY <3>1
  <2>4. b < c => ~(c * DENTRYS_PER_BLOCK < end)
    <3>1. CASE b < c
      <4>1. b + 1 <= c   BY <1>5, <3>1
      <4>2. DENTRYS_PER_BLOCK * (b + 1) <= DENTRYS_PER_BLOCK * c
        BY <1>5, <4>1, Product, InodeAssumption
      <4> QED  BY <1>5, <4>2
    <3> QED  BY <3>1
  <2>5. Below(View(i)', c) <=> c < NrBlocks(icache[i]) \/ c <= b
    BY <1>5, <2>1, <2>2, <2>3, <2>4
  <2>6. NrBlocks(icache[i]) \in Int   BY <1>0, NrBlocksIs DEF TypeOK
  <2>7. CASE c \in N
    <3>1. View(i)'.block[c] # RESERVED_DNO   BY <1>0, <1>1, <1>4, <2>7, GetBlockGives
    <3>2. c <= b   BY <2>7 DEF Given
    <3> QED  BY <2>5, <3>1, <3>2
  <2>8. CASE c \notin N
    <3>1. View(i)'.block[c] = View(i).block[c]
      BY <1>0, <1>1, <1>2, <1>4, <2>8, GetBlockGives
    <3>2. View(i).block[c] # RESERVED_DNO <=> c < NrBlocks(icache[i])
      BY <1>2, <2>1 DEF Sized
    <3>3. c <= b => c < NrBlocks(icache[i])   BY <1>5, <2>6, <2>8 DEF Given
    <3> QED  BY <2>5, <3>1, <3>2, <3>3
  <2> QED  BY <2>7, <2>8
<1>8. ASSUME NEW j \in Used, j # i, NEW c \in Bidx
      PROVE  View(j)'.block[c] # RESERVED_DNO <=> Below(View(j)', c)
  BY <1>3, <1>8 DEF Sized
<1> QED  BY <1>2, <1>7, <1>8 DEF Sized, Below

LEMMA Write_Inv ==
  ASSUME NsInv, IInv', NEW i \in Ino, NEW b \in Bidx, Write(i, b, {})
  PROVE  NsInv' /\ SameTree
<1>0. TypeOK   BY DEF NsInv, IInv
<1>1. /\ IsFile(i) /\ GetBlock(i, b, {})
      /\ UNCHANGED <<ibmap, itable, incore, dcache, opens, refs, stuck, mounted>>
      /\ dirty' = dirty \cup {i}
  BY DEF Write, users
<1>2. /\ \A j \in Ino \ {i} : icache'[j] = icache[j]
      /\ icache'[i].kind = icache[i].kind /\ icache'[i].nlink = icache[i].nlink
      /\ icache'[i].block = Allocated(icache[i], b, {})
  BY <1>0 DEF Write, TypeOK, Inode
<1>3. Alone' /\ (Sized /\ Owned => Owned')   BY <1>1, <1>2, GetBlockAlone
<1>4. (Steady => Sized /\ Owned)'
  BY <1>3, WriteSizes DEF NsInv, Steady
<1>5. ASSUME NEW d \in Ino, IsDirectory(d), NEW c \in Bidx, Below(View(d), c)
      PROVE  blocks'[View(d).block[c]] = blocks[View(d).block[c]]
  <2> DEFINE x == Allocated(icache[i], b, {})[b]
  <2>1. CASE Readable(x)
    <3>1. View(d).block[c] # x /\ View(d).block[c] \in Dno /\ x \in Dno
      BY <1>1, <1>5, <2>1, WrittenElsewhere DEF Readable, NsInv, Shape
    <3>2. blocks' = [blocks EXCEPT ![x] = [s \in Slot |-> FileData]]
      BY <2>1 DEF Write
    <3> QED  BY <1>0, <3>1, <3>2 DEF TypeOK
  <2>2. CASE ~Readable(x)   BY <2>2 DEF Write
  <2> QED  BY <2>1, <2>2
<1> QED  BY <1>1, <1>2, <1>3, <1>4, <1>5, FileSettled

LEMMA WriteFails_Inv ==
  ASSUME NsInv, IInv', NEW i \in Ino, NEW b \in Bidx, WriteFails(i, b, {})
  PROVE  NsInv' /\ SameTree
<1>0. TypeOK   BY DEF NsInv, IInv
<1>1. /\ IsFile(i) /\ GetBlock(i, b, {}) /\ ~Steady
      /\ UNCHANGED <<ibmap, itable, blocks, incore, dcache, opens, refs, stuck, mounted>>
      /\ dirty' = dirty \cup {i}
  BY DEF WriteFails, Steady, users
<1>2. /\ \A j \in Ino \ {i} : icache'[j] = icache[j]
      /\ icache'[i].kind = icache[i].kind /\ icache'[i].nlink = icache[i].nlink
      /\ icache'[i].block = Allocated(icache[i], b, {})
  BY <1>0 DEF WriteFails, TypeOK, Inode
<1>3. Alone'   BY <1>1, <1>2, GetBlockAlone
<1> QED  BY <1>1, <1>2, <1>3, FileSettled DEF Steady
-----------------------------------------------------------------------------
(* Setting an entry of a directory.                                            *)

\* The blocks of directory d, which has become dir, are on the device, and in
\* no other place.
Apart(d, dir) ==
  \A b \in Bidx : Below(dir, b) =>
    /\ dir.block[b] \in Dno
    /\ \A c \in Bidx : /\ dir.block[c] = dir.block[b] => c = b
                       /\ \A e \in Used \ {d} : View(e).block[c] # dir.block[b]

LEMMA ApartInv ==
  ASSUME NsInv, NEW d \in Ino, IsDirectory(d)
  PROVE  Apart(d, View(d))
<1> SUFFICES ASSUME NEW b \in Bidx, Below(View(d), b)
             PROVE  /\ View(d).block[b] \in Dno
                    /\ \A c \in Bidx :
                         /\ View(d).block[c] = View(d).block[b] => c = b
                         /\ \A e \in Used \ {d} : View(e).block[c] # View(d).block[b]
  BY DEF Apart
<1>1. View(d).block[b] \in Dno   BY DEF NsInv, Shape
<1>2. Real(View(d).block[b])
  BY <1>1, InodeAssumption DEF Real, Dno, RESERVED_DNO, NotFound
<1>3. d \in Used   BY DEF IsDirectory
<1> QED  BY <1>1, <1>2, <1>3 DEF NsInv, Alone

LEMMA SetEntryAt ==
  ASSUME NEW bs \in Blocks, NEW ind, NEW k, NEW v, NEW jnd, NEW l,
         BlockAt(ind, k) \in Dno, k % DENTRYS_PER_BLOCK \in Slot
  PROVE  /\ BlockAt(jnd, l) = BlockAt(ind, k) /\ l % DENTRYS_PER_BLOCK = k % DENTRYS_PER_BLOCK
              => EntryAt(SetEntry(bs, ind, k, v), jnd, l) = v
         /\ BlockAt(jnd, l) \in Dno /\ l % DENTRYS_PER_BLOCK \in Slot
            /\ ~(BlockAt(jnd, l) = BlockAt(ind, k)
                 /\ l % DENTRYS_PER_BLOCK = k % DENTRYS_PER_BLOCK)
              => EntryAt(SetEntry(bs, ind, k, v), jnd, l) = EntryAt(bs, jnd, l)
  BY DEF Blocks, SetEntry, EntryAt

\* The entry is set, and no other.
LEMMA SetApart ==
  ASSUME TypeOK, Shape, NEW bs \in Blocks, NEW d \in Ino, NEW dir \in Inode, Apart(d, dir),
         NEW k \in 0 .. dir.size - 1, NEW v
  PROVE  /\ \A l \in 0 .. dir.size - 1 :
              EntryAt(SetEntry(bs, dir, k, v), dir, l)
                = IF l = k THEN v ELSE EntryAt(bs, dir, l)
         /\ \A e \in Ino \ {d} : IsDirectory(e) => \A l \in 0 .. View(e).size - 1 :
              EntryAt(SetEntry(bs, dir, k, v), View(e), l) = EntryAt(bs, View(e), l)
<1>1. ASSUME NEW l \in 0 .. dir.size - 1
      PROVE  /\ l \in Nat /\ l \div DENTRYS_PER_BLOCK \in Bidx
             /\ l % DENTRYS_PER_BLOCK \in Slot
             /\ Below(dir, l \div DENTRYS_PER_BLOCK) /\ BlockAt(dir, l) \in Dno
  BY PlaceOf DEF Apart, BlockAt
<1>2. BlockAt(dir, k) \in Dno /\ k % DENTRYS_PER_BLOCK \in Slot   BY <1>1
<1>3. ASSUME NEW l \in 0 .. dir.size - 1
      PROVE  EntryAt(SetEntry(bs, dir, k, v), dir, l)
               = IF l = k THEN v ELSE EntryAt(bs, dir, l)
  <2>1. CASE l = k   BY <1>2, <2>1, SetEntryAt
  <2>2. CASE l # k
    <3>1. BlockAt(dir, l) = BlockAt(dir, k)
            => l \div DENTRYS_PER_BLOCK = k \div DENTRYS_PER_BLOCK
      BY <1>1 DEF Apart, BlockAt
    <3>2. ~(BlockAt(dir, l) = BlockAt(dir, k)
            /\ l % DENTRYS_PER_BLOCK = k % DENTRYS_PER_BLOCK)
      BY <1>1, <2>2, <3>1, OnePlace
    <3> QED  BY <1>1, <1>2, <2>2, <3>2, SetEntryAt
  <2> QED  BY <2>1, <2>2
<1>4. ASSUME NEW e \in Ino \ {d}, IsDirectory(e), NEW l \in 0 .. View(e).size - 1
      PROVE  EntryAt(SetEntry(bs, dir, k, v), View(e), l) = EntryAt(bs, View(e), l)
  <2>1. e \in Used \ {d} /\ View(e) \in Inode   BY <1>4, ViewType DEF IsDirectory
  <2>2. l \div DENTRYS_PER_BLOCK \in Bidx /\ l % DENTRYS_PER_BLOCK \in Slot
    BY <2>1, PlaceOf
  <2>3. BlockAt(View(e), l) \in Dno   BY <1>4, DirReadable
  <2>4. BlockAt(View(e), l) # BlockAt(dir, k)
    BY <1>1, <2>1, <2>2 DEF Apart, BlockAt
  <2> QED  BY <1>2, <2>2, <2>3, <2>4, SetEntryAt
<1> QED  BY <1>3, <1>4

-----------------------------------------------------------------------------
(* yaf_get_free_dentry().                                                      *)

\* The place of the block that a directory is extended by.
Added(ind) == IF NeedsBlock(ind) THEN {ind.size \div DENTRYS_PER_BLOCK} ELSE {}

\* The directory that it returns, and the bitmap.
LEMMA GrownDir ==
  ASSUME NsInv, NEW d \in Ino, IsDirectory(d), NEW ind, ind = View(d), ~NoSlot(ind, {}),
         NEW dir, dir = DirFor(ind, {})
  PROVE  /\ dir \in Inode /\ dir.kind = ind.kind /\ dir.nlink = ind.nlink
         /\ dir.size = IF Grows(ind) THEN ind.size + 1 ELSE ind.size
         /\ Added(ind) \in SUBSET Bidx /\ \A b, c \in Added(ind) : b = c
         /\ \A b \in Bidx \ Added(ind) : dir.block[b] = ind.block[b]
         /\ \A b \in Added(ind) : /\ ind.block[b] = RESERVED_DNO
                                  /\ dir.block[b] \in Dno \ dbmap
                                  /\ dir.block[b] \in DbmapFor(ind, {})
         /\ dbmap \subseteq DbmapFor(ind, {})
         /\ \A x \in DbmapFor(ind, {}) \ dbmap : \E b \in Added(ind) : dir.block[b] = x
<1>0. TypeOK /\ ind \in Inode   BY ViewType DEF NsInv, IInv
<1>1. dir \in Inode   BY <1>0, SlotType
<1>2. CASE ~Grows(ind)
  <2>1. dir = ind /\ Added(ind) = {} /\ DbmapFor(ind, {}) = dbmap
    BY <1>2 DEF DirFor, Added, NeedsBlock, DbmapFor
  <2> QED  BY <1>0, <1>2, <2>1
<1>3. CASE Grows(ind)
  <2>1. ind.size \in 0 .. MAX_DENTRYS - 1
    BY <1>0, <1>3, Words DEF NoSlot, Inode
  <2>2. ind.size \div DENTRYS_PER_BLOCK \in Bidx   BY <2>1, Position
  <2>3. /\ dir.kind = ind.kind /\ dir.nlink = ind.nlink /\ dir.size = ind.size + 1
        /\ dir.block = IF NeedsBlock(ind)
                       THEN [ind.block EXCEPT ![ind.size \div DENTRYS_PER_BLOCK] = FreeDno({})]
                       ELSE ind.block
    BY <1>0, <1>3 DEF DirFor, Inode
  <2>4. CASE ~NeedsBlock(ind)
    BY <1>1, <1>3, <2>3, <2>4 DEF Added, DbmapFor
  <2>5. CASE NeedsBlock(ind)
    <3>0. Added(ind) = {ind.size \div DENTRYS_PER_BLOCK}   BY <2>5 DEF Added
    <3>1. ind.block[ind.size \div DENTRYS_PER_BLOCK] = RESERVED_DNO
      BY <1>3, <2>1, <2>5, Words DEF NoSlot, BlockAt
    <3>2. dir.block[ind.size \div DENTRYS_PER_BLOCK] = FreeDno({})
      BY <1>0, <2>2, <2>3, <2>5 DEF Inode
    <3>3. FreeDno({}) \in Dno
      BY <1>3, <2>1, <3>2, Words DEF NoSlot, BlockAt, Readable
    <3>4. FreeDno({}) # NotFound
      BY <3>3, InodeAssumption DEF Dno
    <3>5. FreeDno({}) \notin dbmap   BY <3>4, FreeBitOf, InodeAssumption DEF FreeDno
    <3>6. DbmapFor(ind, {}) = dbmap \cup {FreeDno({})}   BY <2>5, <3>4 DEF DbmapFor
    <3>7. \A b \in Bidx \ Added(ind) : dir.block[b] = ind.block[b]
      BY <1>0, <2>3, <2>5, <3>0 DEF Inode
    <3> QED  BY <1>1, <1>3, <2>2, <2>3, <3>0, <3>1, <3>2, <3>3, <3>5, <3>6, <3>7
  <2> QED  BY <2>4, <2>5
<1> QED  BY <1>2, <1>3

\* The blocks below a size, by the block its last entry is in.
LEMMA BelowQuotient ==
  ASSUME NEW size \in Nat, NEW b \in Nat, NEW q, q = size \div DENTRYS_PER_BLOCK
  PROVE  /\ b * DENTRYS_PER_BLOCK < size + 1 <=> b <= q
         /\ b * DENTRYS_PER_BLOCK < size <=>
              IF size % DENTRYS_PER_BLOCK = 0 THEN b < q ELSE b <= q
<1> DEFINE P == DENTRYS_PER_BLOCK
<1>0. P \in Nat \ {0}   BY InodeAssumption
<1> HIDE DEF P
<1>1. /\ q \in Nat /\ P * q \in Nat /\ P * q <= size /\ size < P * q + P
      /\ size % P = size - P * q
  BY <1>0, Quotient DEF P
<1>2. /\ b * P = P * b /\ P * b \in Int /\ P * (b + 1) = P * b + P
      /\ P * (q + 1) = P * q + P
  BY <1>0, <1>1
<1>3. b <= q => P * b <= P * q   BY <1>0, <1>1, Product
<1>4. q + 1 <= b => P * (q + 1) <= P * b   BY <1>0, <1>1, Product
<1>5. b + 1 <= q => P * (b + 1) <= P * q   BY <1>0, <1>1, Product
<1>6. q <= b => P * q <= P * b   BY <1>0, <1>1, Product
<1>7. b * P < size + 1 <=> b <= q   BY <1>0, <1>1, <1>2, <1>3, <1>4
<1>8. b * P < size <=> IF size % P = 0 THEN b < q ELSE b <= q
  <2>1. CASE size % P = 0
    <3>1. size = P * q   BY <1>1, <2>1
    <3> QED  BY <1>0, <1>1, <1>2, <1>5, <1>6, <2>1, <3>1
  <2>2. CASE size % P # 0
    <3>1. P * q < size   BY <1>1, <2>2
    <3> QED  BY <1>0, <1>1, <1>2, <1>3, <1>4, <2>2, <3>1
  <2> QED  BY <2>1, <2>2
<1> QED  BY <1>7, <1>8 DEF P

\* It has the blocks its size needs, and no place has one of them.
LEMMA GrownShape ==
  ASSUME NsInv, NEW d \in Ino, IsDirectory(d), NEW ind, ind = View(d), ~NoSlot(ind, {}),
         NEW dir, dir = DirFor(ind, {})
  PROVE  /\ \A b \in Bidx : IF Below(dir, b) THEN dir.block[b] \in Dno
                            ELSE dir.block[b] = RESERVED_DNO
         /\ \A k \in 0 .. ind.size - 1 : BlockAt(dir, k) = BlockAt(ind, k)
         /\ Apart(d, dir)
<1>0. TypeOK /\ Shape /\ Alone /\ ind \in Inode
  BY ViewType DEF NsInv, IInv
<1>1. ind.size \in Nat /\ ind.size \in 0 .. MAX_DENTRYS
  BY <1>0, Words DEF Inode
<1>2. ASSUME NEW b \in Bidx
      PROVE  Below(dir, b) <=> Below(ind, b) \/ b \in Added(ind)
  <2>1. b \in Nat   BY DEF Bidx
  <2>2. ind.size \div DENTRYS_PER_BLOCK \in Nat   BY <1>1, Quotient, InodeAssumption
  <2>3. CASE ~Grows(ind)
    BY <2>3, GrownDir DEF Below, Added, NeedsBlock
  <2>4. CASE Grows(ind)
    <3>1. dir.size = ind.size + 1   BY <2>4, GrownDir
    <3>2. Below(dir, b) <=> b <= ind.size \div DENTRYS_PER_BLOCK
      BY <1>1, <2>1, <3>1, BelowQuotient DEF Below
    <3>3. Below(ind, b) <=> IF ind.size % DENTRYS_PER_BLOCK = 0
                            THEN b < ind.size \div DENTRYS_PER_BLOCK
                            ELSE b <= ind.size \div DENTRYS_PER_BLOCK
      BY <1>1, <2>1, BelowQuotient DEF Below
    <3> QED  BY <2>1, <2>2, <2>4, <3>2, <3>3 DEF Added, NeedsBlock
  <2> QED  BY <2>3, <2>4
<1>3. ASSUME NEW b \in Bidx
      PROVE  IF Below(dir, b) THEN dir.block[b] \in Dno ELSE dir.block[b] = RESERVED_DNO
  <2>1. CASE b \in Added(ind)   BY <1>2, <2>1, GrownDir
  <2>2. CASE b \notin Added(ind)
    <3>1. dir.block[b] = ind.block[b]   BY <2>2, GrownDir
    <3> QED  BY <1>0, <1>2, <2>2, <3>1 DEF Shape
  <2> QED  BY <2>1, <2>2
<1>4. ASSUME NEW k \in 0 .. ind.size - 1 PROVE BlockAt(dir, k) = BlockAt(ind, k)
  <2>1. k \div DENTRYS_PER_BLOCK \in Bidx /\ Below(ind, k \div DENTRYS_PER_BLOCK)
    BY <1>0, PlaceOf
  <2>2. ind.block[k \div DENTRYS_PER_BLOCK] \in Dno   BY <1>0, <2>1 DEF Shape
  <2>3. RESERVED_DNO \notin Dno   BY InodeAssumption DEF Dno, RESERVED_DNO, NotFound
  <2>4. k \div DENTRYS_PER_BLOCK \notin Added(ind)   BY <2>2, <2>3, GrownDir
  <2> QED  BY <2>1, <2>4, GrownDir DEF BlockAt
<1>5. Apart(d, dir)
  <2> SUFFICES ASSUME NEW b \in Bidx, Below(dir, b), NEW c \in Bidx
               PROVE  /\ dir.block[b] \in Dno
                      /\ dir.block[c] = dir.block[b] => c = b
                      /\ \A e \in Used \ {d} : View(e).block[c] # dir.block[b]
    BY DEF Apart
  <2>1. dir.block[b] \in Dno   BY <1>3
  <2>2. Real(dir.block[b])
    BY <2>1, InodeAssumption DEF Real, Dno, RESERVED_DNO, NotFound
  <2>3. d \in Used   BY DEF IsDirectory
  <2>4. CASE b \in Added(ind)
    <3>1. dir.block[b] \notin dbmap   BY <2>4, GrownDir
    <3>2. \A e \in Used : View(e).block[c] # dir.block[b]
      BY <1>0, <2>2, <3>1 DEF Alone
    <3>3. dir.block[c] = dir.block[b] => c \in Added(ind)
      BY <2>3, <3>2, GrownDir
    <3> QED  BY <2>1, <2>4, <3>2, <3>3, GrownDir
  <2>5. CASE b \notin Added(ind)
    <3>1. dir.block[b] = ind.block[b] /\ dir.block[b] \in dbmap
      BY <1>0, <2>2, <2>3, <2>5, GrownDir DEF Alone
    <3>2. \A e \in Used : View(e).block[c] = dir.block[b] => e = d /\ c = b
      BY <1>0, <2>2, <2>3, <3>1 DEF Alone
    <3>3. dir.block[c] = dir.block[b] => c \notin Added(ind)
      BY <3>1, GrownDir
    <3>4. dir.block[c] = dir.block[b] => c = b
      BY <2>3, <3>2, <3>3, GrownDir
    <3> QED  BY <2>1, <3>2, <3>4
  <2> QED  BY <2>4, <2>5
<1> QED  BY <1>3, <1>4, <1>5

\* Its entries are those it had, and perhaps an unused one; the slot is unused.
LEMMA GrownEntries ==
  ASSUME NsInv, NEW d \in Ino, IsDirectory(d), NEW ind, ind = View(d), ~NoSlot(ind, {}),
         NEW dir, dir = DirFor(ind, {}), NEW bs, bs = BlocksFor(ind, {})
  PROVE  /\ bs \in Blocks
         /\ \A k \in 0 .. ind.size - 1 : EntryAt(bs, dir, k) = At(d, k)
         /\ \A k \in 0 .. dir.size - 1 :
              k \notin 0 .. ind.size - 1 => EntryAt(bs, dir, k).d_ino = RESERVED_INO
         /\ \A e \in Ino \ {d} : IsDirectory(e) => \A l \in 0 .. View(e).size - 1 :
              EntryAt(bs, View(e), l) = At(e, l)
<1>0. TypeOK /\ Shape /\ ind \in Inode /\ blocks \in Blocks
  BY ViewType DEF NsInv, IInv, TypeOK, Blocks
<1>1. ind.size \in Nat   BY <1>0, Words DEF Inode
<1>2. /\ dir \in Inode /\ Apart(d, dir) /\ bs \in Blocks
      /\ dir.size = IF Grows(ind) THEN ind.size + 1 ELSE ind.size
      /\ \A k \in 0 .. ind.size - 1 : EntryAt(blocks, dir, k) = At(d, k)
  BY <1>0, GrownDir, GrownShape, SlotType DEF EntryAt, At
<1>3. CASE ~Grows(ind)
  <2>1. bs = blocks   BY <1>3 DEF BlocksFor
  <2> QED  BY <1>0, <1>2, <1>3, <2>1 DEF At
<1>4. CASE Grows(ind)
  <2> DEFINE v == [EntryAt(blocks, dir, ind.size) EXCEPT !.d_ino = RESERVED_INO]
  <2>1. bs = SetEntry(blocks, dir, ind.size, v)   BY <1>4 DEF BlocksFor
  <2>2. ind.size \in 0 .. dir.size - 1   BY <1>1, <1>2, <1>4
  <2>3. EntryAt(blocks, dir, ind.size) \in Dentry
    <3>1. ind.size \div DENTRYS_PER_BLOCK \in Bidx
          /\ ind.size % DENTRYS_PER_BLOCK \in Slot
          /\ Below(dir, ind.size \div DENTRYS_PER_BLOCK)
      BY <1>2, <2>2, PlaceOf
    <3>2. BlockAt(dir, ind.size) \in Dno   BY <1>2, <3>1 DEF Apart, BlockAt
    <3> QED  BY <1>0, <3>1, <3>2 DEF EntryAt, Blocks
  <2>4. v.d_ino = RESERVED_INO   BY <2>3 DEF Dentry
  <2> HIDE DEF v
  <2>5. /\ \A l \in 0 .. dir.size - 1 :
             EntryAt(bs, dir, l) = IF l = ind.size THEN v ELSE EntryAt(blocks, dir, l)
        /\ \A e \in Ino \ {d} : IsDirectory(e) => \A l \in 0 .. View(e).size - 1 :
             EntryAt(bs, View(e), l) = EntryAt(blocks, View(e), l)
    BY <1>0, <1>2, <2>1, <2>2, SetApart
  <2>6. ASSUME NEW k \in 0 .. ind.size - 1 PROVE EntryAt(bs, dir, k) = At(d, k)
    BY <1>1, <1>2, <1>4, <2>5
  <2>7. \A k \in 0 .. dir.size - 1 : k \notin 0 .. ind.size - 1 => k = ind.size
    BY <1>1, <1>2, <1>4
  <2> QED  BY <1>2, <2>4, <2>5, <2>6, <2>7 DEF At
<1> QED  BY <1>3, <1>4

LEMMA SlotFree ==
  ASSUME NsInv, NEW d \in Ino, IsDirectory(d), NEW ind, ind = View(d), ~NoSlot(ind, {}),
         NEW dir, dir = DirFor(ind, {})
  PROVE  SlotFor(ind) \in 0 .. dir.size - 1 /\ SlotFor(ind) \notin Live(d)
<1>0. TypeOK /\ Shape /\ ind \in Inode   BY ViewType DEF NsInv, IInv
<1>1. ind.size \in Nat   BY <1>0, Words DEF Inode
<1>2. dir.size = IF Grows(ind) THEN ind.size + 1 ELSE ind.size   BY GrownDir
<1>3. CASE Grows(ind)
  <2>1. SlotFor(ind) = ind.size   BY <1>3 DEF SlotFor, Grows
  <2> QED  BY <1>1, <1>2, <1>3, <2>1 DEF Live
<1>4. CASE ~Grows(ind)
  <2>1. Unused(ind) # {} /\ SlotFor(ind) = Min(Unused(ind))   BY <1>4 DEF SlotFor, Grows
  <2>2. Unused(ind) \subseteq 0 .. ind.size - 1 /\ Unused(ind) \in SUBSET Nat
    BY <1>0, <1>1, StopsInside
  <2>3. SlotFor(ind) \in Unused(ind)   BY <2>1, <2>2, MinIn
  <2>4. Readable(BlockAt(ind, SlotFor(ind)))   BY <1>0, <2>2, <2>3, DirReadable
  <2>5. At(d, SlotFor(ind)).d_ino = RESERVED_INO
    BY <2>3, <2>4 DEF Unused, Stops, At
  <2> QED  BY <1>2, <1>4, <2>2, <2>3, <2>5 DEF Live
<1> QED  BY <1>3, <1>4

\* A full inode table: the directory has grown, and no name is in it.
LEMMA CreateNoInode_Inv ==
  ASSUME NsInv, IInv', NEW d \in Ino, NEW n \in Names, CreateNoInode(d, n, {})
  PROVE  NsInv' /\ SameTree
<1> DEFINE ind == icache[d]
           dir == DirFor(ind, {})
           bs == BlocksFor(ind, {})
<1>0. TypeOK /\ Shape /\ ind \in Inode   BY DEF NsInv, IInv, TypeOK
<1>1. /\ IsDirectory(d) /\ ind = View(d) /\ d \in incore /\ d \in Used
      /\ ~NoSlot(ind, {})
  BY DirIs DEF CreateNoInode, Extend, CreateGuard
<1>2. /\ dbmap' = DbmapFor(ind, {}) /\ blocks' = bs
      /\ icache' = [icache EXCEPT ![d] = dir]
      /\ dirty' \in {dirty, dirty \cup {d}}
      /\ UNCHANGED <<ibmap, itable, incore, dcache, opens, refs, stuck, mounted, panic>>
  BY DEF CreateNoInode, Extend, users
<1> HIDE DEF ind, dir, bs
<1>3. Used' = Used   BY <1>2 DEF Used
<1>4. View(d)' = dir   BY <1>0, <1>1, <1>2 DEF View, TypeOK
<1>5. \A j \in Used \ {d} : View(j)' = View(j)
  BY <1>0, <1>2 DEF View, TypeOK, Used
<1>6. /\ dir.kind = ind.kind /\ dir.nlink = ind.nlink
      /\ \A b \in Bidx : IF Below(dir, b) THEN dir.block[b] \in Dno
                         ELSE dir.block[b] = RESERVED_DNO
      /\ dir.size = IF Grows(ind) THEN ind.size + 1 ELSE ind.size
  BY <1>1, GrownDir, GrownShape DEF dir
<1>7. \A j \in Used : View(j)'.kind = View(j).kind /\ View(j)'.nlink = View(j).nlink
  BY <1>1, <1>4, <1>5, <1>6
<1>8. \A e \in Ino : IsDirectory(e)' <=> IsDirectory(e)
  BY <1>3, <1>7 DEF IsDirectory
<1>9. ASSUME NEW e \in Ino, IsDirectory(e)
      PROVE  Live(e)' = Live(e) /\ \A k \in Live(e) : At(e, k)' = At(e, k)
  <2>1. CASE e = d
    <3>1. \A k : At(d, k)' = EntryAt(bs, dir, k)   BY <1>2, <1>4 DEF At
    <3>2. /\ \A k \in 0 .. ind.size - 1 : At(d, k)' = At(d, k)
          /\ \A k \in 0 .. dir.size - 1 :
               k \notin 0 .. ind.size - 1 => At(d, k)'.d_ino = RESERVED_INO
      BY <1>1, <3>1, GrownEntries DEF dir, bs
    <3>3. 0 .. ind.size - 1 \subseteq 0 .. dir.size - 1
      BY <1>0, <1>6, Words DEF Inode
    <3>4. Live(d)' = {k \in 0 .. dir.size - 1 : At(d, k)'.d_ino # RESERVED_INO}
      BY <1>4 DEF Live
    <3>5. Live(d)' = Live(d)   BY <1>1, <3>2, <3>3, <3>4 DEF Live
    <3> QED  BY <1>1, <2>1, <3>2, <3>5 DEF Live
  <2>2. CASE e # d
    <3>1. View(e)' = View(e)   BY <1>5, <1>9, <2>2 DEF IsDirectory
    <3>2. \A k : At(e, k)' = EntryAt(bs, View(e), k)   BY <1>2, <3>1 DEF At
    <3>3. \A k \in 0 .. View(e).size - 1 : At(e, k)' = At(e, k)
      BY <1>1, <1>9, <2>2, <3>2, GrownEntries DEF dir, bs
    <3> QED  BY <3>1, <3>3 DEF Live
  <2> QED  BY <2>1, <2>2
<1>10. Shape'
  <2>1. IsDirectory(ROOT_INO)' /\ (RESERVED_INO \in ibmap)'
        /\ \A j \in Used' : View(j)'.kind \in {"file", "dir"}
    BY <1>2, <1>3, <1>7, <1>8, Words DEF NsInv, Shape
  <2>2. ASSUME NEW e \in Ino, IsDirectory(e)', NEW b \in Bidx
        PROVE  (IF Below(View(e), b) THEN View(e).block[b] \in Dno
                ELSE View(e).block[b] = RESERVED_DNO)'
    <3>1. CASE e = d   BY <1>4, <1>6, <3>1 DEF Below
    <3>2. CASE e # d
      <4>1. IsDirectory(e) /\ View(e)' = View(e)
        BY <1>5, <1>8, <2>2, <3>2 DEF IsDirectory
      <4> QED  BY <1>0, <4>1 DEF Shape, Below
    <3> QED  BY <3>1, <3>2
  <2> QED  BY <2>1, <2>2 DEF Shape
<1>11. /\ Added(ind) \in SUBSET Bidx
       /\ \A c \in Bidx \ Added(ind) : dir.block[c] = View(d).block[c]
       /\ \A c \in Added(ind) :
            /\ dir.block[c] \notin dbmap /\ dir.block[c] \in dbmap'
            /\ \A e \in Added(ind) : dir.block[e] = dir.block[c] => e = c
            /\ View(d).block[c] = RESERVED_DNO
       /\ dbmap \subseteq dbmap'
       /\ \A x \in dbmap' \ dbmap : \E c \in Added(ind) : dir.block[c] = x
  BY <1>1, <1>2, GrownDir DEF dir
<1>12. Alone'   BY <1>0, <1>1, <1>3, <1>4, <1>5, <1>11, AloneKept DEF NsInv
<1>13. (Steady => Sized /\ Owned)'
  <2>1. ASSUME Steady PROVE Owned'
    BY <1>0, <1>1, <1>3, <1>4, <1>5, <1>11, <2>1, OwnedKept DEF NsInv
  <2>2. ASSUME Steady PROVE Sized'
    <3>1. \A b \in Bidx : dir.block[b] # RESERVED_DNO <=> Below(dir, b)
      BY <1>6, InodeAssumption DEF Dno, RESERVED_DNO, NotFound
    <3> QED  BY <1>3, <1>4, <1>5, <2>2, <3>1 DEF NsInv, Sized, Below
  <2> QED  BY <2>1, <2>2 DEF Steady
<1>14. Caches'
  <2>1. \A j \in incore \ Used : icache'[j] = icache[j]
    BY <1>0, <1>1, <1>2 DEF TypeOK
  <2> QED  BY <1>1, <1>2, <1>3, <2>1 DEF NsInv, Caches
<1>15. \A e \in Ino, m \in Names :
         dcache'[e][m] # Uncached => e \in Used /\ dcache'[e][m] = Entry(e, m)
  BY <1>2 DEF NsInv, DcacheAgrees
<1> QED  BY <1>2, <1>7, <1>9, <1>10, <1>12, <1>13, <1>14, <1>15, Settled
-----------------------------------------------------------------------------
(* yaf_create() and yaf_mkdir().                                               *)

\* The inodes afterwards: the new one was nobody's.
LEMMA CreateInodes ==
  ASSUME NsInv, NEW d \in Ino, NEW n \in Names, NEW k \in {"file", "dir"},
         Create(d, n, k, {}), NEW i, i = FreeIno,
         NEW ind, ind = View(d), NEW dir, dir = DirFor(ind, {})
  PROVE  /\ IsDirectory(d) /\ ind = icache[d] /\ ~NoSlot(ind, {}) /\ d \in incore /\ d # i
         /\ i \in Ino \ {ROOT_INO, RESERVED_INO} /\ i \notin ibmap /\ i \notin Used
         /\ Used' = Used \cup {i}
         /\ View(i)' = NewInode(k)
         /\ View(d)' = [dir EXCEPT !.nlink = (@ + 1) % U32]
         /\ \A j \in Used \ {d} : View(j)' = View(j)
<1>0. TypeOK /\ Shape   BY DEF NsInv, IInv
<1>1. IsDirectory(d) /\ ind = icache[d] /\ ~NoSlot(ind, {}) /\ d \in incore /\ d \in Used
  BY DirIs DEF Create, CreateGuard
<1>2. i < NR_INODES /\ i # NotFound /\ i \in 0 .. INODE_BITS - 1 /\ INODE_BITS \in Nat
  <2>1. i < NR_INODES   BY DEF Create
  <2>2. NotFound \in Nat /\ NR_INODES \in Nat /\ NR_INODES < NotFound
    BY InodeAssumption, Words DEF Word
  <2> QED  BY <2>1, <2>2, FreeBits, InodeAssumption
<1>3. i \in 0 .. INODE_BITS - 1 /\ i \notin ibmap
  BY <1>2, FreeBitOf DEF FreeIno
<1>4. i \in Ino   BY <1>2, InodeAssumption DEF Ino
<1>5. i \notin Used /\ i # RESERVED_INO /\ i # ROOT_INO /\ d # i
  BY <1>0, <1>1, <1>3 DEF Used, Shape, IsDirectory
<1>6. /\ ibmap' = ibmap \cup {i} /\ incore' = incore \cup {i} /\ itable' = itable
      /\ icache' = [icache EXCEPT ![i] = NewInode(k),
                                  ![d] = [dir EXCEPT !.nlink = (@ + 1) % U32]]
  BY <1>1 DEF Create
<1>7. Used' = Used \cup {i}   BY <1>4, <1>5, <1>6 DEF Used
<1>8. View(i)' = NewInode(k)   BY <1>0, <1>4, <1>5, <1>6 DEF View, TypeOK
<1>9. View(d)' = [dir EXCEPT !.nlink = (@ + 1) % U32]
  BY <1>0, <1>1, <1>5, <1>6 DEF View, TypeOK
<1>10. \A j \in Used \ {d} : View(j)' = View(j)
  BY <1>0, <1>5, <1>6 DEF View, TypeOK, Used
<1> QED  BY <1>1, <1>3, <1>4, <1>5, <1>7, <1>8, <1>9, <1>10

\* The entries afterwards: one more in d.
LEMMA CreateEntries ==
  ASSUME NsInv, NEW d \in Ino, NEW n \in Names, NEW k \in {"file", "dir"},
         Create(d, n, k, {}), NEW i, i = FreeIno, NEW slot, slot = SlotFor(View(d))
  PROVE  /\ slot \notin Live(d) /\ Live(d)' = Live(d) \cup {slot}
         /\ At(d, slot)' = [d_ino |-> i, d_name |-> n]
         /\ \A l \in Live(d) : At(d, l)' = At(d, l)
         /\ Live(i)' = {}
         /\ \A e \in Ino \ {d} : IsDirectory(e) =>
              Live(e)' = Live(e) /\ \A l \in Live(e) : At(e, l)' = At(e, l)
<1> DEFINE ind == View(d)
           dir == DirFor(ind, {})
           bs == BlocksFor(ind, {})
           v == [d_ino |-> i, d_name |-> n]
<1>0. TypeOK /\ Shape /\ ind \in Inode   BY ViewType DEF NsInv, IInv
<1>1. /\ IsDirectory(d) /\ ind = icache[d] /\ ~NoSlot(ind, {}) /\ i # RESERVED_INO
      /\ View(i)' = NewInode(k)
      /\ View(d)' = [dir EXCEPT !.nlink = (@ + 1) % U32]
      /\ \A j \in Used \ {d} : View(j)' = View(j)
  BY CreateInodes
<1>2. blocks' = SetEntry(bs, dir, slot, v)   BY <1>1 DEF Create
<1> HIDE DEF ind, dir, bs, v
<1>3. /\ dir \in Inode /\ Apart(d, dir) /\ bs \in Blocks
      /\ slot \in 0 .. dir.size - 1 /\ slot \notin Live(d)
      /\ dir.size = IF Grows(ind) THEN ind.size + 1 ELSE ind.size
      /\ \A l \in 0 .. ind.size - 1 : EntryAt(bs, dir, l) = At(d, l)
      /\ \A l \in 0 .. dir.size - 1 :
           l \notin 0 .. ind.size - 1 => EntryAt(bs, dir, l).d_ino = RESERVED_INO
      /\ \A e \in Ino \ {d} : IsDirectory(e) => \A l \in 0 .. View(e).size - 1 :
           EntryAt(bs, View(e), l) = At(e, l)
  BY <1>1, GrownDir, GrownShape, GrownEntries, SlotFree DEF ind, dir, bs
<1>4. /\ \A l \in 0 .. dir.size - 1 :
           EntryAt(blocks', dir, l) = IF l = slot THEN v ELSE EntryAt(bs, dir, l)
      /\ \A e \in Ino \ {d} : IsDirectory(e) => \A l \in 0 .. View(e).size - 1 :
           EntryAt(blocks', View(e), l) = EntryAt(bs, View(e), l)
  BY <1>0, <1>2, <1>3, SetApart
<1>5. View(d)'.block = dir.block /\ View(d)'.size = dir.size
  BY <1>1, <1>3 DEF Inode
<1>6. \A l : At(d, l)' = EntryAt(blocks', dir, l)
  BY <1>5 DEF At, EntryAt, BlockAt
<1>7. \A l \in 0 .. dir.size - 1 :
        At(d, l)' = IF l = slot THEN v ELSE EntryAt(bs, dir, l)
  BY <1>4, <1>6
<1>8. Live(d) = {l \in 0 .. ind.size - 1 : At(d, l).d_ino # RESERVED_INO}
  BY DEF Live, ind
<1>9. Live(d)' = {l \in 0 .. dir.size - 1 : At(d, l)'.d_ino # RESERVED_INO}
  BY <1>5 DEF Live
<1>10. v.d_ino = i   BY DEF v
<1>11. 0 .. ind.size - 1 \subseteq 0 .. dir.size - 1
  BY <1>0, <1>3, Words DEF Inode
<1>12. \A l \in Live(d) : At(d, l)' = At(d, l)
  BY <1>3, <1>7, <1>8, <1>11
<1>13. At(d, slot)' = v   BY <1>3, <1>7
<1>14. Live(d)' = Live(d) \cup {slot}
  <2>1. ASSUME NEW l \in Live(d)' PROVE l \in Live(d) \cup {slot}
    <3>1. CASE l # slot
      <4>1. l \in 0 .. dir.size - 1 /\ EntryAt(bs, dir, l).d_ino # RESERVED_INO
        BY <1>7, <1>9, <2>1, <3>1
      <4>2. l \in 0 .. ind.size - 1   BY <1>3, <4>1
      <4> QED  BY <1>3, <1>8, <4>1, <4>2
    <3> QED  BY <3>1
  <2>2. Live(d) \subseteq Live(d)'   BY <1>8, <1>9, <1>11, <1>12
  <2>3. slot \in Live(d)'   BY <1>1, <1>3, <1>9, <1>10, <1>13
  <2> QED  BY <2>1, <2>2, <2>3
<1>15. Live(i)' = {}
  <2>1. View(i)'.size = 0   BY <1>1 DEF NewInode
  <2>2. 0 .. 0 - 1 = {}   OBVIOUS
  <2> QED  BY <2>1, <2>2 DEF Live
<1>16. ASSUME NEW e \in Ino \ {d}, IsDirectory(e)
       PROVE  Live(e)' = Live(e) /\ \A l \in Live(e) : At(e, l)' = At(e, l)
  <2>1. View(e)' = View(e)   BY <1>1, <1>16 DEF IsDirectory
  <2>2. \A l : At(e, l)' = EntryAt(blocks', View(e), l)   BY <2>1 DEF At
  <2>3. \A l \in 0 .. View(e).size - 1 : At(e, l)' = At(e, l)
    BY <1>3, <1>4, <1>16, <2>2
  <2> QED  BY <2>1, <2>3 DEF Live
<1> QED  BY <1>3, <1>12, <1>13, <1>14, <1>15, <1>16 DEF v

\* The new entry is the only one of the new inode, and the first of its name.
LEMMA CreateListed ==
  ASSUME NsInv, NEW d \in Ino, NEW n \in Names, NEW k \in {"file", "dir"},
         Create(d, n, k, {}), NEW i, i = FreeIno, NEW slot, slot = SlotFor(View(d))
  PROVE  /\ Listed' /\ Entry(d, n) = RESERVED_INO
         /\ \A e \in Ino : IsDirectory(e)' <=> IsDirectory(e) \/ (e = i /\ k = "dir")
<1>0. TypeOK /\ Listed /\ Named   BY NamedInv DEF NsInv, IInv
<1>1. /\ IsDirectory(d) /\ d # i /\ i \notin Used /\ Used' = Used \cup {i}
      /\ i \in Ino \ {ROOT_INO, RESERVED_INO}
      /\ View(i)'.kind = k /\ d \in Used
      /\ \A j \in Used : View(j)'.kind = View(j).kind
  <2>1. /\ IsDirectory(d) /\ d # i /\ i \notin Used /\ Used' = Used \cup {i}
        /\ i \in Ino \ {ROOT_INO, RESERVED_INO}
        /\ View(i)' = NewInode(k)
        /\ View(d)' = [DirFor(View(d), {}) EXCEPT !.nlink = (@ + 1) % U32]
        /\ \A j \in Used \ {d} : View(j)' = View(j)
        /\ ~NoSlot(View(d), {})
    BY CreateInodes
  <2>2. DirFor(View(d), {}) \in Inode /\ DirFor(View(d), {}).kind = View(d).kind
    BY <2>1, GrownDir
  <2>3. View(d)'.kind = View(d).kind   BY <2>1, <2>2 DEF Inode
  <2>4. View(i)'.kind = k   BY <2>1 DEF NewInode
  <2> QED  BY <2>1, <2>3, <2>4 DEF IsDirectory
<1>2. \A e \in Ino : IsDirectory(e)' <=> IsDirectory(e) \/ (e = i /\ k = "dir")
  BY <1>1 DEF IsDirectory
<1>3. /\ slot \notin Live(d) /\ Live(d)' = Live(d) \cup {slot}
      /\ At(d, slot)' = [d_ino |-> i, d_name |-> n]
      /\ \A l \in Live(d) : At(d, l)' = At(d, l)
      /\ Live(i)' = {}
      /\ \A e \in Ino \ {d} : IsDirectory(e) =>
           Live(e)' = Live(e) /\ \A l \in Live(e) : At(e, l)' = At(e, l)
  BY CreateEntries
<1>4. Entry(d, n) = RESERVED_INO
  BY DEF NsInv, DcacheAgrees, Create, CreateGuard, RESERVED_INO, Uncached
<1>5. \A l \in Live(d) : At(d, l).d_name # n
  BY <1>0, <1>1, <1>4 DEF Named, Live
<1>6. ASSUME NEW e \in Ino, IsDirectory(e)', NEW l \in Live(e)'
      PROVE  \/ /\ e = d /\ l = slot
                /\ At(e, l)' = [d_ino |-> i, d_name |-> n]
             \/ /\ IsDirectory(e) /\ l \in Live(e) /\ At(e, l)' = At(e, l)
                /\ At(e, l).d_ino \in Used \ {ROOT_INO}
                /\ e = d => At(e, l).d_name # n
  <2>1. IsDirectory(e)   BY <1>2, <1>3, <1>6
  <2>2. CASE e = d /\ l = slot   BY <1>3, <2>2
  <2>3. CASE ~(e = d /\ l = slot)
    <3>1. l \in Live(e) /\ At(e, l)' = At(e, l)   BY <1>3, <1>6, <2>1, <2>3
    <3> QED  BY <1>0, <1>5, <2>1, <3>1 DEF Listed
  <2> QED  BY <2>2, <2>3
<1>7. ASSUME NEW e \in Ino, IsDirectory(e)', NEW l \in Live(e)'
      PROVE  /\ At(e, l)'.d_ino \in Used' \ {ROOT_INO}
             /\ \A f \in Ino : IsDirectory(f)' => \A m \in Live(f)' :
                  \/ At(e, l)'.d_ino = At(f, m)'.d_ino
                  \/ e = f /\ At(e, l)'.d_name = At(f, m)'.d_name
                  => e = f /\ l = m
  <2>1. At(e, l)'.d_ino \in Used' \ {ROOT_INO}   BY <1>1, <1>6, <1>7
  <2>2. ASSUME NEW f \in Ino, IsDirectory(f)', NEW m \in Live(f)',
               \/ At(e, l)'.d_ino = At(f, m)'.d_ino
               \/ e = f /\ At(e, l)'.d_name = At(f, m)'.d_name
        PROVE  e = f /\ l = m
    <3>1. CASE e = d /\ l = slot /\ At(e, l)' = [d_ino |-> i, d_name |-> n]
      <4>1. ~(IsDirectory(f) /\ m \in Live(f) /\ At(f, m)' = At(f, m)
              /\ At(f, m).d_ino \in Used \ {ROOT_INO}
              /\ (f = d => At(f, m).d_name # n))
        BY <1>1, <2>2, <3>1
      <4> QED  BY <1>6, <2>2, <3>1, <4>1
    <3>2. CASE IsDirectory(e) /\ l \in Live(e) /\ At(e, l)' = At(e, l)
               /\ At(e, l).d_ino \in Used \ {ROOT_INO}
               /\ (e = d => At(e, l).d_name # n)
      <4>1. ~(f = d /\ m = slot /\ At(f, m)' = [d_ino |-> i, d_name |-> n])
        BY <1>1, <2>2, <3>2
      <4>2. IsDirectory(f) /\ m \in Live(f) /\ At(f, m)' = At(f, m)
        BY <1>6, <2>2, <4>1
      <4> QED  BY <1>0, <2>2, <3>2, <4>2 DEF Listed
    <3> QED  BY <1>6, <1>7, <3>1, <3>2
  <2> QED  BY <2>1, <2>2
<1>8. Listed'   BY <1>7 DEF Listed
<1> QED  BY <1>2, <1>4, <1>8

\* What the tree shows of a new inode i, called n in d.
NewName(d, n, i, k) ==
  /\ IsDirectory(d) /\ Entry(d, n) = RESERVED_INO
  /\ i \in Ino \ {RESERVED_INO} /\ i \notin Used /\ Used' = Used \cup {i}
  /\ View(i)'.kind = k /\ \A j \in Used : View(j)'.kind = View(j).kind
  /\ \A e \in Ino, m \in Names :
       Entry(e, m)' = IF e = d /\ m = n THEN i ELSE Entry(e, m)

LEMMA CreateNames ==
  ASSUME NsInv, TypeOK', Shape', NEW d \in Ino, NEW n \in Names,
         NEW k \in {"file", "dir"}, Create(d, n, k, {}), NEW i, i = FreeIno
  PROVE  NewName(d, n, i, k) /\ Listed'
<1>0. TypeOK /\ Listed /\ Named   BY NamedInv DEF NsInv, IInv
<1>1. PICK slot : slot = SlotFor(View(d))   OBVIOUS
<1>2. /\ Listed' /\ Entry(d, n) = RESERVED_INO
      /\ \A e \in Ino : IsDirectory(e)' <=> IsDirectory(e) \/ (e = i /\ k = "dir")
  BY <1>1, CreateListed
<1>3. Named'   BY <1>2, NamedNext
<1>4. /\ slot \notin Live(d) /\ Live(d)' = Live(d) \cup {slot}
      /\ At(d, slot)' = [d_ino |-> i, d_name |-> n]
      /\ \A l \in Live(d) : At(d, l)' = At(d, l)
      /\ Live(i)' = {}
      /\ \A e \in Ino \ {d} : IsDirectory(e) =>
           Live(e)' = Live(e) /\ \A l \in Live(e) : At(e, l)' = At(e, l)
  BY <1>1, CreateEntries
<1>5. PICK dir : dir = DirFor(View(d), {})   OBVIOUS
<1>6. /\ IsDirectory(d) /\ d # i /\ i \notin Used /\ Used' = Used \cup {i}
      /\ i \in Ino \ {ROOT_INO, RESERVED_INO} /\ ~NoSlot(View(d), {})
      /\ View(i)' = NewInode(k)
      /\ View(d)' = [dir EXCEPT !.nlink = (@ + 1) % U32]
      /\ \A j \in Used \ {d} : View(j)' = View(j)
  BY <1>5, CreateInodes
<1>7. View(i)'.kind = k /\ \A j \in Used : View(j)'.kind = View(j).kind
  <2>1. dir \in Inode /\ dir.kind = View(d).kind   BY <1>5, <1>6, GrownDir
  <2>2. View(d)'.kind = View(d).kind   BY <1>6, <2>1 DEF Inode
  <2>3. View(i)'.kind = k   BY <1>6 DEF NewInode
  <2> QED  BY <1>6, <2>2, <2>3
<1>8. ASSUME NEW e \in Ino, NEW m \in Names
      PROVE  Entry(e, m)' = IF e = d /\ m = n THEN i ELSE Entry(e, m)
  <2>1. CASE e = d /\ m = n
    <3>1. slot \in Live(d)' /\ At(d, slot)'.d_name = n /\ At(d, slot)'.d_ino = i
          /\ IsDirectory(d)'
      BY <1>2, <1>4, <1>6
    <3> QED  BY <1>3, <2>1, <3>1 DEF Named
  <2>2. CASE ~IsDirectory(e)
    <3>1. Entry(e, m) = RESERVED_INO   BY <1>0, <2>2 DEF Named
    <3>2. Entry(e, m)' = RESERVED_INO
      <4>1. CASE IsDirectory(e)'
        <5>1. e = i   BY <1>2, <2>2, <4>1
        <5> QED  BY <1>3, <1>4, <4>1, <5>1 DEF Named
      <4>2. CASE ~IsDirectory(e)'   BY <1>3, <4>2 DEF Named
      <4> QED  BY <4>1, <4>2
    <3> QED  BY <1>6, <2>2, <3>1, <3>2
  <2>3. CASE IsDirectory(e) /\ ~(e = d /\ m = n)
    <3>0. IsDirectory(e)'   BY <1>2, <2>3
    <3>1. ASSUME NEW l \in Live(e), At(e, l).d_name = m
          PROVE  Entry(e, m)' = Entry(e, m)
      <4>1. l \in Live(e)' /\ At(e, l)' = At(e, l)   BY <1>4, <2>3, <3>1
      <4>2. Entry(e, m) = At(e, l).d_ino   BY <1>0, <2>3, <3>1 DEF Named
      <4>3. Entry(e, m)' = At(e, l)'.d_ino   BY <1>3, <3>0, <3>1, <4>1 DEF Named
      <4> QED  BY <4>1, <4>2, <4>3
    <3>2. ASSUME \A l \in Live(e) : At(e, l).d_name # m
          PROVE  Entry(e, m)' = Entry(e, m)
      <4>1. Entry(e, m) = RESERVED_INO   BY <1>0, <2>3, <3>2 DEF Named
      <4>2. \A l \in Live(e)' : At(e, l)'.d_name # m
        <5>1. CASE e = d   BY <1>4, <2>3, <3>2, <5>1
        <5>2. CASE e # d   BY <1>4, <2>3, <3>2, <5>2
        <5> QED  BY <5>1, <5>2
      <4>3. Entry(e, m)' = RESERVED_INO   BY <1>3, <3>0, <4>2 DEF Named
      <4> QED  BY <4>1, <4>3
    <3> QED  BY <2>3, <3>1, <3>2
  <2> QED  BY <2>1, <2>2, <2>3
<1> QED  BY <1>2, <1>6, <1>7, <1>8 DEF NewName

LEMMA Create_Inv ==
  ASSUME NsInv, IInv', NEW d \in Ino, NEW n \in Names, NEW k \in {"file", "dir"},
         Create(d, n, k, {}), NEW i, i = FreeIno
  PROVE  NsInv' /\ NewName(d, n, i, k)
<1>0. TypeOK /\ TypeOK' /\ Shape /\ FewLive /\ FewLive'
  BY FewLiveInv, FewLiveNext DEF NsInv, IInv
<1>1. PICK ind : ind = View(d)   OBVIOUS
<1>2. PICK dir : dir = DirFor(ind, {})   OBVIOUS
<1>3. PICK slot : slot = SlotFor(View(d))   OBVIOUS
<1>4. /\ IsDirectory(d) /\ ind = icache[d] /\ ~NoSlot(ind, {}) /\ d \in incore /\ d # i
      /\ i \in Ino \ {ROOT_INO, RESERVED_INO} /\ i \notin ibmap /\ i \notin Used
      /\ Used' = Used \cup {i} /\ d \in Used
      /\ View(i)' = NewInode(k)
      /\ View(d)' = [dir EXCEPT !.nlink = (@ + 1) % U32]
      /\ \A j \in Used \ {d} : View(j)' = View(j)
  BY <1>1, <1>2, CreateInodes DEF IsDirectory
<1>5. /\ ibmap' = ibmap \cup {i}
      /\ dbmap' = DbmapFor(ind, {})
      /\ incore' = incore \cup {i} /\ dirty' = dirty \cup {i, d}
      /\ dcache' = [dcache EXCEPT ![d][n] = i]
      /\ UNCHANGED <<itable, opens, refs, stuck, mounted, panic>>
      /\ mounted /\ dcache[d][n] = RESERVED_INO
      /\ icache' = [icache EXCEPT ![i] = NewInode(k),
                                  ![d] = [dir EXCEPT !.nlink = (@ + 1) % U32]]
  BY <1>2, <1>4 DEF Create, CreateGuard, Running, users
<1>6. /\ dir \in Inode /\ dir.kind = "dir" /\ dir.nlink = ind.nlink
      /\ \A b \in Bidx : IF Below(dir, b) THEN dir.block[b] \in Dno
                         ELSE dir.block[b] = RESERVED_DNO
  <2>0. IsDirectory(d) /\ ~NoSlot(ind, {})   BY <1>4
  <2>1. ind.kind = "dir"   BY <1>1, <1>4 DEF IsDirectory
  <2>2. dir \in Inode /\ dir.kind = ind.kind /\ dir.nlink = ind.nlink
    BY <1>1, <1>2, <2>0, GrownDir
  <2>3. \A b \in Bidx : IF Below(dir, b) THEN dir.block[b] \in Dno
                         ELSE dir.block[b] = RESERVED_DNO
    BY <1>1, <1>2, <2>0, GrownShape
  <2> QED  BY <2>1, <2>2, <2>3
<1>7. /\ View(d)'.kind = "dir" /\ View(d)'.nlink = (ind.nlink + 1) % U32
      /\ View(d)'.size = dir.size /\ View(d)'.block = dir.block
      /\ View(i)'.kind = k /\ View(i)'.nlink = 1 /\ View(i)'.size = 0
      /\ \A b \in Bidx : View(i)'.block[b] = RESERVED_DNO
  BY <1>4, <1>6 DEF Inode, NewInode
<1>8. \A b \in Bidx : ~Below(View(i)', b)
  BY <1>7, InodeAssumption DEF Below, Bidx
<1>9. Shape'
  <2>1. IsDirectory(ROOT_INO)' /\ (RESERVED_INO \in ibmap)'
    <3>1. IsDirectory(ROOT_INO)   BY <1>0 DEF Shape
    <3>2. View(ROOT_INO)'.kind = "dir"   BY <1>4, <1>7, <3>1 DEF IsDirectory
    <3> QED  BY <1>0, <1>4, <1>5, <3>1, <3>2 DEF Shape, IsDirectory
  <2>2. \A j \in Used' : View(j)'.kind \in {"file", "dir"}
    BY <1>0, <1>4, <1>7 DEF Shape
  <2>3. ASSUME NEW e \in Ino, IsDirectory(e)', NEW b \in Bidx
        PROVE  (IF Below(View(e), b) THEN View(e).block[b] \in Dno
                ELSE View(e).block[b] = RESERVED_DNO)'
    <3>1. CASE e = d   BY <1>6, <1>7, <3>1 DEF Below
    <3>2. CASE e = i   BY <1>7, <1>8, <3>2
    <3>3. CASE e \notin {d, i}
      <4>1. IsDirectory(e) /\ View(e)' = View(e)
        BY <1>4, <2>3, <3>3 DEF IsDirectory
      <4> QED  BY <1>0, <4>1 DEF Shape, Below
    <3> QED  BY <3>1, <3>2, <3>3
  <2> QED  BY <2>1, <2>2, <2>3 DEF Shape
<1>10. Listed' /\ NewName(d, n, i, k)   BY <1>0, <1>9, CreateNames
<1>11. /\ Added(ind) \in SUBSET Bidx
       /\ \A c \in Bidx \ Added(ind) : View(d)'.block[c] = View(d).block[c]
       /\ \A c \in Added(ind) :
            /\ View(d)'.block[c] \notin dbmap /\ View(d)'.block[c] \in dbmap'
            /\ \A e \in Added(ind) : View(d)'.block[e] = View(d)'.block[c] => e = c
            /\ View(d).block[c] = RESERVED_DNO
       /\ dbmap \subseteq dbmap'
       /\ \A x \in dbmap' \ dbmap : \E c \in Added(ind) : View(d)'.block[c] = x
  <2>0. IsDirectory(d) /\ ~NoSlot(ind, {})   BY <1>4
  <2>1. /\ Added(ind) \in SUBSET Bidx /\ \A b, c \in Added(ind) : b = c
        /\ \A b \in Bidx \ Added(ind) : dir.block[b] = ind.block[b]
        /\ \A b \in Added(ind) : /\ ind.block[b] = RESERVED_DNO
                                 /\ dir.block[b] \in Dno \ dbmap
                                 /\ dir.block[b] \in DbmapFor(ind, {})
        /\ dbmap \subseteq DbmapFor(ind, {})
        /\ \A x \in DbmapFor(ind, {}) \ dbmap : \E b \in Added(ind) : dir.block[b] = x
    BY <1>1, <1>2, <2>0, GrownDir
  <2> QED  BY <1>1, <1>5, <1>7, <2>1
<1>12. Alone'
  <2>1. \A j \in Used' \ {d}, c \in Bidx :
           \/ View(j)'.block[c] = RESERVED_DNO
           \/ j \in Used /\ View(j)'.block[c] = View(j).block[c]
    BY <1>4, <1>7
  <2>2. Alone   BY DEF NsInv
  <2> QED  BY <1>0, <1>4, <1>11, <2>1, <2>2, AloneKept
<1>13. (Steady => Sized /\ Owned)'
  <2>1. ASSUME Steady PROVE Owned'
    <3>1. Owned /\ Used \subseteq Used'
          /\ \A j \in Used \ {d}, c \in Bidx : View(j)'.block[c] = View(j).block[c]
      BY <1>4, <2>1 DEF NsInv
    <3> QED  BY <1>0, <1>4, <1>11, <3>1, OwnedKept
  <2>2. ASSUME Steady PROVE Sized'
    <3>1. \A b \in Bidx : View(d)'.block[b] # RESERVED_DNO <=> Below(View(d)', b)
      BY <1>6, <1>7, InodeAssumption DEF Dno, RESERVED_DNO, NotFound, Below
    <3>2. \A b \in Bidx : View(i)'.block[b] # RESERVED_DNO <=> Below(View(i)', b)
      BY <1>7, <1>8
    <3>3. \A j \in Used \ {d}, b \in Bidx :
            View(j)'.block[b] # RESERVED_DNO <=> Below(View(j)', b)
      BY <1>4, <2>2 DEF NsInv, Sized
    <3> QED  BY <1>4, <3>1, <3>2, <3>3 DEF Sized, Below
  <2> QED  BY <2>1, <2>2 DEF Steady
<1>14. Links'
  <2>1. View(d)'.nlink = 1 + Cardinality(Live(d)')
    <3>1. slot \notin Live(d) /\ Live(d)' = Live(d) \cup {slot}
      BY <1>3, CreateEntries
    <3>2. Cardinality(Live(d)') = Cardinality(Live(d)) + 1
      BY <1>0, <3>1, FS_AddElement DEF FewLive
    <3>3. ind.nlink = 1 + Cardinality(Live(d))
      BY <1>1, <1>4 DEF NsInv, Links, IsDirectory
    <3>4. Cardinality(Live(d)) \in Nat /\ Cardinality(Live(d)') \in Nat
          /\ Cardinality(Live(d)') <= MAX_DENTRYS
      BY <1>0, Words DEF FewLive
    <3>5. MAX_DENTRYS + 2 < U32 /\ MAX_DENTRYS \in Nat /\ U32 \in Nat
      BY InodeAssumption, Words DEF NotFound
    <3>6. ind.nlink + 1 \in Nat /\ ind.nlink + 1 < U32
      BY <3>2, <3>3, <3>4, <3>5
    <3>7. (ind.nlink + 1) % U32 = ind.nlink + 1   BY <3>5, <3>6
    <3> QED  BY <1>7, <3>2, <3>3, <3>4, <3>7
  <2>2. View(i)'.nlink = 1 /\ (View(i)'.kind = "dir" => Cardinality(Live(i)') = 0)
    BY <1>3, <1>7, CreateEntries, FS_EmptySet
  <2>3. ASSUME NEW j \in Used, j # d
        PROVE  View(j)'.nlink
                 = IF View(j)'.kind = "dir" THEN 1 + Cardinality(Live(j)') ELSE 1
    <3>1. View(j)' = View(j) /\ j \in Ino   BY <1>4, <2>3 DEF Used
    <3>2. View(j).kind = "dir" => Live(j)' = Live(j)
      BY <1>3, <2>3, <3>1, CreateEntries DEF IsDirectory
    <3> QED  BY <3>1, <3>2 DEF NsInv, Links
  <2>4. ASSUME NEW j \in Used'
        PROVE  View(j)'.nlink
                 = IF View(j)'.kind = "dir" THEN 1 + Cardinality(Live(j)') ELSE 1
    <3>1. CASE j = d   BY <1>7, <2>1, <3>1
    <3>2. CASE j = i   BY <2>2, <3>2
    <3>3. CASE j \notin {d, i}   BY <1>4, <2>3, <2>4, <3>3
    <3> QED  BY <3>1, <3>2, <3>3
  <2> QED  BY <2>4 DEF Links
<1>15. \A e \in Ino, m \in Names :
         dcache'[e][m] = IF e = d /\ m = n THEN i ELSE dcache[e][m]
  BY <1>0, <1>5 DEF TypeOK
<1>16. Caches'
  <2>1. ASSUME NEW j \in (incore' \cap Used') \ {ROOT_INO}
        PROVE  \E e \in Ino, m \in Names : dcache'[e][m] = j
    <3>1. CASE j = i   BY <1>15, <3>1
    <3>2. CASE j # i
      <4>1. PICK e \in Ino, m \in Names : dcache[e][m] = j
        BY <1>4, <1>5, <2>1, <3>2 DEF NsInv, Caches
      <4>2. j # RESERVED_INO   BY <1>4, <2>1, <3>2 DEF Used
      <4> QED  BY <1>5, <1>15, <4>1, <4>2
    <3> QED  BY <3>1, <3>2
  <2>2. \A e \in Ino, m \in Names :
          dcache'[e][m] \notin {Uncached, RESERVED_INO} => dcache'[e][m] \in incore'
    BY <1>5, <1>15 DEF NsInv, Caches
  <2>3. /\ opens' = {} /\ stuck' = {} /\ dirty' \subseteq incore'
        /\ RESERVED_INO \notin incore' /\ ROOT_INO \in incore' /\ mounted'
    BY <1>4, <1>5 DEF NsInv, Caches
  <2>4. \A j \in incore' \ Used' : j \in incore \ Used /\ icache'[j] = icache[j]
    BY <1>0, <1>4, <1>5 DEF TypeOK
  <2>5. \A j \in incore' \ Used' : icache'[j].nlink = 0 /\ \E p \in refs' : p[2] = j
    BY <1>5, <2>4 DEF NsInv, Caches
  <2> QED  BY <2>1, <2>2, <2>3, <2>5 DEF Caches
<1>17. DcacheAgrees'
  BY <1>4, <1>10, <1>15 DEF NsInv, DcacheAgrees, NewName
<1> QED  BY <1>9, <1>10, <1>12, <1>13, <1>14, <1>16, <1>17 DEF NsInv
-----------------------------------------------------------------------------
(* yaf_unlink() and yaf_rmdir().                                               *)

\* What is removed has one name and one link, and if it is a directory it is
\* empty; its inode goes.
LEMMA DeleteIs ==
  ASSUME NsInv, NEW d \in Ino, NEW n \in Names, DeleteGuard(d, n),
         NEW i, i = dcache[d][n]
  PROVE  /\ IsDirectory(d) /\ View(d) = icache[d] /\ d \in incore /\ d \in Used
         /\ i = Entry(d, n) /\ i \in Used \ {ROOT_INO} /\ i \in incore /\ i # d
         /\ View(i) = icache[i] /\ (IsDirectory(i) => Live(i) = {})
         /\ \A e \in Ino, m \in Names : Entry(e, m) = i => e = d /\ m = n
         /\ \E k \in Live(d) : /\ k = Min(Hits(icache[d], n))
                               /\ At(d, k).d_ino = i /\ At(d, k).d_name = n
         /\ LastLink(i) /\ DropNlink(icache[i]).nlink = 0
         /\ Dentries(i) = {<<d, n>>} /\ i \notin opens
<1>0. TypeOK /\ Named /\ OneName /\ FewLive
  BY NamedInv, OneNameInv, FewLiveInv DEF NsInv, IInv
<1>1. IsDirectory(d) /\ View(d) = icache[d] /\ d \in incore /\ d \in Used
  BY DirIs DEF DeleteGuard
<1>2. i \notin {Uncached, RESERVED_INO}   BY DEF DeleteGuard
<1>3. i = Entry(d, n) /\ i \in incore   BY <1>2 DEF NsInv, DcacheAgrees, Caches
<1>4. i \in Used \ {ROOT_INO}
      /\ \A e \in Ino, m \in Names : Entry(e, m) = i => e = d /\ m = n
  BY <1>0, <1>2, <1>3 DEF OneName
<1>5. PICK k \in Live(d) : At(d, k).d_name = n
  BY <1>0, <1>1, <1>2, <1>3 DEF Named
<1>6. k = Min(Hits(icache[d], n)) /\ At(d, k).d_ino = i
  BY <1>0, <1>1, <1>3, <1>5 DEF Named
<1>7. View(i) = icache[i] /\ i \in Ino   BY <1>3, <1>4 DEF View, Used
<1>8. \A j \in Ino : IsFiniteSet(Live(j)) /\ Cardinality(Live(j)) \in Nat
  BY <1>0, Words DEF FewLive
<1>9. IsDirectory(i) => Live(i) = {}
  <2>1. CASE IsDirectory(i)
    <3>1. icache[i].nlink = 1 + Cardinality(Live(i)) /\ icache[i].nlink <= 1
      BY <1>4, <1>7, <2>1 DEF IsDirectory, NsInv, Links, DeleteGuard
    <3>2. Cardinality(Live(i)) = 0   BY <1>7, <1>8, <3>1
    <3> QED  BY <1>7, <1>8, <3>2, FS_EmptySet
  <2> QED  BY <2>1
<1>10. i # d   BY <1>1, <1>5, <1>9
<1>11. icache[i].nlink = 1
  <2>1. CASE IsDirectory(i)
    <3>1. Cardinality(Live(i)) = 0   BY <1>9, <2>1, FS_EmptySet
    <3> QED  BY <1>4, <1>7, <2>1, <3>1 DEF IsDirectory, NsInv, Links
  <2>2. CASE ~IsDirectory(i)
    BY <1>4, <1>7, <2>2 DEF IsDirectory, NsInv, Links
  <2> QED  BY <2>1, <2>2
<1>12. DropNlink(icache[i]).nlink = 0
  <2>1. icache[i] \in Inode   BY <1>0, <1>7 DEF TypeOK
  <2>2. U32 \in Nat /\ U32 > 2   BY InodeAssumption, Words DEF NotFound
  <2>3. (1 - 1) % U32 = 0   BY <2>2
  <2> QED  BY <1>11, <2>1, <2>3 DEF DropNlink, Inode
<1>13. LastLink(i)   BY <1>12 DEF LastLink
<1>14. Dentries(i) = {<<d, n>>}
  <2>1. ASSUME NEW e \in Ino, NEW m \in Names, dcache[e][m] = i
        PROVE  e = d /\ m = n
    <3>1. Entry(e, m) = i   BY <1>2, <2>1 DEF NsInv, DcacheAgrees
    <3> QED  BY <1>4, <3>1
  <2>2. \A p \in Ino \X Names : dcache[p[1]][p[2]] = i => p = <<d, n>>
    BY <2>1
  <2> QED  BY <2>2 DEF Dentries
<1>15. i \notin opens   BY DEF NsInv, Caches
<1> QED  BY <1>1, <1>3, <1>4, <1>5, <1>6, <1>7, <1>9, <1>10, <1>12, <1>13, <1>14, <1>15

\* The inodes and entries afterwards.
LEMMA DeleteInodes ==
  ASSUME NsInv, NEW d \in Ino, NEW n \in Names, Delete(d, n), NEW i, i = dcache[d][n]
  PROVE  /\ ibmap' = ibmap \ {i} /\ Used' = Used \ {i}
         /\ dbmap' = dbmap \ Freed(View(i))
         /\ incore' = incore /\ dirty' = dirty \cup {d, i}
         /\ dcache' = [[dcache EXCEPT ![i] = NoDentries] EXCEPT ![d][n] = RESERVED_INO]
         /\ icache'[i].nlink = 0 /\ \A j \in Ino \ {d, i} : icache'[j] = icache[j]
         /\ refs \subseteq refs' /\ \E p \in refs' : p[2] = i
         /\ UNCHANGED <<itable, opens, stuck, mounted, panic>>
         /\ View(d)' = DropNlink(View(d))
         /\ \A j \in Used \ {d, i} : View(j)' = View(j)
<1>0. TypeOK   BY DEF NsInv, IInv
<1>1. DeleteGuard(d, n)   BY DEF Delete
<1>2. /\ View(d) = icache[d] /\ d \in incore /\ d \in Used
      /\ i \in Used \ {ROOT_INO} /\ i # d /\ View(i) = icache[i]
      /\ DropNlink(icache[i]).nlink = 0
      /\ Dentries(i) = {<<d, n>>} /\ i \notin opens
  BY <1>1, DeleteIs
<1>3. /\ ibmap' = ibmap \ {i} /\ dbmap' = dbmap \ Freed(View(i))
      /\ incore' = incore /\ dirty' = dirty \cup {d, i}
      /\ icache' = Dropped(d, i) /\ refs' = refs \cup {HeldBy(d, i)}
      /\ dcache' = Unhashed(d, n, i)
      /\ UNCHANGED <<itable, opens, stuck, mounted, panic>>
  BY <1>2 DEF Delete
<1>4. dcache' = [[dcache EXCEPT ![i] = NoDentries] EXCEPT ![d][n] = RESERVED_INO]
  BY <1>2, <1>3 DEF Unhashed
<1>5. Used' = Used \ {i}   BY <1>3 DEF Used
<1>6. /\ icache'[d] = DropNlink(icache[d]) /\ icache'[i] = DropNlink(icache[i])
      /\ \A j \in Ino \ {d, i} : icache'[j] = icache[j]
  BY <1>0, <1>2, <1>3 DEF Dropped, TypeOK, Used
<1>7. View(d)' = DropNlink(View(d))   BY <1>2, <1>3, <1>6 DEF View
<1>8. \A j \in Used \ {d, i} : View(j)' = View(j)
  BY <1>3, <1>6 DEF View, Used
<1>9. HeldBy(d, i) \in refs' /\ HeldBy(d, i)[2] = i   BY <1>3 DEF HeldBy
<1> QED  BY <1>2, <1>3, <1>4, <1>5, <1>6, <1>7, <1>8, <1>9

LEMMA DeleteEntries ==
  ASSUME NsInv, NEW d \in Ino, NEW n \in Names, Delete(d, n), NEW i, i = dcache[d][n],
         NEW k, k = Min(Hits(icache[d], n))
  PROVE  /\ Live(d)' = Live(d) \ {k} /\ \A l \in Live(d)' : At(d, l)' = At(d, l)
         /\ \A e \in Ino \ {d, i} : IsDirectory(e) =>
              Live(e)' = Live(e) /\ \A l \in Live(e) : At(e, l)' = At(e, l)
<1> DEFINE ind == View(d)
           v == [EntryAt(blocks, ind, k) EXCEPT !.d_ino = RESERVED_INO]
<1>0. TypeOK /\ Shape /\ ind \in Inode /\ blocks \in Blocks
  BY ViewType DEF NsInv, IInv, TypeOK, Blocks
<1>1. DeleteGuard(d, n) /\ RemoveEntry(d, n, i)   BY DEF Delete
<1>2. /\ IsDirectory(d) /\ ind = icache[d] /\ k \in Live(d)
  BY <1>1, DeleteIs
<1>3. blocks' = SetEntry(blocks, ind, k, v)   BY <1>1, <1>2 DEF RemoveEntry
<1>4. k \in 0 .. ind.size - 1 /\ At(d, k) \in Dentry
  BY <1>0, <1>2, DirReadable DEF Live
<1>5. v.d_ino = RESERVED_INO   BY <1>4 DEF At, Dentry
<1> HIDE DEF v
<1>6. Apart(d, ind)   BY <1>2, ApartInv
<1>7. /\ \A l \in 0 .. ind.size - 1 :
           EntryAt(blocks', ind, l) = IF l = k THEN v ELSE EntryAt(blocks, ind, l)
      /\ \A e \in Ino \ {d} : IsDirectory(e) => \A l \in 0 .. View(e).size - 1 :
           EntryAt(blocks', View(e), l) = EntryAt(blocks, View(e), l)
  BY <1>0, <1>3, <1>4, <1>6, SetApart
<1>8. View(d)'.block = ind.block /\ View(d)'.size = ind.size
  <2>1. View(d)' = DropNlink(ind)   BY DeleteInodes
  <2> QED  BY <1>0, <2>1 DEF DropNlink, Inode
<1>9. \A l : At(d, l)' = EntryAt(blocks', ind, l)
  BY <1>8 DEF At, EntryAt, BlockAt
<1>10. \A l \in 0 .. ind.size - 1 : At(d, l)' = IF l = k THEN v ELSE At(d, l)
  BY <1>7, <1>9 DEF At
<1>11. Live(d)' = {l \in 0 .. ind.size - 1 : At(d, l)'.d_ino # RESERVED_INO}
  BY <1>8 DEF Live
<1>12. Live(d)' = Live(d) \ {k}   BY <1>5, <1>10, <1>11 DEF Live
<1>13. \A l \in Live(d)' : At(d, l)' = At(d, l)   BY <1>10, <1>11, <1>12
<1>14. ASSUME NEW e \in Ino \ {d, i}, IsDirectory(e)
       PROVE  Live(e)' = Live(e) /\ \A l \in Live(e) : At(e, l)' = At(e, l)
  <2>1. View(e)' = View(e)   BY <1>14, DeleteInodes DEF IsDirectory
  <2>2. \A l : At(e, l)' = EntryAt(blocks', View(e), l)   BY <2>1 DEF At
  <2>3. \A l \in 0 .. View(e).size - 1 : At(e, l)' = At(e, l)
    BY <1>7, <1>14, <2>2 DEF At
  <2> QED  BY <2>1, <2>3 DEF Live
<1> QED  BY <1>12, <1>13, <1>14

\* What the tree shows of the removal of inode i, called n in d.
NameGone(d, n, i) ==
  /\ IsDirectory(d) /\ i = Entry(d, n) /\ i \in Used \ {ROOT_INO} /\ i # d
  /\ \A m \in Names : Entry(i, m) = RESERVED_INO
  /\ Used' = Used \ {i} /\ \A j \in Used' : View(j)'.kind = View(j).kind
  /\ \A e \in Ino, m \in Names :
       Entry(e, m)' = IF e = d /\ m = n THEN RESERVED_INO ELSE Entry(e, m)

LEMMA DeleteNames ==
  ASSUME NsInv, TypeOK', Shape', NEW d \in Ino, NEW n \in Names, Delete(d, n),
         NEW i, i = dcache[d][n]
  PROVE  NameGone(d, n, i) /\ Listed'
         /\ \A e \in Ino : IsDirectory(e)' <=> IsDirectory(e) /\ e # i
<1>0. TypeOK /\ Listed /\ Named   BY NamedInv DEF NsInv, IInv
<1>1. PICK k : k = Min(Hits(icache[d], n))   OBVIOUS
<1>2. DeleteGuard(d, n)   BY DEF Delete
<1>3. /\ IsDirectory(d) /\ d \in Used
      /\ i = Entry(d, n) /\ i \in Used \ {ROOT_INO} /\ i # d
      /\ (IsDirectory(i) => Live(i) = {})
      /\ k \in Live(d) /\ At(d, k).d_ino = i /\ At(d, k).d_name = n
  BY <1>1, <1>2, DeleteIs
<1>4. /\ Used' = Used \ {i} /\ View(d)' = DropNlink(View(d))
      /\ \A j \in Used \ {d, i} : View(j)' = View(j)
  BY DeleteInodes
<1>5. /\ Live(d)' = Live(d) \ {k} /\ \A l \in Live(d)' : At(d, l)' = At(d, l)
      /\ \A e \in Ino \ {d, i} : IsDirectory(e) =>
           Live(e)' = Live(e) /\ \A l \in Live(e) : At(e, l)' = At(e, l)
  BY <1>1, DeleteEntries
<1>6. \A j \in Used' : View(j)'.kind = View(j).kind
  <2>1. View(d) \in Inode   BY <1>0, ViewType
  <2>2. View(d)'.kind = View(d).kind   BY <1>4, <2>1 DEF DropNlink, Inode
  <2> QED  BY <1>4, <2>2
<1>7. \A e \in Ino : IsDirectory(e)' <=> IsDirectory(e) /\ e # i
  BY <1>4, <1>6 DEF IsDirectory
<1>8. ASSUME NEW e \in Ino, IsDirectory(e)', NEW l \in Live(e)'
      PROVE  /\ IsDirectory(e) /\ l \in Live(e) /\ At(e, l)' = At(e, l)
             /\ ~(e = d /\ l = k)
  BY <1>5, <1>7, <1>8
<1>9. ASSUME NEW e \in Ino, IsDirectory(e)', NEW l \in Live(e)'
      PROVE  /\ At(e, l)'.d_ino \in Used' \ {ROOT_INO}
             /\ \A f \in Ino : IsDirectory(f)' => \A m \in Live(f)' :
                  \/ At(e, l)'.d_ino = At(f, m)'.d_ino
                  \/ e = f /\ At(e, l)'.d_name = At(f, m)'.d_name
                  => e = f /\ l = m
  <2>1. /\ IsDirectory(e) /\ l \in Live(e) /\ At(e, l)' = At(e, l)
        /\ ~(e = d /\ l = k)
    BY <1>8, <1>9
  <2>2. At(e, l).d_ino # i   BY <1>0, <1>3, <2>1 DEF Listed
  <2>3. At(e, l)'.d_ino \in Used' \ {ROOT_INO}
    BY <1>0, <1>4, <2>1, <2>2 DEF Listed
  <2>4. ASSUME NEW f \in Ino, IsDirectory(f)', NEW m \in Live(f)',
               \/ At(e, l)'.d_ino = At(f, m)'.d_ino
               \/ e = f /\ At(e, l)'.d_name = At(f, m)'.d_name
        PROVE  e = f /\ l = m
    <3>1. IsDirectory(f) /\ m \in Live(f) /\ At(f, m)' = At(f, m)
      BY <1>8, <2>4
    <3> QED  BY <1>0, <2>1, <2>4, <3>1 DEF Listed
  <2> QED  BY <2>3, <2>4
<1>10. Listed'   BY <1>9 DEF Listed
<1>11. Named'   BY <1>10, NamedNext
<1>12. \A m \in Names : Entry(i, m) = RESERVED_INO
  BY <1>0, <1>3 DEF Named, Used
<1>13. ASSUME NEW e \in Ino, NEW m \in Names
       PROVE  Entry(e, m)' = IF e = d /\ m = n THEN RESERVED_INO ELSE Entry(e, m)
  <2>1. CASE e = d /\ m = n
    <3>1. IsDirectory(d)'   BY <1>3, <1>7
    <3>2. \A l \in Live(d)' : At(d, l)'.d_name # n
      BY <1>0, <1>3, <1>5 DEF Listed
    <3> QED  BY <1>11, <2>1, <3>1, <3>2 DEF Named
  <2>2. CASE ~IsDirectory(e) \/ e = i
    <3>1. Entry(e, m) = RESERVED_INO   BY <1>0, <1>12, <2>2 DEF Named
    <3>2. ~IsDirectory(e)'   BY <1>7, <2>2
    <3>3. Entry(e, m)' = RESERVED_INO   BY <1>11, <3>2 DEF Named
    <3> QED  BY <3>1, <3>3
  <2>3. CASE IsDirectory(e) /\ e # i /\ ~(e = d /\ m = n)
    <3>0. IsDirectory(e)'   BY <1>7, <2>3
    <3>1. ASSUME NEW l \in Live(e), At(e, l).d_name = m
          PROVE  Entry(e, m)' = Entry(e, m)
      <4>1. l \in Live(e)' /\ At(e, l)' = At(e, l)
        BY <1>3, <1>5, <2>3, <3>1
      <4>2. Entry(e, m) = At(e, l).d_ino   BY <1>0, <2>3, <3>1 DEF Named
      <4>3. Entry(e, m)' = At(e, l)'.d_ino   BY <1>11, <3>0, <3>1, <4>1 DEF Named
      <4> QED  BY <4>1, <4>2, <4>3
    <3>2. ASSUME \A l \in Live(e) : At(e, l).d_name # m
          PROVE  Entry(e, m)' = Entry(e, m)
      <4>1. Entry(e, m) = RESERVED_INO   BY <1>0, <2>3, <3>2 DEF Named
      <4>2. \A l \in Live(e)' : At(e, l)'.d_name # m   BY <1>8, <3>0, <3>2
      <4>3. Entry(e, m)' = RESERVED_INO   BY <1>11, <3>0, <4>2 DEF Named
      <4> QED  BY <4>1, <4>3
    <3> QED  BY <2>3, <3>1, <3>2
  <2> QED  BY <2>1, <2>2, <2>3
<1> QED  BY <1>3, <1>4, <1>6, <1>7, <1>10, <1>12, <1>13 DEF NameGone

LEMMA Delete_Inv ==
  ASSUME NsInv, IInv', NEW d \in Ino, NEW n \in Names, Delete(d, n),
         NEW i, i = dcache[d][n]
  PROVE  NsInv' /\ NameGone(d, n, i)
<1>0. TypeOK /\ TypeOK' /\ Shape /\ FewLive /\ FewLive'
  BY FewLiveInv, FewLiveNext DEF NsInv, IInv
<1>1. DeleteGuard(d, n) /\ mounted   BY DEF Delete, DeleteGuard, Running
<1>2. /\ IsDirectory(d) /\ d \in Used /\ d \in incore /\ i \in incore
      /\ i = Entry(d, n) /\ i \in Used \ {ROOT_INO} /\ i # d /\ i \in Ino
      /\ (IsDirectory(i) => Live(i) = {})
      /\ \A e \in Ino, m \in Names : Entry(e, m) = i => e = d /\ m = n
  BY <1>1, DeleteIs DEF Used
<1>3. /\ ibmap' = ibmap \ {i} /\ Used' = Used \ {i}
      /\ dbmap' = dbmap \ Freed(View(i))
      /\ incore' = incore /\ dirty' = dirty \cup {d, i}
      /\ dcache' = [[dcache EXCEPT ![i] = NoDentries] EXCEPT ![d][n] = RESERVED_INO]
      /\ icache'[i].nlink = 0 /\ \A j \in Ino \ {d, i} : icache'[j] = icache[j]
      /\ refs \subseteq refs' /\ \E p \in refs' : p[2] = i
      /\ UNCHANGED <<itable, opens, stuck, mounted, panic>>
      /\ View(d)' = DropNlink(View(d))
      /\ \A j \in Used \ {d, i} : View(j)' = View(j)
  BY DeleteInodes
<1>4. /\ View(d)'.kind = View(d).kind /\ View(d)'.block = View(d).block
      /\ View(d)'.size = View(d).size /\ View(d)'.nlink = (View(d).nlink - 1) % U32
  <2>1. View(d) \in Inode   BY <1>0, ViewType
  <2> QED  BY <1>3, <2>1 DEF DropNlink, Inode
<1>5. \A j \in Used' : /\ View(j)'.kind = View(j).kind /\ View(j)'.block = View(j).block
                       /\ View(j)'.size = View(j).size
  BY <1>3, <1>4
<1>6. Shape'
  <2>1. IsDirectory(ROOT_INO)' /\ (RESERVED_INO \in ibmap)'
    BY <1>0, <1>2, <1>3, <1>5 DEF Shape, IsDirectory, Used
  <2>2. \A j \in Used' : View(j)'.kind \in {"file", "dir"}
    BY <1>0, <1>3, <1>5 DEF Shape
  <2>3. ASSUME NEW e \in Ino, IsDirectory(e)', NEW b \in Bidx
        PROVE  (IF Below(View(e), b) THEN View(e).block[b] \in Dno
                ELSE View(e).block[b] = RESERVED_DNO)'
    <3>1. /\ IsDirectory(e) /\ View(e)'.block = View(e).block
          /\ View(e)'.size = View(e).size
      BY <1>3, <1>5, <2>3 DEF IsDirectory
    <3> QED  BY <1>0, <3>1 DEF Shape, Below
  <2> QED  BY <2>1, <2>2, <2>3 DEF Shape
<1>7. NameGone(d, n, i) /\ Listed'   BY <1>0, <1>6, DeleteNames
<1>8. Alone'
  <2> SUFFICES ASSUME NEW j \in Used', NEW b \in Bidx, Real(View(j)'.block[b])
               PROVE  /\ View(j)'.block[b] \in dbmap'
                      /\ \A l \in Used', c \in Bidx :
                           View(l)'.block[c] = View(j)'.block[b] => l = j /\ c = b
    BY DEF Alone
  <2>1. Real(View(j).block[b]) /\ View(j)'.block[b] = View(j).block[b] /\ j \in Used
    BY <1>3, <1>5
  <2>2. View(j).block[b] \in dbmap
        /\ \A l \in Used, c \in Bidx :
             View(l).block[c] = View(j).block[b] => l = j /\ c = b
    BY <2>1 DEF NsInv, Alone
  <2>3. View(j).block[b] \notin Freed(View(i))
    BY <1>2, <1>3, <2>2 DEF Freed, Covered
  <2> QED  BY <1>3, <1>5, <2>1, <2>2, <2>3
<1>9. (Steady => Sized /\ Owned)'
  <2>1. ASSUME Steady PROVE Owned'
    <3> SUFFICES ASSUME NEW x \in dbmap'
                 PROVE  \E j \in Used', c \in Bidx : View(j)'.block[c] = x
      BY DEF Owned
    <3>1. PICK j \in Used, c \in Bidx : View(j).block[c] = x
      BY <1>3, <2>1 DEF NsInv, Owned
    <3>2. j # i
      <4>1. CASE j = i
        <5>1. x # RESERVED_DNO
          BY <1>0, <1>3, InodeAssumption DEF TypeOK, RESERVED_DNO, NotFound
        <5>2. Below(View(i), c)   BY <2>1, <3>1, <4>1, <5>1 DEF NsInv, Sized
        <5>3. x \in Freed(View(i))   BY <3>1, <4>1, <5>2 DEF Freed, Covered, Below
        <5> QED  BY <1>3, <5>3
      <4> QED  BY <4>1
    <3> QED  BY <1>3, <1>5, <3>1, <3>2
  <2>2. ASSUME Steady PROVE Sized'
    BY <1>3, <1>5, <2>2 DEF NsInv, Sized, Below
  <2> QED  BY <2>1, <2>2 DEF Steady
<1>10. Links'
  <2>0. PICK k : k = Min(Hits(icache[d], n))   OBVIOUS
  <2>1. /\ k \in Live(d) /\ Live(d)' = Live(d) \ {k}
        /\ \A e \in Ino \ {d, i} : IsDirectory(e) => Live(e)' = Live(e)
    BY <1>1, <2>0, DeleteIs, DeleteEntries
  <2>2. View(d)'.nlink = 1 + Cardinality(Live(d)')
    <3>1. /\ IsFiniteSet(Live(d)) /\ Cardinality(Live(d)) \in Nat
          /\ Cardinality(Live(d)) <= MAX_DENTRYS /\ Cardinality(Live(d)') \in Nat
      BY <1>0, Words DEF FewLive
    <3>2. Cardinality(Live(d)') = Cardinality(Live(d)) - 1
      BY <2>1, <3>1, FS_RemoveElement
    <3>3. View(d).nlink = 1 + Cardinality(Live(d))
      BY <1>2 DEF NsInv, Links, IsDirectory
    <3>4. MAX_DENTRYS + 2 < U32 /\ MAX_DENTRYS \in Nat /\ U32 \in Nat
      BY InodeAssumption, Words DEF NotFound
    <3>5. View(d).nlink - 1 \in Nat /\ View(d).nlink - 1 < U32
      BY <3>1, <3>3, <3>4
    <3>6. (View(d).nlink - 1) % U32 = View(d).nlink - 1   BY <3>4, <3>5
    <3> QED  BY <1>4, <3>1, <3>2, <3>3, <3>6
  <2>3. ASSUME NEW j \in Used'
        PROVE  View(j)'.nlink
                 = IF View(j)'.kind = "dir" THEN 1 + Cardinality(Live(j)') ELSE 1
    <3>1. CASE j = d   BY <1>2, <1>4, <2>2, <3>1 DEF IsDirectory
    <3>2. CASE j # d
      <4>1. View(j)' = View(j) /\ j \in Used \ {d, i} /\ j \in Ino
        BY <1>3, <2>3, <3>2 DEF Used
      <4>2. View(j).kind = "dir" => Live(j)' = Live(j)
        BY <2>1, <4>1 DEF IsDirectory
      <4> QED  BY <4>1, <4>2 DEF NsInv, Links
    <3> QED  BY <3>1, <3>2
  <2> QED  BY <2>3 DEF Links
<1>11. \A e \in Ino, m \in Names :
         dcache'[e][m] = IF e = d /\ m = n THEN RESERVED_INO
                         ELSE IF e = i THEN Uncached ELSE dcache[e][m]
  BY <1>0, <1>2, <1>3 DEF TypeOK, NoDentries
<1>12. \A e \in Ino, m \in Names : dcache[e][m] = i => e = d /\ m = n
  BY <1>2 DEF NsInv, DcacheAgrees, Used, Ino, Uncached
<1>13. Caches'
  <2>1. ASSUME NEW j \in (incore' \cap Used') \ {ROOT_INO}
        PROVE  \E e \in Ino, m \in Names : dcache'[e][m] = j
    <3>1. j \in (incore \cap Used) \ {ROOT_INO} /\ j # i   BY <1>3, <2>1
    <3>2. PICK e \in Ino, m \in Names : dcache[e][m] = j
      BY <3>1 DEF NsInv, Caches
    <3>3. j # RESERVED_INO /\ j # Uncached
      BY <3>1 DEF Used, Ino, Uncached
    <3>4. e # i
      <4>1. Entry(i, m) = RESERVED_INO   BY <1>7 DEF NameGone
      <4> QED  BY <1>2, <3>2, <3>3, <4>1 DEF NsInv, DcacheAgrees
    <3>5. ~(e = d /\ m = n)   BY <3>1, <3>2
    <3> QED  BY <1>11, <3>2, <3>4, <3>5
  <2>2. ASSUME NEW e \in Ino, NEW m \in Names, dcache'[e][m] \notin {Uncached, RESERVED_INO}
        PROVE  dcache'[e][m] \in incore'
    <3>1. dcache'[e][m] = dcache[e][m] /\ ~(e = d /\ m = n)   BY <1>11, <2>2
    <3> QED  BY <1>3, <1>12, <2>2, <3>1 DEF NsInv, Caches
  <2>3. /\ opens' = {} /\ stuck' = {} /\ dirty' \subseteq incore'
        /\ RESERVED_INO \notin incore' /\ ROOT_INO \in incore' /\ mounted'
    BY <1>1, <1>2, <1>3 DEF NsInv, Caches
  <2>4. ASSUME NEW j \in incore' \ Used'
        PROVE  icache'[j].nlink = 0 /\ \E p \in refs' : p[2] = j
    <3>1. CASE j = i   BY <1>3, <3>1
    <3>2. CASE j # i
      <4>1. j \in incore \ Used /\ j # d   BY <1>2, <1>3, <2>4, <3>2
      <4>2. icache'[j] = icache[j]   BY <1>0, <1>3, <3>2, <4>1 DEF TypeOK
      <4> QED  BY <1>3, <4>1, <4>2 DEF NsInv, Caches
    <3> QED  BY <3>1, <3>2
  <2> QED  BY <2>1, <2>2, <2>3, <2>4 DEF Caches
<1>14. DcacheAgrees'
  <2> SUFFICES ASSUME NEW e \in Ino, NEW m \in Names, dcache'[e][m] # Uncached
               PROVE  e \in Used' /\ dcache'[e][m] = Entry(e, m)'
    BY DEF DcacheAgrees
  <2>1. Entry(e, m)' = IF e = d /\ m = n THEN RESERVED_INO ELSE Entry(e, m)
    BY <1>7 DEF NameGone
  <2>2. CASE e = d /\ m = n   BY <1>2, <1>3, <1>11, <2>1, <2>2
  <2>3. CASE ~(e = d /\ m = n)
    <3>1. e # i /\ dcache'[e][m] = dcache[e][m]   BY <1>11, <2>3
    <3>2. e \in Used /\ dcache[e][m] = Entry(e, m)   BY <3>1 DEF NsInv, DcacheAgrees
    <3>3. Entry(e, m)' = Entry(e, m)   BY <2>1, <2>3
    <3> QED  BY <1>3, <3>1, <3>2, <3>3
  <2> QED  BY <2>2, <2>3
<1> QED  BY <1>6, <1>7, <1>8, <1>9, <1>10, <1>13, <1>14 DEF NsInv

\* No inode that is removed has other links.
LEMMA DeleteLinkedNever ==
  ASSUME NsInv, NEW d \in Ino, NEW n \in Names
  PROVE  ~DeleteLinked(d, n)
  BY DeleteIs DEF DeleteLinked
-----------------------------------------------------------------------------
(* The invariant.                                                              *)

\* The disk as mkfs leaves it: an empty root directory.
LEMMA NsInit == Init => NsInv
<1> SUFFICES ASSUME Init PROVE NsInv
  OBVIOUS
<1>0. IInv /\ TypeOK   BY IInvInit DEF IInv
<1>1. /\ ibmap = {RESERVED_INO, ROOT_INO} /\ dbmap = {} /\ incore = {} /\ dirty = {}
      /\ opens = {} /\ stuck = {} /\ mounted = FALSE
      /\ itable[ROOT_INO] = NewInode("dir")
      /\ \A e \in Ino, m \in Names : dcache[e][m] = Uncached
  BY Words DEF Init, NoDentries
<1>2. Used = {ROOT_INO}   BY <1>1, Words DEF Used, RESERVED_INO, ROOT_INO
<1>3. View(ROOT_INO) = NewInode("dir")   BY <1>1 DEF View
<1>4. /\ View(ROOT_INO).kind = "dir" /\ View(ROOT_INO).size = 0
      /\ View(ROOT_INO).nlink = 1
      /\ \A b \in Bidx : View(ROOT_INO).block[b] = RESERVED_DNO
  BY <1>3 DEF NewInode
<1>5. \A b \in Bidx : ~Below(View(ROOT_INO), b)
  BY <1>4, InodeAssumption DEF Below, Bidx
<1>6. Live(ROOT_INO) = {}   BY <1>4 DEF Live
<1>7. \A d \in Ino : IsDirectory(d) <=> d = ROOT_INO
  BY <1>2, <1>4 DEF IsDirectory
<1>8. Shape   BY <1>1, <1>2, <1>4, <1>5, <1>7, Words DEF Shape
<1>9. Alone   BY <1>2, <1>4 DEF Alone, Real
<1>10. Listed   BY <1>6, <1>7 DEF Listed
<1>11. Links   BY <1>2, <1>4, <1>6, FS_EmptySet DEF Links
<1>12. Caches   BY <1>1 DEF Caches
<1>13. DcacheAgrees   BY <1>1 DEF DcacheAgrees
<1>14. Sized /\ Owned   BY <1>1, <1>2, <1>4, <1>5 DEF Sized, Owned
<1> QED  BY <1>0, <1>8, <1>9, <1>10, <1>11, <1>12, <1>13, <1>14 DEF NsInv

\* The bitmaps can be read, and no inode is stuck.
LEMMA AllRead ==
  ASSUME Quiet
  PROVE  \A S : Unread(S) = {{}}
  BY DEF Quiet, Unread

LEMMA NeverStuck ==
  ASSUME NsInv, NEW i
  PROVE  ~Stuck(i)
  BY DEF NsInv, Caches, Stuck

\* Every step leaves the tree alone, or makes or removes one entry.
TreeStep ==
  \/ SameTree
  \/ \E d \in Ino, n \in Names, i \in Ino :
       \/ \E k \in {"file", "dir"} : NewName(d, n, i, k)
       \/ NameGone(d, n, i)

LEMMA NsStep ==
  ASSUME Quiet, NsInv, [Next]_vars
  PROVE  NsInv' /\ TreeStep
<1>0. TypeOK /\ IInv'   BY IInvStep DEF NsInv, IInv
<1>1. ASSUME NEW d \in Ino, NEW n \in Names, NamespaceStep(d, n) PROVE NsInv' /\ TreeStep
  <2>1. CASE Lookup(d, n)   BY <1>0, <2>1, Lookup_Inv DEF TreeStep
  <2>2. CASE LookupMiss(d, n)   BY <1>0, <2>2, LookupMiss_Inv DEF TreeStep
  <2>3. ASSUME NEW k \in {"file", "dir"}, Create(d, n, k, {}) PROVE NsInv' /\ TreeStep
    <3>1. NsInv' /\ NewName(d, n, FreeIno, k)   BY <1>0, <2>3, Create_Inv
    <3>2. FreeIno \in Ino   BY <3>1 DEF NewName
    <3> QED  BY <3>1, <3>2 DEF TreeStep
  <2>4. CASE CreateNoInode(d, n, {})   BY <1>0, <2>4, CreateNoInode_Inv DEF TreeStep
  <2>5. CASE CreatePanics(d, n, {}) \/ DeletePanics(d, n)
    BY <1>0, <2>5, Kernel_Inv DEF TreeStep
  <2>6. CASE Delete(d, n)
    <3>1. NsInv' /\ NameGone(d, n, dcache[d][n])   BY <1>0, <2>6, Delete_Inv
    <3>2. dcache[d][n] \in Ino   BY <3>1 DEF NameGone, Used
    <3> QED  BY <3>1, <3>2 DEF TreeStep
  <2>7. CASE DeleteLinked(d, n)   BY <2>7, DeleteLinkedNever
  <2>8. CASE ShrinkDentry(d, n)   BY <2>8 DEF ShrinkDentry, Quiet
  <2>9. /\ ~LookupLeaks(d, n) /\ ~LookupHangs(d, n)
        /\ ~CreateLeaks(d, n, {}) /\ ~CreateHangs(d, n, {})
    BY <1>0, NeverStuck DEF LookupLeaks, LookupHangs, CreateLeaks, CreateHangs, Quiet
  <2>10. (\E U \in Unread({0}) : CreateStep(d, n, U)) => CreateStep(d, n, {})
    BY AllRead
  <2>11. CASE CreateStep(d, n, {})
    BY <2>3, <2>4, <2>5, <2>9, <2>11 DEF CreateStep
  <2> QED  BY <1>1, <2>1, <2>2, <2>5, <2>6, <2>7, <2>8, <2>9, <2>10, <2>11
           DEF NamespaceStep
<1>2. ASSUME NEW i \in Ino, InodeStep(i) PROVE NsInv' /\ TreeStep
  <2>1. ASSUME NEW b \in Bidx, Write(i, b, {}) PROVE NsInv' /\ TreeStep
    BY <1>0, <2>1, Write_Inv DEF TreeStep
  <2>2. ASSUME NEW b \in Bidx, WriteFails(i, b, {}) PROVE NsInv' /\ TreeStep
    BY <1>0, <2>2, WriteFails_Inv DEF TreeStep
  <2>3. ASSUME NEW c \in 0 .. YAF_IBLOCKS, Truncate(i, c * DENTRYS_PER_BLOCK)
        PROVE  NsInv' /\ TreeStep
    BY <1>0, <2>3, Truncate_Inv DEF TreeStep
  <2>4. CASE Open(i)   BY <2>4 DEF Open, Quiet
  <2>5. CASE Close(i)   BY <2>5 DEF Close, NsInv, Caches
  <2>6. CASE WriteInode(i)   BY <1>0, <2>6, Kernel_Inv DEF TreeStep
  <2>7. CASE EvictInode(i)   BY <2>7 DEF EvictInode, Quiet
  <2>8. \A b \in Bidx : Unread(0 .. b) = {{}}   BY AllRead
  <2> QED  BY <1>2, <2>1, <2>2, <2>3, <2>4, <2>5, <2>6, <2>7, <2>8 DEF InodeStep
<1>3. CASE Umount \/ Mount \/ UNCHANGED vars   BY <1>0, <1>3, Kernel_Inv DEF TreeStep
<1>4. CASE \E d \in Ino, n \in Names : NamespaceStep(d, n)   BY <1>1, <1>4
<1>5. CASE \E i \in Ino : InodeStep(i)   BY <1>2, <1>5
<1>6. CASE \E p \in refs : Release(p)   BY <1>0, <1>6, Release_Inv DEF TreeStep
<1> QED  BY <1>3, <1>4, <1>5, <1>6 DEF Next

\* The invariant of the namespace, and what it says of directories, names,
\* link counts, blocks and caches.
THEOREM NamespaceInvariant ==
  ASSUME Quiet
  PROVE  Spec => []NsInv
<1>1. NsInv /\ [Next]_vars => NsInv'   BY NsStep
<1> QED  BY NsInit, <1>1, PTL DEF Spec

\* A dentry, positive or negative, says what the directory's blocks say, in a
\* Quiet environment.
THEOREM DentriesAgree ==
  ASSUME Quiet
  PROVE  Spec => []DcacheAgrees
<1>1. NsInv => DcacheAgrees   BY DEF NsInv
<1> QED  BY <1>1, NamespaceInvariant, PTL

\* An inode that lost its number is in memory only as long as the unlink or rmdir
\* that removed it holds it.
THEOREM FreedInodesLeave ==
  ASSUME Quiet
  PROVE  Spec => []FreedLeaves
<1>1. NsInv => FreedLeaves   BY DEF NsInv, Caches, FreedLeaves, Held
<1> QED  BY <1>1, NamespaceInvariant, PTL
-----------------------------------------------------------------------------
(* The tree of YafTree.                                                        *)

LEMMA TreeInit == Init => Tree!Init
<1> SUFFICES ASSUME Init PROVE Tree!Init
  OBVIOUS
<1>1. NsInv /\ TypeOK   BY NsInit DEF NsInv, IInv
<1>2. /\ ibmap = {RESERVED_INO, ROOT_INO} /\ incore = {}
      /\ itable[ROOT_INO] = NewInode("dir")
  BY Words DEF Init
<1>3. Used = {ROOT_INO} /\ View(ROOT_INO) = NewInode("dir")
  BY <1>2, Words DEF Used, View, RESERVED_INO, ROOT_INO
<1>4. Live(ROOT_INO) = {}   BY <1>3 DEF NewInode, Live
<1>5. \A d \in Ino : IsDirectory(d) => d = ROOT_INO   BY <1>3 DEF IsDirectory
<1>6. Named   BY <1>1, NamedInv DEF NsInv
<1>7. \A d \in Ino, n \in Names : Entry(d, n) = RESERVED_INO
  BY <1>4, <1>5, <1>6 DEF Named
<1>8. View(ROOT_INO).kind = "dir"   BY <1>3 DEF NewInode
<1> QED  BY <1>3, <1>7, <1>8 DEF Tree!Init, Tree!NoEntries

\* What the three kinds of step are to the tree.
LEMMA TreeNext ==
  ASSUME Shape, TreeStep
  PROVE  \/ Tree!Next
         \/ /\ [i \in Ino |-> IF i \in Used THEN View(i).kind ELSE "free"]'
                = [i \in Ino |-> IF i \in Used THEN View(i).kind ELSE "free"]
            /\ [d \in Ino |-> [n \in Names |-> Entry(d, n)]]'
                = [d \in Ino |-> [n \in Names |-> Entry(d, n)]]
<1> DEFINE kind == [i \in Ino |-> IF i \in Used THEN View(i).kind ELSE "free"]
           ent  == [d \in Ino |-> [n \in Names |-> Entry(d, n)]]
<1>0. Used \subseteq Ino /\ Used' \subseteq Ino   BY DEF Used
<1>1. CASE SameTree
  <2>1. kind' = kind   BY <1>1 DEF SameTree
  <2>2. ent' = ent   BY <1>1 DEF SameTree
  <2> QED  BY <2>1, <2>2
<1>2. ASSUME NEW d \in Ino, NEW n \in Names, NEW i \in Ino, NEW k \in {"file", "dir"},
             NewName(d, n, i, k)
      PROVE  Tree!Next
  <2>1. kind[d] = "dir" /\ kind[i] = "free"   BY <1>2 DEF NewName, IsDirectory
  <2>2. ent[d][n] = RESERVED_INO /\ i # RESERVED_INO   BY <1>2 DEF NewName
  <2>3. kind' = [kind EXCEPT ![i] = k]   BY <1>2 DEF NewName
  <2>4. ent' = [ent EXCEPT ![d][n] = i]   BY <1>2 DEF NewName
  <2>5. kind' # kind   BY <2>1, <2>3
  <2>6. Tree!Make(d, n, i, k)   BY <2>1, <2>2, <2>3, <2>4 DEF Tree!Make
  <2> QED  BY <2>5, <2>6 DEF Tree!Next
<1>3. ASSUME NEW d \in Ino, NEW n \in Names, NEW i \in Ino, NameGone(d, n, i)
      PROVE  Tree!Next
  <2>1. /\ kind[d] = "dir" /\ kind[i] # "free"
        /\ ent[d][n] = i /\ i # RESERVED_INO
    BY <1>3 DEF NameGone, IsDirectory, Used, Shape
  <2>2. ent[i] = [m \in Names |-> RESERVED_INO]   BY <1>3 DEF NameGone
  <2>3. kind' = [kind EXCEPT ![i] = "free"]   BY <1>0, <1>3 DEF NameGone
  <2>4. ent' = [ent EXCEPT ![d][n] = RESERVED_INO]   BY <1>3 DEF NameGone
  <2>5. kind' # kind   BY <2>1, <2>3
  <2>6. Tree!Remove(d, n)
    BY <2>1, <2>2, <2>3, <2>4 DEF Tree!Remove, Tree!NoEntries
  <2> QED  BY <2>5, <2>6 DEF Tree!Next
<1> QED  BY <1>1, <1>2, <1>3 DEF TreeStep

\* The namespace through inode.c, the dcache, the inode cache, writeback and
\* remounting is a tree that changes by one entry at a time, if the environment
\* is Quiet: of the errors of the device, only those that reading a directory or
\* the inode bitmap meets are allowed ("eio").
THEOREM ImplementsTree ==
  ASSUME Quiet
  PROVE  Spec => TreeSpec
<1>1. NsInv /\ [Next]_vars =>
        [Tree!Next]_<<[i \in Ino |-> IF i \in Used THEN View(i).kind ELSE "free"],
                      [d \in Ino |-> [n \in Names |-> Entry(d, n)]]>>
  BY NsStep, TreeNext DEF NsInv
<1> QED  BY TreeInit, <1>1, NamespaceInvariant, PTL DEF Spec, TreeSpec, Tree!Spec
-----------------------------------------------------------------------------
(* Link counts and blocks.                                                     *)

\* A directory has as many names as it has entries in use.
LEMMA NamesAreEntries ==
  ASSUME TypeOK, Shape, Listed, NEW d \in Ino, IsDirectory(d)
  PROVE  Cardinality({n \in Names : Entry(d, n) # RESERVED_INO}) = Cardinality(Live(d))
<1> DEFINE named == {n \in Names : Entry(d, n) # RESERVED_INO}
           name == [k \in Live(d) |-> At(d, k).d_name]
<1>0. Named /\ FewLive   BY NamedInv, FewLiveInv
<1>1. \A k \in Live(d) : /\ At(d, k) \in Dentry
                         /\ At(d, k).d_ino # RESERVED_INO
  BY DirReadable DEF Live
<1>2. name \in [Live(d) -> named]
  <2>1. ASSUME NEW k \in Live(d) PROVE At(d, k).d_name \in named
    <3>1. At(d, k).d_name \in Names   BY <1>1 DEF Dentry
    <3>2. Entry(d, At(d, k).d_name) = At(d, k).d_ino   BY <1>0, <3>1 DEF Named
    <3> QED  BY <1>1, <3>1, <3>2
  <2> QED  BY <2>1
<1>3. \A k, l \in Live(d) : name[k] = name[l] => k = l   BY DEF Listed
<1>4. \A n \in named : \E k \in Live(d) : name[k] = n   BY <1>0 DEF Named
<1>5. name \in Bijection(Live(d), named)
  BY <1>2, <1>3, <1>4 DEF Bijection, Injection, Surjection, IsInjective
<1>6. ExistsBijection(Live(d), named)   BY <1>5 DEF ExistsBijection
<1>7. IsFiniteSet(Live(d))   BY <1>0 DEF FewLive
<1> QED  BY <1>6, <1>7, FS_Bijection

\* i_nlink of a directory is one more than its entries, in a Quiet environment.
THEOREM LinksAreCounted ==
  ASSUME Quiet
  PROVE  Spec => []NlinkCounts
<1>1. NsInv => NlinkCounts
  <2> SUFFICES ASSUME NsInv, NEW d \in Used, View(d).kind = "dir"
               PROVE  View(d).nlink
                        = 1 + Cardinality({n \in Names : Entry(d, n) # RESERVED_INO})
    BY DEF NlinkCounts
  <2>1. d \in Ino /\ IsDirectory(d)   BY DEF Used, IsDirectory
  <2>2. View(d).nlink = 1 + Cardinality(Live(d))   BY DEF NsInv, Links
  <2>3. TypeOK /\ Shape /\ Listed   BY DEF NsInv, IInv
  <2> QED  BY <2>1, <2>2, <2>3, NamesAreEntries
<1> QED  BY <1>1, NamespaceInvariant, PTL

\* No file or directory was given -ENOENT as a block: the data bitmap was never
\* full when one grew.
NoneRanOut == \A p \in Places : BlockIn(p) # NotFound

\* Two places never hold the same block, as long as the data bitmap can be read
\* (Quiet) and has blocks to give: if it cannot be read every caller gets 0
\* (bitmap.c:77), and from a full one 2^32-2.
THEOREM BlocksAreExclusive ==
  ASSUME Quiet
  PROVE  Spec => [](NoneRanOut => BlocksExclusive)
<1>1. NsInv => (NoneRanOut => BlocksExclusive)
  <2> SUFFICES ASSUME Alone, NoneRanOut, NEW p \in Places
               PROVE  /\ BlockIn(p) \in dbmap
                      /\ \A q \in Places \ {p} : BlockIn(p) # BlockIn(q)
    BY DEF NsInv, BlocksExclusive
  <2>1. p[1] \in Used /\ p[2] \in Bidx /\ p = <<p[1], p[2]>>   BY DEF Places
  <2>2. Real(View(p[1]).block[p[2]])   BY DEF NoneRanOut, Places, BlockIn, Real
  <2>3. BlockIn(p) \in dbmap   BY <2>1, <2>2 DEF Alone, BlockIn
  <2>4. ASSUME NEW q \in Places \ {p}, BlockIn(p) = BlockIn(q) PROVE FALSE
    <3>1. q[1] \in Used /\ q[2] \in Bidx /\ q = <<q[1], q[2]>>   BY DEF Places
    <3>2. q[1] = p[1] /\ q[2] = p[2]   BY <2>1, <2>2, <2>4, <3>1 DEF Alone, BlockIn
    <3> QED  BY <2>1, <3>1, <3>2
  <2> QED  BY <2>3, <2>4
<1> QED  BY <1>1, NamespaceInvariant, PTL

\* A block that is marked as used is in some file or directory: none is lost by
\* creating, growing and removing them, nor when a create stops half way because
\* a block of the directory or of the inode bitmap cannot be read.
THEOREM NoBlockIsLost ==
  ASSUME Quiet, Steady
  PROVE  Spec => []NoLeak
<1>1. NsInv => NoLeak
  <2> SUFFICES ASSUME TypeOK, Owned, NEW x \in dbmap
               PROVE  \E p \in Places : BlockIn(p) = x
    BY DEF NsInv, IInv, NoLeak
  <2>1. PICK i \in Used, b \in Bidx : View(i).block[b] = x   BY DEF Owned
  <2>2. x # RESERVED_DNO
    <3>1. x \in 0 .. DATA_BITS - 1   BY DEF TypeOK
    <3> QED  BY <3>1, InodeAssumption DEF RESERVED_DNO, NotFound
  <2>3. <<i, b>> \in Places /\ BlockIn(<<i, b>>) = x   BY <2>1, <2>2 DEF Places, BlockIn
  <2> QED  BY <2>3
<1> QED  BY <1>1, NamespaceInvariant, PTL
-----------------------------------------------------------------------------
(* Panics.                                                                     *)

\* Something has run out: every inode number is taken, or a file has taken
\* blocks from a full data bitmap, or the next entry of a directory has no place
\* in it, or no block of the device.
NoPlace(ind) == Grows(ind) /\ \/ ind.size = MAX_DENTRYS
                              \/ NeedsBlock(ind) /\ ~Readable(FreeDno({}))
Exhausted == \/ FreeIno = NotFound
             \/ ~NoneRanOut
             \/ \E d \in Ino, n \in Names :
                  IsDirectory(d) /\ Entry(d, n) = RESERVED_INO /\ NoPlace(View(d))

\* yaf_get_free_dentry fails for no other reason.
LEMMA NoSlotIs ==
  ASSUME TypeOK, Shape, NEW d \in Ino, IsDirectory(d), NoSlot(View(d), {})
  PROVE  NoPlace(View(d))
<1>1. PICK ind : ind = View(d)   OBVIOUS
<1>2. ind \in Inode /\ ind.size \in 0 .. MAX_DENTRYS /\ ind.size \in Nat
  BY <1>1, ViewType, Words DEF Inode
<1>3. CASE ~Grows(ind)
  <2>1. Unused(ind) \in SUBSET Nat /\ Unused(ind) \subseteq 0 .. ind.size - 1
        /\ Unused(ind) # {}
    BY <1>2, <1>3, StopsInside, Words DEF Grows
  <2>2. SlotFor(ind) \in 0 .. ind.size - 1   BY <2>1, MinIn DEF SlotFor
  <2>3. Readable(BlockAt(ind, SlotFor(ind)))   BY <1>1, <2>2, DirReadable
  <2> QED  BY <1>1, <1>3, <2>3 DEF NoSlot
<1>4. CASE Grows(ind) /\ ind.size < MAX_DENTRYS
  <2> DEFINE q == ind.size \div DENTRYS_PER_BLOCK
  <2>1. q \in Bidx /\ q \in Nat   BY <1>2, <1>4, Position, Words DEF Bidx
  <2>2. Below(ind, q) <=> ind.size % DENTRYS_PER_BLOCK # 0
    BY <1>2, <2>1, BelowQuotient DEF Below
  <2>3. IF Below(ind, q) THEN ind.block[q] \in Dno ELSE ind.block[q] = RESERVED_DNO
    BY <1>1, <2>1 DEF Shape
  <2>4. CASE NeedsBlock(ind)
    <3>1. BlockAt(ind, ind.size) = RESERVED_DNO
      BY <2>2, <2>3, <2>4 DEF NeedsBlock, BlockAt
    <3>2. DirFor(ind, {}).block[q] = FreeDno({})
      BY <1>2, <1>4, <2>1, <2>4 DEF DirFor, Inode
    <3>3. ~Readable(FreeDno({}))
      BY <1>1, <1>2, <1>4, <2>4, <3>1, <3>2, Words DEF NoSlot, BlockAt
    <3> QED  BY <1>1, <1>4, <2>4, <3>3 DEF NoPlace
  <2>5. CASE ~NeedsBlock(ind)
    <3>1. ind.block[q] \in Dno   BY <1>4, <2>2, <2>3, <2>5 DEF NeedsBlock
    <3>2. DirFor(ind, {}).block = ind.block
      BY <1>2, <1>4, <2>5 DEF DirFor, Inode
    <3>3. Readable(BlockAt(DirFor(ind, {}), ind.size))
      BY <3>1, <3>2 DEF BlockAt, Readable
    <3> QED  BY <1>1, <1>2, <1>4, <2>5, <3>3, Words DEF NoSlot
  <2> QED  BY <2>4, <2>5
<1>5. CASE Grows(ind) /\ ind.size = MAX_DENTRYS   BY <1>1, <1>5 DEF NoPlace
<1> QED  BY <1>2, <1>3, <1>4, <1>5, Words

\* The bits yaf_delete puts back are set, each of them once.
LEMMA FreesItsOwn ==
  ASSUME TypeOK, Alone, Sized, NoneRanOut, NEW i \in Used, NEW ind, ind = View(i)
  PROVE  CanFree(i, ind)
<1>1. ASSUME NEW b \in Covered(ind)
      PROVE  /\ b \in Bidx /\ ind.block[b] \in dbmap
             /\ \A c \in Covered(ind) : ind.block[c] = ind.block[b] => c = b
  <2>1. b \in Bidx /\ Below(ind, b)   BY DEF Covered, Below
  <2>2. ind.block[b] # RESERVED_DNO   BY <2>1 DEF Sized
  <2>3. <<i, b>> \in Places /\ BlockIn(<<i, b>>) = ind.block[b]
    BY <2>1, <2>2 DEF Places, BlockIn
  <2>4. Real(ind.block[b])   BY <2>2, <2>3 DEF NoneRanOut, Real
  <2> QED  BY <2>1, <2>4 DEF Alone, Covered
<1> DEFINE of == [b \in Covered(ind) |-> ind.block[b]]
<1>2. of \in Bijection(Covered(ind), Freed(ind))
  BY <1>1 DEF Bijection, Injection, Surjection, IsInjective, Freed
<1>3. IsFiniteSet(Covered(ind))
  <2>1. 0 \in Int /\ YAF_IBLOCKS - 1 \in Int   BY InodeAssumption
  <2>2. IsFiniteSet(Bidx)   BY <2>1, FS_Interval DEF Bidx
  <2> QED  BY <2>2, FS_Subset DEF Covered
<1>4. Cardinality(Freed(ind)) = Cardinality(Covered(ind))
  <2>1. ExistsBijection(Covered(ind), Freed(ind))   BY <1>2 DEF ExistsBijection
  <2> QED  BY <1>3, <2>1, FS_Bijection
<1>5. Freed(ind) \subseteq dbmap   BY <1>1 DEF Freed
<1>6. i \in ibmap   BY DEF Used
<1> QED  BY <1>4, <1>5, <1>6 DEF CanFree

\* No other step than those two panics.
LEMMA PanicsIn ==
  ASSUME Quiet, [Next]_vars, panic' # panic
  PROVE  \E d \in Ino, n \in Names : CreatePanics(d, n, {}) \/ DeletePanics(d, n)
<1>1. ASSUME NEW i \in Ino, InodeStep(i) PROVE FALSE
  BY <1>1 DEF InodeStep, Write, WriteFails, Truncate, Open, Close, WriteInode, EvictInode
<1>2. ASSUME NEW d \in Ino, NEW n \in Names, NamespaceStep(d, n)
      PROVE  CreatePanics(d, n, {}) \/ DeletePanics(d, n)
  <2>1. (\E U \in Unread({0}) : CreateStep(d, n, U)) => CreateStep(d, n, {})
    BY AllRead
  <2>2. CreateStep(d, n, {}) => CreatePanics(d, n, {})
    BY DEF CreateStep, Create, CreateNoInode, CreateLeaks, CreateHangs
  <2> QED  BY <1>2, <2>1, <2>2 DEF NamespaceStep, Lookup, LookupMiss, LookupLeaks,
           LookupHangs, Delete, DeleteLinked, ShrinkDentry
<1>3. ~(Umount \/ Mount \/ UNCHANGED vars)   BY DEF Umount, Mount, vars
<1>4. \A p \in refs : ~Release(p)   BY DEF Release
<1> QED  BY <1>1, <1>2, <1>3, <1>4 DEF Next

\* While a panic is one of the two, something has run out.
LEMMA PanicIsExhaustion ==
  ASSUME Quiet, Steady, "eio" \notin Env, NsInv, NEW d \in Ino, NEW n \in Names,
         CreatePanics(d, n, {}) \/ DeletePanics(d, n)
  PROVE  Exhausted
<1>0. TypeOK /\ Shape /\ Alone /\ Sized /\ DcacheAgrees   BY DEF NsInv, IInv
<1>1. CASE CreatePanics(d, n, {})
  <2>1. IsDirectory(d) /\ View(d) = icache[d]   BY <1>1, DirIs DEF CreatePanics, CreateGuard
  <2>2. Entry(d, n) = RESERVED_INO
    BY <1>0, <1>1 DEF CreatePanics, CreateGuard, DcacheAgrees, RESERVED_INO, Uncached
  <2>3. NoSlot(View(d), {}) \/ FreeIno = NotFound   BY <1>1, <2>1 DEF CreatePanics
  <2>4. NoSlot(View(d), {}) => NoPlace(View(d))   BY <1>0, <2>1, NoSlotIs
  <2> QED  BY <2>1, <2>2, <2>3, <2>4 DEF Exhausted
<1>2. CASE DeletePanics(d, n)
  <2>1. PICK i : i = dcache[d][n]   OBVIOUS
  <2>2. DeleteGuard(d, n)   BY <1>2 DEF DeletePanics
  <2>3. i \in Used /\ View(i) = icache[i]   BY <2>1, <2>2, DeleteIs
  <2>4. Found(icache[d], n)
    <3>1. IsDirectory(d) /\ View(d) = icache[d]
          /\ \E k \in Live(d) : At(d, k).d_name = n
      BY <2>1, <2>2, DeleteIs
    <3>2. Named   BY <1>0, NamedInv DEF NsInv
    <3> QED  BY <3>1, <3>2 DEF Named
  <2>5. ~CanFree(i, icache[i])   BY <1>2, <2>1, <2>4 DEF DeletePanics, Quiet
  <2>6. NoneRanOut => CanFree(i, icache[i])   BY <1>0, <2>3, FreesItsOwn
  <2> QED  BY <2>5, <2>6 DEF Exhausted
<1> QED  BY <1>1, <1>2

\* Without I/O errors, truncate() and failing writes, no assertion fails and no
\* index is out of bounds until an inode, a block or a slot is missing.
THEOREM OnlyExhaustionPanics ==
  ASSUME Quiet, Steady, "eio" \notin Env
  PROVE  Spec /\ []~Exhausted => []NoPanic
<1>1. Init => NoPanic   BY DEF Init, NoPanic
<1>2. NsInv /\ ~Exhausted /\ NoPanic /\ [Next]_vars => NoPanic'
  BY PanicsIn, PanicIsExhaustion DEF NoPanic
<1> QED  BY <1>1, <1>2, NamespaceInvariant, PTL DEF Spec
===============================================================================
