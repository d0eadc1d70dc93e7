--------------------------- MODULE YafFile_proofs ----------------------------
(***************************************************************************)
(* Proofs about YafFile: for files of any number of blocks of any number   *)
(* of cells, also on a full device and with blocks that cannot be read.    *)
(***************************************************************************)
EXTENDS YafFile, YafNumbers

\* A cell of the file that a write reached, in its block and its place there.
Reached(c) == c \in 0 .. size - 1 /\ c \notin gaps
Blk(c) == c \div CELLS
Off(c) == c % CELLS

\* The page between yaf_write_begin and yaf_write_end: its block is allocated,
\* and it is up to date unless all of it is to be written.
Writing ==
  wr # Idle =>
    /\ wr.block < nb /\ count > 0
    /\ page[wr.block] # Absent
    /\ page[wr.block] = NotUptodate => wr.from = 0 /\ wr.to = CELLS

\* What was written has a block, and a page that is not dirty shows what is there.
Mapped == \A c \in Nat : Reached(c) => Blk(c) < nb
Clean  == \A c \in Nat : Reached(c) /\ Cached(Blk(c)) /\ Blk(c) \notin dirty =>
                           page[Blk(c)][Off(c)] = disk[Blk(c)][Off(c)]

\* Strengthens BlocksMatchSize: also within a write, which may have got the last
\* block.
Blocks ==
  ~uneven => /\ size <= nb * CELLS
             /\ (nb - 1) * CELLS < size \/ (wr # Idle /\ nb = wr.block + 1)

FileInv == /\ TypeOK
           /\ Writing
           /\ DirtyIsMapped
           /\ Mapped
           /\ Clean
           /\ Blocks
           /\ InodeSaved

-----------------------------------------------------------------------------
(* Cells and blocks. *)

\* Where a cell is.
LEMMA CellPlace ==
  ASSUME NEW c \in Nat
  PROVE  /\ Blk(c) \in Nat /\ Off(c) \in Cell
         /\ c = Blk(c) * CELLS + Off(c) /\ Blk(c) * CELLS \in Nat
         /\ c < MAX_FILESIZE => Blk(c) \in Bidx
<1>1. /\ Blk(c) \in Nat /\ CELLS * Blk(c) \in Nat
      /\ CELLS * Blk(c) <= c /\ c < CELLS * Blk(c) + CELLS
      /\ Off(c) = c - CELLS * Blk(c)
  BY Quotient, FileAssumption DEF Blk, Off
<1>2. Off(c) \in Cell   BY <1>1, FileAssumption DEF Cell
<1>3. CELLS * Blk(c) = Blk(c) * CELLS   BY <1>1, FileAssumption
<1>4. ASSUME c < MAX_FILESIZE PROVE Blk(c) \in Bidx
  <2>1. c < CELLS * YAF_IBLOCKS   BY <1>4, FileAssumption DEF MAX_FILESIZE
  <2> QED  BY <2>1, InGroup, FileAssumption DEF Bidx, Blk
<1> QED  BY <1>1, <1>2, <1>3, <1>4

\* Which cell is at a place.
LEMMA PlaceCell ==
  ASSUME NEW b \in Nat, NEW o \in Cell
  PROVE  b * CELLS + o \in Nat /\ Blk(b * CELLS + o) = b /\ Off(b * CELLS + o) = o
<1>1. b * CELLS = CELLS * b   BY FileAssumption
<1> QED  BY <1>1, PlaceInGroup, FileAssumption DEF Cell, Blk, Off

\* Multiples of a block.
LEMMA BlockEnds ==
  ASSUME NEW b \in Nat, NEW n \in Nat
  PROVE  /\ b * CELLS \in Nat /\ n * CELLS \in Nat
         /\ (b + 1) * CELLS = b * CELLS + CELLS
         /\ (n - 1) * CELLS = n * CELLS - CELLS
         /\ b + 1 <= n => b * CELLS + CELLS <= n * CELLS
         /\ b <= n => b * CELLS <= n * CELLS
<1>1. /\ (b + 1) * CELLS = b * CELLS + CELLS /\ (n - 1) * CELLS = n * CELLS - CELLS
      /\ b * CELLS \in Nat /\ n * CELLS \in Nat
      /\ b * CELLS = CELLS * b /\ n * CELLS = CELLS * n
      /\ (b + 1) * CELLS = CELLS * (b + 1)
  BY FileAssumption
<1>2. b <= n => CELLS * b <= CELLS * n   BY FileAssumption, Product
<1>3. b + 1 <= n => CELLS * (b + 1) <= CELLS * n   BY FileAssumption, Product
<1> QED  BY <1>1, <1>2, <1>3

LEMMA WriteFields ==
  ASSUME NEW w \in Write
  PROVE  /\ w.block \in Bidx /\ w.block \in Nat /\ w.from \in Cell /\ w.from \in Nat
         /\ w.to \in 1 .. CELLS /\ w.from < w.to /\ w # Idle
  BY FileAssumption DEF Write, Idle, Bidx, Cell

\* The cells of a write.
LEMMA CopiedCells ==
  ASSUME wr \in Write, NEW end \in 0 .. CELLS, NEW c \in Nat
  PROVE  c \in Copied(end) <=> Blk(c) = wr.block /\ wr.from <= Off(c) /\ Off(c) < end
<1> DEFINE b == wr.block
           f == wr.from
<1>1. b \in Nat /\ f \in Nat /\ b * CELLS \in Nat /\ CELLS \in Nat
  BY WriteFields, BlockEnds, FileAssumption
<1> HIDE DEF b, f
<1>2. /\ Blk(c) \in Nat /\ Off(c) \in Cell
      /\ c = Blk(c) * CELLS + Off(c) /\ Blk(c) * CELLS \in Nat
  BY CellPlace
<1>3. ASSUME Blk(c) = b, f <= Off(c), Off(c) < end
      PROVE  c \in b * CELLS + f .. b * CELLS + end - 1
  <2>1. c = b * CELLS + Off(c)   BY <1>2, <1>3
  <2> DEFINE x == b * CELLS
  <2>2. x \in Nat /\ c = x + Off(c) /\ Off(c) \in Nat   BY <1>1, <1>2, <2>1 DEF Cell
  <2> HIDE DEF x
  <2>3. c \in x + f .. x + end - 1   BY <1>1, <1>3, <2>2
  <2> QED  BY <2>3 DEF x
<1>4. ASSUME c \in b * CELLS + f .. b * CELLS + end - 1
      PROVE  Blk(c) = b /\ f <= Off(c) /\ Off(c) < end
  <2> DEFINE x == b * CELLS
             o == c - x
  <2>1. x \in Nat /\ c \in x + f .. x + end - 1   BY <1>1, <1>4
  <2> HIDE DEF x
  <2>2. o \in Cell /\ c = x + o /\ f <= o /\ o < end   BY <1>1, <2>1 DEF Cell
  <2> HIDE DEF o
  <2>3. Blk(x + o) = b /\ Off(x + o) = o   BY <1>1, <2>2, PlaceCell DEF x
  <2> QED  BY <2>2, <2>3
<1> QED  BY <1>3, <1>4 DEF Copied, b, f

\* A page cut off is a page.
LEMMA CutType ==
  ASSUME NEW p \in Content, NEW n \in Int
  PROVE  Cut(p, n) \in Content /\ \A o \in Cell : o < n => Cut(p, n)[o] = p[o]
  BY DEF Cut, Content

\* A page that is in the cache has contents.
LEMMA CachedType ==
  ASSUME TypeOK, NEW b \in Bidx
  PROVE  Cached(b) <=> page[b] \in Content
  BY FileAssumption DEF TypeOK, Cached

LEMMA Below ==
  ASSUME NEW m \in Nat, NEW n \in Nat, m <= n PROVE 0 .. m - 1 \subseteq 0 .. n - 1
  OBVIOUS

\* What a cell that was written shows.
LEMMA ViewOf ==
  ASSUME TypeOK, Mapped, NEW c \in Nat, Reached(c)
  PROVE  /\ Blk(c) \in Bidx /\ Blk(c) < nb /\ Off(c) \in Cell
         /\ c = Blk(c) * CELLS + Off(c) /\ Blk(c) * CELLS \in Nat
         /\ View(c) = IF Cached(Blk(c)) THEN page[Blk(c)][Off(c)]
                      ELSE disk[Blk(c)][Off(c)]
<1>1. size \in Nat /\ size <= MAX_FILESIZE /\ MAX_FILESIZE \in Nat
  BY FileAssumption DEF TypeOK, MAX_FILESIZE
<1>2. c < MAX_FILESIZE   BY <1>1 DEF Reached
<1>3. Blk(c) < nb   BY DEF Mapped
<1> QED  BY <1>2, <1>3, CellPlace DEF View, ReadIn, Blk, Off

-----------------------------------------------------------------------------
(* What the actions that change more than a flag do, with Max and Prepared     *)
(* worked out.                                                                 *)

LEMMA Numbers ==
  ASSUME TypeOK
  PROVE  /\ nb \in Nat /\ nb <= YAF_IBLOCKS /\ size \in Nat /\ count \in Nat
         /\ size <= MAX_FILESIZE /\ MAX_FILESIZE \in Nat
         /\ YAF_IBLOCKS \in Nat /\ CELLS \in Nat /\ CELLS > 0
         /\ Bidx \subseteq Nat
  BY FileAssumption DEF TypeOK, MAX_FILESIZE, Bidx

LEMMA BlocksForIs ==
  ASSUME TypeOK, NEW w \in Write
  PROVE  /\ BlocksFor(w) = IF nb >= w.block + 1 THEN nb ELSE w.block + 1
         /\ BlocksFor(w) \in 0 .. YAF_IBLOCKS
<1>1. nb \in 0 .. YAF_IBLOCKS /\ w.block \in 0 .. YAF_IBLOCKS - 1 /\ YAF_IBLOCKS \in Nat
  BY WriteFields, FileAssumption DEF TypeOK, Bidx
<1>2. BlocksFor(w) = IF nb >= w.block + 1 THEN nb ELSE w.block + 1
  BY <1>1, MaxPair DEF BlocksFor
<1> QED  BY <1>1, <1>2

\* Blocks off the device are allocated.
LEMMA OffType ==
  ASSUME TypeOK, NEW n \in 0 .. YAF_IBLOCKS, nb <= n, NEW o \in OffOf(n)
  PROVE  o \subseteq 0 .. n - 1
<1>1. off \subseteq 0 .. nb - 1 /\ nb \in Nat /\ n \in Nat   BY Numbers, FileAssumption DEF TypeOK
<1>2. 0 .. nb - 1 \subseteq 0 .. n - 1   BY <1>1, Below
<1>3. nb .. n - 1 \subseteq 0 .. n - 1   BY <1>1
<1>4. o \subseteq off \cup (nb .. n - 1)   BY DEF OffOf
<1> QED  BY <1>1, <1>2, <1>3, <1>4

LEMMA PreparedIs ==
  ASSUME TypeOK, NEW w \in Write
  PROVE  /\ Prepared(w) \in Content \cup {NotUptodate}
         /\ Cached(w.block) => Prepared(w) = page[w.block]
         /\ ~Cached(w.block) => Prepared(w) \in {disk[w.block], NotUptodate}
         /\ Prepared(w) = NotUptodate => w.from = 0 /\ w.to = CELLS
<1>1. /\ w.block \in Bidx /\ w.from \in Nat /\ w.to \in 1 .. CELLS
      /\ disk[w.block] \in Content
  BY WriteFields DEF TypeOK
<1>2. Cached(w.block) => page[w.block] \in Content   BY <1>1, CachedType
<1> QED  BY <1>1, <1>2, FileAssumption DEF Prepared

\* yaf_writepage() allocates nothing.
LEMMA WritepageIs ==
  ASSUME TypeOK, DirtyIsMapped, NEW b \in Bidx, Writepage(b)
  PROVE  /\ b < nb /\ page[b] \in Content
         /\ nb' = nb
         /\ dirty' = dirty \ {b}
         /\ page' = [page EXCEPT ![b] = Cut(page[b], size - b * CELLS)]
         /\ disk' = [disk EXCEPT ![b] = Cut(page[b], size - b * CELLS)]
         /\ Cut(page[b], size - b * CELLS) \in Content
         /\ UNCHANGED <<off, size, wr, count, idirty, saved, panic, gaps, uneven>>
<1>1. b \in dirty /\ b < nb /\ Cached(b)   BY DEF Writepage, DirtyIsMapped
<1>2. page[b] \in Content   BY <1>1, CachedType
<1>3. nb \in Nat /\ b \in Nat /\ size \in Nat   BY Numbers
<1>4. nb' = nb   BY <1>1, <1>3, MaxPair DEF Writepage
<1>5. size - b * CELLS \in Int   BY <1>3, BlockEnds
<1>6. Cut(page[b], size - b * CELLS) \in Content   BY <1>2, <1>5, CutType
<1>7. page'[b] = Cut(page[b], size - b * CELLS)   BY DEF Writepage, TypeOK
<1> QED  BY <1>1, <1>2, <1>4, <1>6, <1>7 DEF Writepage, hist

\* generic_write_end() of a copy that counts.
Counts(end) == ~(end = wr.from \/ (page[wr.block] = NotUptodate /\ end < wr.to))

LEMMA WriteEndIs ==
  ASSUME TypeOK, Writing, NEW end \in 0 .. CELLS, WriteEnd(end)
  PROVE  /\ wr \in Write /\ wr' = Idle /\ wr.from <= end /\ end <= wr.to
         /\ UNCHANGED <<nb, off, disk, count, saved, panic>>
         /\ uneven' = (uneven \/ end < wr.to)
         /\ ~Counts(end) => UNCHANGED <<page, dirty, size, idirty, gaps>>
         /\ Counts(end) =>
              /\ wr.from < end
              /\ page[wr.block] \notin Content => wr.from = 0 /\ end = CELLS
              /\ page'[wr.block] \in Content
              /\ page' = [page EXCEPT ![wr.block] = [c \in Cell |->
                            IF wr.from <= c /\ c < end THEN count ELSE page[wr.block][c]]]
              /\ dirty' = dirty \cup {wr.block}
              /\ size' = IF size >= wr.block * CELLS + end THEN size
                         ELSE wr.block * CELLS + end
              /\ idirty' = (idirty \/ size' # size \/ end = wr.to)
              /\ gaps' = (gaps \cup (size .. wr.block * CELLS + wr.from - 1)) \ Copied(end)
<1>1. wr \in Write /\ wr # Idle   BY DEF WriteEnd, TypeOK
<1>2. /\ wr.from \in Nat /\ wr.to \in Nat /\ wr.from < wr.to /\ wr.to <= CELLS
      /\ wr.block \in Bidx /\ wr.block \in Nat
  BY <1>1, WriteFields, FileAssumption
<1>3. wr.from <= end /\ end <= wr.to   BY <1>2 DEF WriteEnd
<1>4. size \in Nat /\ wr.block * CELLS \in Nat   BY <1>2, Numbers, BlockEnds
<1>5. NewSize(end) = IF size >= wr.block * CELLS + end THEN size ELSE wr.block * CELLS + end
  BY <1>4, MaxPair DEF NewSize
<1>6. ASSUME Counts(end)
      PROVE  /\ wr.from < end
             /\ page[wr.block] \notin Content => wr.from = 0 /\ end = CELLS
  <2>1. wr.from < end   BY <1>2, <1>3, <1>6 DEF Counts
  <2>2. CASE page[wr.block] = NotUptodate
    BY <1>1, <1>2, <1>3, <1>6, <2>1, <2>2 DEF Counts, Writing
  <2>3. CASE page[wr.block] # NotUptodate
    BY <1>1, <1>2, <2>1, <2>3 DEF Writing, TypeOK
  <2> QED  BY <2>1, <2>2, <2>3
<1>7. ASSUME Counts(end)
      PROVE  /\ page' = [page EXCEPT ![wr.block] = [c \in Cell |->
                           IF wr.from <= c /\ c < end THEN count ELSE page[wr.block][c]]]
             /\ page'[wr.block] \in Content
  <2> DEFINE f == [c \in Cell |->
                     IF wr.from <= c /\ c < end THEN count ELSE page[wr.block][c]]
  <2>1. page' = [page EXCEPT ![wr.block] = f]   BY <1>7 DEF WriteEnd, Counts
  <2>2. count \in Data
    BY <1>1, Numbers, FileAssumption DEF Writing, TypeOK, Data
  <2>3. ASSUME NEW c \in Cell PROVE f[c] \in Data \cup {Zero, Old}
    <3>1. CASE page[wr.block] \in Content   BY <2>2, <3>1 DEF Content
    <3>2. CASE page[wr.block] \notin Content
      BY <1>6, <1>7, <2>2, <3>2, FileAssumption DEF Cell
    <3> QED  BY <3>1, <3>2
  <2>4. f \in Content   BY <2>3 DEF Content
  <2>5. page'[wr.block] = f   BY <1>2, <2>1 DEF TypeOK
  <2> QED  BY <2>1, <2>4, <2>5
<1> QED  BY <1>1, <1>3, <1>5, <1>6, <1>7 DEF WriteEnd, Counts

LEMMA TruncateIs ==
  ASSUME TypeOK, NEW n \in 0 .. MAX_FILESIZE, Truncate(n)
  PROVE  /\ n \in Nat /\ wr = Idle /\ size' = n /\ count' = count + 1
         /\ dirty' = {b \in dirty : b * CELLS < n}
         /\ idirty' = TRUE /\ uneven' = TRUE
         /\ gaps' = (gaps \cup (size .. n - 1)) \cap (0 .. n - 1)
         /\ page' \in [Bidx -> Content \cup {Absent, NotUptodate}]
         /\ \A b \in Bidx : b * CELLS >= n => page'[b] = Absent
         /\ \A b \in Bidx : b * CELLS < n =>
              page'[b] = IF Cached(b) THEN Cut(page[b], n - b * CELLS) ELSE page[b]
         /\ UNCHANGED <<nb, off, disk, wr, saved, panic>>
<1>1. n \in Nat   BY Numbers
<1>2. page' = [b \in Bidx |-> IF b * CELLS >= n THEN Absent
                             ELSE IF Cached(b) THEN Cut(page[b], n - b * CELLS)
                             ELSE page[b]]
  BY DEF Truncate
<1>3. ASSUME NEW b \in Bidx
      PROVE  /\ page'[b] \in Content \cup {Absent, NotUptodate}
             /\ b * CELLS >= n => page'[b] = Absent
             /\ b * CELLS < n =>
                  page'[b] = IF Cached(b) THEN Cut(page[b], n - b * CELLS) ELSE page[b]
  <2>1. b \in Nat /\ b * CELLS \in Nat   BY Numbers, BlockEnds
  <2>2. Cached(b) => Cut(page[b], n - b * CELLS) \in Content
    BY <1>1, <2>1, CachedType, CutType
  <2>3. page[b] \in Content \cup {Absent, NotUptodate}   BY DEF TypeOK
  <2>4. page'[b] = IF b * CELLS >= n THEN Absent
                   ELSE IF Cached(b) THEN Cut(page[b], n - b * CELLS) ELSE page[b]
    BY <1>2
  <2> QED  BY <1>1, <2>1, <2>2, <2>3, <2>4
<1>4. page' \in [Bidx -> Content \cup {Absent, NotUptodate}]
  <2>1. page' = [b \in Bidx |-> page'[b]]   BY <1>2
  <2> QED  BY <1>3, <2>1
<1> QED  BY <1>1, <1>3, <1>4 DEF Truncate

-----------------------------------------------------------------------------
(* Types. *)

LEMMA WriteEnd_TypeOK ==
  ASSUME TypeOK, Writing, NEW end \in 0 .. CELLS, WriteEnd(end)
  PROVE  TypeOK'
<1> DEFINE x == wr.block * CELLS
<1>1. /\ wr \in Write /\ wr' = Idle /\ wr.from <= end /\ end <= wr.to
      /\ UNCHANGED <<nb, off, disk, count, saved, panic>>
      /\ uneven' = (uneven \/ end < wr.to)
  BY WriteEndIs
<1>2. uneven' \in BOOLEAN   BY <1>1
<1>3. CASE ~Counts(end)
  <2>1. UNCHANGED <<page, dirty, size, idirty, gaps>>   BY <1>3, WriteEndIs
  <2> QED  BY <1>1, <1>2, <2>1 DEF TypeOK
<1>4. CASE Counts(end)
  <2>1. /\ wr.from < end
        /\ page'[wr.block] \in Content
        /\ page' = [page EXCEPT ![wr.block] = [c \in Cell |->
                      IF wr.from <= c /\ c < end THEN count ELSE page[wr.block][c]]]
        /\ dirty' = dirty \cup {wr.block}
        /\ size' = IF size >= wr.block * CELLS + end THEN size
                   ELSE wr.block * CELLS + end
        /\ idirty' = (idirty \/ size' # size \/ end = wr.to)
        /\ gaps' = (gaps \cup (size .. wr.block * CELLS + wr.from - 1)) \ Copied(end)
    BY <1>4, WriteEndIs
  <2>2. /\ wr.block \in Bidx /\ wr.block \in Nat /\ wr.from \in Nat
        /\ x \in Nat /\ x + CELLS <= MAX_FILESIZE
    <3>1. wr.block \in Bidx /\ wr.block \in Nat /\ wr.from \in Nat   BY <1>1, WriteFields
    <3>2. wr.block + 1 <= YAF_IBLOCKS /\ YAF_IBLOCKS \in Nat   BY <3>1, FileAssumption DEF Bidx
    <3> QED  BY <3>1, <3>2, BlockEnds DEF MAX_FILESIZE
  <2>5. page' \in [Bidx -> Content \cup {Absent, NotUptodate}]
    <3>1. page' = [page EXCEPT ![wr.block] = page'[wr.block]]   BY <2>1, <2>2 DEF TypeOK
    <3> QED  BY <2>1, <2>2, <3>1 DEF TypeOK
  <2>6. size' \in 0 .. MAX_FILESIZE /\ size <= size' /\ x + end <= size' /\ size' \in Nat
    <3> HIDE DEF x
    <3>1. size' = IF size >= x + end THEN size ELSE x + end   BY <2>1 DEF x
    <3> QED  BY <2>2, <3>1, Numbers, FileAssumption
  <2>7. gaps' \subseteq 0 .. size' - 1
    <3> HIDE DEF x
    <3>1. gaps' \subseteq gaps \cup (size .. x + wr.from - 1)   BY <2>1 DEF x
    <3>2. gaps \subseteq 0 .. size - 1 /\ size \in Nat   BY Numbers DEF TypeOK
    <3>3. 0 .. size - 1 \subseteq 0 .. size' - 1
      <4>1. size \in Nat /\ size' \in Nat /\ size <= size'   BY <2>6, <3>2
      <4> QED  BY <4>1, Below
    <3>4. size .. x + wr.from - 1 \subseteq 0 .. size' - 1   BY <2>1, <2>2, <2>6, <3>2
    <3> QED  BY <3>1, <3>2, <3>3, <3>4
  <2>8. idirty' \in BOOLEAN /\ dirty' \subseteq Bidx   BY <2>1, <2>2 DEF TypeOK
  <2> QED  BY <1>1, <1>2, <2>5, <2>6, <2>7, <2>8 DEF TypeOK
<1> QED  BY <1>3, <1>4

LEMMA Next_TypeOK == FileInv /\ Next => TypeOK'
<1> SUFFICES ASSUME FileInv, Next PROVE TypeOK'   OBVIOUS
<1>0. TypeOK /\ Writing /\ DirtyIsMapped   BY DEF FileInv
<1>1. ASSUME NEW w \in Write, WriteBegin(w) PROVE TypeOK'
  <2>1. nb' \in 0 .. YAF_IBLOCKS /\ off' \subseteq 0 .. nb' - 1
    <3>1. w.block \in Nat /\ nb \in Nat   BY <1>0, WriteFields, Numbers
    <3>2. nb' \in 0 .. YAF_IBLOCKS /\ nb <= nb' /\ off' \in OffOf(nb')
      BY <1>0, <1>1, <3>1, BlocksForIs DEF WriteBegin
    <3> QED  BY <1>0, <3>2, OffType
  <2>2. page' \in [Bidx -> Content \cup {Absent, NotUptodate}]
    BY <1>0, <1>1, PreparedIs DEF WriteBegin, TypeOK
  <2>3. count' \in 0 .. MaxOps
    BY <1>0, <1>1, FileAssumption DEF WriteBegin, CanBegin, TypeOK
  <2>4. idirty' \in BOOLEAN   BY <1>1 DEF WriteBegin
  <2> QED  BY <1>0, <1>1, <2>1, <2>2, <2>3, <2>4 DEF WriteBegin, TypeOK, hist
<1>2. ASSUME NEW w \in Write, WriteBeginFails(w) PROVE TypeOK'
  <2>1. nb' \in 0 .. YAF_IBLOCKS /\ off' \subseteq 0 .. nb' - 1 /\ idirty' \in BOOLEAN
    <3>1. w.block \in 0 .. YAF_IBLOCKS - 1 /\ YAF_IBLOCKS \in Nat /\ nb \in Nat
      BY <1>0, WriteFields, Numbers DEF Bidx
    <3>2. (nb' \in nb .. w.block \/ nb' = BlocksFor(w)) /\ off' \in OffOf(nb')
      BY <1>2 DEF WriteBeginFails, FailsIn
    <3>3. idirty' \in BOOLEAN   BY <1>2 DEF WriteBeginFails, FailsIn
    <3>4. nb' \in 0 .. YAF_IBLOCKS /\ nb <= nb'   BY <1>0, <3>1, <3>2, BlocksForIs
    <3> QED  BY <1>0, <3>2, <3>3, <3>4, OffType
  <2>2. page' \in [Bidx -> Content \cup {Absent, NotUptodate}]
    BY <1>0, <1>2 DEF WriteBeginFails, TypeOK
  <2>3. count' \in 0 .. MaxOps
    BY <1>0, <1>2, FileAssumption DEF WriteBeginFails, CanBegin, TypeOK
  <2> QED  BY <1>0, <1>2, <2>1, <2>2, <2>3 DEF WriteBeginFails, TypeOK
<1>3. ASSUME NEW end \in 0 .. CELLS, WriteEnd(end) PROVE TypeOK'
  BY <1>0, <1>3, WriteEnd_TypeOK
<1>4. ASSUME NEW b \in Bidx, Readahead(b) PROVE TypeOK'
  <2>1. ReadIn(b) \in Content   BY <1>0 DEF ReadIn, TypeOK, Content
  <2>2. page' \in [Bidx -> Content \cup {Absent, NotUptodate}]
    BY <1>0, <1>4, <2>1 DEF Readahead, TypeOK
  <2> QED  BY <1>0, <1>4, <2>2 DEF Readahead, TypeOK, hist
<1>5. ASSUME NEW b \in Bidx, ReadNotUptodate(b) PROVE TypeOK'
  BY <1>0, <1>5 DEF ReadNotUptodate, TypeOK, hist
<1>6. ASSUME NEW b \in Bidx, Writepage(b) PROVE TypeOK'
  <2>1. /\ nb' = nb /\ dirty' = dirty \ {b}
        /\ page' = [page EXCEPT ![b] = Cut(page[b], size - b * CELLS)]
        /\ disk' = [disk EXCEPT ![b] = Cut(page[b], size - b * CELLS)]
        /\ Cut(page[b], size - b * CELLS) \in Content
        /\ UNCHANGED <<off, size, wr, count, idirty, saved, panic, gaps, uneven>>
    BY <1>0, <1>6, WritepageIs
  <2> QED  BY <1>0, <2>1 DEF TypeOK
<1>7. ASSUME NEW b \in Bidx, Reclaim(b) PROVE TypeOK'
  BY <1>0, <1>7 DEF Reclaim, TypeOK, hist
<1>8. ASSUME NEW n \in 0 .. MAX_FILESIZE, Truncate(n) PROVE TypeOK'
  <2>1. /\ size' = n /\ count' = count + 1 /\ dirty' = {b \in dirty : b * CELLS < n}
        /\ idirty' = TRUE /\ uneven' = TRUE
        /\ gaps' = (gaps \cup (size .. n - 1)) \cap (0 .. n - 1)
        /\ page' \in [Bidx -> Content \cup {Absent, NotUptodate}]
        /\ UNCHANGED <<nb, off, disk, wr, saved, panic>>
    BY <1>0, <1>8, TruncateIs
  <2>2. count' \in 0 .. MaxOps
    BY <1>0, <1>8, FileAssumption DEF Truncate, TypeOK
  <2> QED  BY <1>0, <2>1, <2>2 DEF TypeOK
<1>9. CASE WriteInode   BY <1>0, <1>9 DEF WriteInode, TypeOK, hist
<1> QED  BY <1>1, <1>2, <1>3, <1>4, <1>5, <1>6, <1>7, <1>8, <1>9 DEF Next

-----------------------------------------------------------------------------
(* The conjuncts of the invariant that are not about single cells. *)

LEMMA Next_Writing == FileInv /\ Next => Writing'
<1> SUFFICES ASSUME FileInv, Next PROVE Writing'   OBVIOUS
<1>0. TypeOK /\ Writing /\ DirtyIsMapped   BY DEF FileInv
<1>1. ASSUME NEW w \in Write, WriteBegin(w) PROVE Writing'
  <2>1. wr' = w /\ nb' = BlocksFor(w) /\ count' = count + 1
        /\ page' = [page EXCEPT ![w.block] = Prepared(w)]
    BY <1>1 DEF WriteBegin
  <2>2. w.block < nb' /\ count' > 0
    BY <1>0, <2>1, BlocksForIs, WriteFields, Numbers
  <2>3. page'[w.block] = Prepared(w)   BY <1>0, <2>1, WriteFields DEF TypeOK
  <2> QED  BY <1>0, <2>1, <2>2, <2>3, PreparedIs, FileAssumption DEF Writing
<1>2. ASSUME NEW w \in Write, WriteBeginFails(w) PROVE Writing'
  BY <1>2 DEF WriteBeginFails, CanBegin, Writing
<1>3. ASSUME NEW end \in 0 .. CELLS, WriteEnd(end) PROVE Writing'
  BY <1>3 DEF WriteEnd, Writing

\* The page of a write is locked.
<1>4. ASSUME NEW b \in Bidx, ~Locked(b), UNCHANGED <<wr, count, nb>>,
             \A k \in Bidx \ {b} : page'[k] = page[k]
      PROVE  Writing'
  <2> SUFFICES ASSUME wr # Idle
               PROVE  /\ wr.block < nb' /\ count' > 0
                      /\ page'[wr.block] # Absent
                      /\ page'[wr.block] = NotUptodate => wr.from = 0 /\ wr.to = CELLS
    BY <1>4 DEF Writing
  <2>1. wr.block \in Bidx \ {b}   BY <1>0, <1>4, WriteFields DEF TypeOK, Locked
  <2> QED  BY <1>0, <1>4, <2>1 DEF Writing
<1>5. ASSUME NEW b \in Bidx, Readahead(b) \/ Reclaim(b) PROVE Writing'
  <2>1. ~Locked(b) /\ UNCHANGED <<wr, count, nb>>   BY <1>5 DEF Readahead, Reclaim
  <2>2. \A k \in Bidx \ {b} : page'[k] = page[k]
    BY <1>0, <1>5 DEF Readahead, Reclaim, TypeOK
  <2> QED  BY <1>4, <2>1, <2>2
<1>6. ASSUME NEW b \in Bidx, Writepage(b) PROVE Writing'
  <2>1. UNCHANGED <<wr, count, nb>>   BY <1>0, <1>6, WritepageIs
  <2>2. \A k \in Bidx \ {b} : page'[k] = page[k]
    BY <1>0, <1>6, WritepageIs DEF TypeOK
  <2> QED  BY <1>4, <1>6, <2>1, <2>2 DEF Writepage
<1>7. ASSUME NEW n \in 0 .. MAX_FILESIZE, Truncate(n) PROVE Writing'
  BY <1>0, <1>7, TruncateIs DEF Writing
<1>8. ASSUME NEW b \in Bidx, ReadNotUptodate(b) PROVE Writing'
  BY <1>0, <1>8 DEF ReadNotUptodate, Writing
<1>9. CASE WriteInode   BY <1>0, <1>9 DEF WriteInode, Writing
<1> QED  BY <1>1, <1>2, <1>3, <1>5, <1>6, <1>7, <1>8, <1>9 DEF Next

LEMMA Next_Saved == FileInv /\ Next => InodeSaved'
<1> SUFFICES ASSUME FileInv, Next, ~idirty' PROVE saved' = <<nb', size'>>
  BY DEF InodeSaved
<1>0. TypeOK /\ Writing /\ DirtyIsMapped /\ InodeSaved   BY DEF FileInv
<1>1. ASSUME NEW w \in Write, WriteBegin(w) \/ WriteBeginFails(w)
      PROVE  saved' = <<nb', size'>>
  <2>1. ~idirty /\ nb' = nb   BY <1>1 DEF WriteBegin, WriteBeginFails, FailsIn
  <2> QED  BY <1>0, <1>1, <2>1 DEF WriteBegin, WriteBeginFails, InodeSaved
<1>2. ASSUME NEW end \in 0 .. CELLS, WriteEnd(end) PROVE saved' = <<nb', size'>>
  <2>1. ~idirty /\ size' = size   BY <1>2 DEF WriteEnd
  <2> QED  BY <1>0, <1>2, <2>1 DEF WriteEnd, InodeSaved
<1>3. ASSUME NEW b \in Bidx, Writepage(b) PROVE saved' = <<nb', size'>>
  BY <1>0, <1>3, WritepageIs DEF InodeSaved
<1>4. ASSUME NEW b \in Bidx, Readahead(b) \/ ReadNotUptodate(b) \/ Reclaim(b)
      PROVE  saved' = <<nb', size'>>
  BY <1>0, <1>4 DEF Readahead, ReadNotUptodate, Reclaim, InodeSaved
<1>5. ASSUME NEW n \in 0 .. MAX_FILESIZE, Truncate(n) PROVE saved' = <<nb', size'>>
  BY <1>5 DEF Truncate
<1>6. CASE WriteInode   BY <1>6 DEF WriteInode
<1> QED  BY <1>1, <1>2, <1>3, <1>4, <1>5, <1>6 DEF Next

LEMMA Next_DirtyIsMapped == FileInv /\ Next => DirtyIsMapped'
<1> SUFFICES ASSUME FileInv, Next, NEW k \in dirty' PROVE k < nb' /\ Cached(k)'
  BY DEF DirtyIsMapped
<1>0. TypeOK /\ Writing /\ DirtyIsMapped   BY DEF FileInv
<1>1. nb \in Nat /\ Bidx \subseteq Nat /\ dirty \subseteq Bidx
  BY <1>0, Numbers DEF TypeOK
<1>2. \A b \in Bidx : page'[b] \in Content => Cached(b)'
  BY FileAssumption DEF Cached
<1>3. \A b \in dirty : b < nb /\ page[b] \in Content /\ Cached(b)
  BY <1>0, <1>1, CachedType DEF DirtyIsMapped
<1>4. ASSUME NEW w \in Write, WriteBegin(w) PROVE k < nb' /\ Cached(k)'
  <2>1. nb <= nb' /\ nb' \in Nat
    BY <1>0, <1>1, <1>4, BlocksForIs, WriteFields DEF WriteBegin
  <2>2. k \in dirty /\ page'[k] = page[k]
    BY <1>0, <1>1, <1>3, <1>4, PreparedIs DEF WriteBegin, TypeOK
  <2>3. k \in Bidx /\ k < nb /\ k \in Nat   BY <1>1, <1>3, <2>2
  <2>4. Cached(k)'   BY <1>2, <1>3, <2>2, <2>3
  <2>5. k < nb'      BY <1>1, <2>1, <2>3
  <2> QED  BY <2>4, <2>5
<1>5. ASSUME NEW w \in Write, WriteBeginFails(w) PROVE k < nb' /\ Cached(k)'
  <2>1. nb <= nb' /\ nb' \in Nat
    BY <1>0, <1>1, <1>5, BlocksForIs, WriteFields DEF WriteBeginFails, FailsIn
  <2>2. k \in dirty /\ page'[k] = page[k]
    BY <1>0, <1>1, <1>3, <1>5 DEF WriteBeginFails, TypeOK
  <2>3. k \in Bidx /\ k < nb /\ k \in Nat   BY <1>1, <1>3, <2>2
  <2>4. Cached(k)'   BY <1>2, <1>3, <2>2, <2>3
  <2>5. k < nb'      BY <1>1, <2>1, <2>3
  <2> QED  BY <2>4, <2>5
<1>6. ASSUME NEW end \in 0 .. CELLS, WriteEnd(end) PROVE k < nb' /\ Cached(k)'
  <2>1. nb' = nb /\ wr \in Write /\ wr.block < nb /\ wr.block \in Bidx
    BY <1>0, <1>6, WriteEndIs, WriteFields DEF Writing
  <2>2. CASE ~Counts(end)
    <3>1. UNCHANGED <<page, dirty>>   BY <1>0, <1>6, <2>2, WriteEndIs
    <3> QED  BY <1>1, <1>2, <1>3, <2>1, <3>1
  <2>3. CASE Counts(end)
    <3>1. /\ dirty' = dirty \cup {wr.block} /\ page'[wr.block] \in Content
          /\ page' = [page EXCEPT ![wr.block] = [c \in Cell |->
                        IF wr.from <= c /\ c < end THEN count ELSE page[wr.block][c]]]
      BY <1>0, <1>6, <2>3, WriteEndIs
    <3>2. CASE k = wr.block   BY <1>2, <2>1, <3>1, <3>2
    <3>3. CASE k # wr.block
      <4>1. k \in dirty /\ page'[k] = page[k]   BY <1>0, <1>1, <3>1, <3>3 DEF TypeOK
      <4> QED  BY <1>1, <1>2, <1>3, <2>1, <4>1
    <3> QED  BY <3>2, <3>3
  <2> QED  BY <2>2, <2>3
<1>7. ASSUME NEW b \in Bidx, Readahead(b) \/ Reclaim(b) PROVE k < nb' /\ Cached(k)'
  <2>1. b \notin dirty
    BY <1>3, <1>7 DEF Readahead, Reclaim, Cached
  <2>2. nb' = nb /\ k \in dirty /\ k # b   BY <1>7, <2>1 DEF Readahead, Reclaim
  <2>3. page'[k] = page[k]
    BY <1>0, <1>1, <1>7, <2>2 DEF Readahead, Reclaim, TypeOK
  <2> QED  BY <1>1, <1>2, <1>3, <2>2, <2>3
<1>8. ASSUME NEW b \in Bidx, Writepage(b) PROVE k < nb' /\ Cached(k)'
  <2>1. nb' = nb /\ k \in dirty /\ k # b /\ page'[k] = page[k]
    BY <1>0, <1>1, <1>8, WritepageIs DEF TypeOK
  <2> QED  BY <1>1, <1>2, <1>3, <2>1
<1>9. ASSUME NEW n \in 0 .. MAX_FILESIZE, Truncate(n) PROVE k < nb' /\ Cached(k)'
  <2>1. nb' = nb /\ k \in dirty /\ k * CELLS < n /\ n \in Nat
    BY <1>0, <1>9, TruncateIs
  <2>2. page'[k] = Cut(page[k], n - k * CELLS)   BY <1>0, <1>1, <1>3, <1>9, <2>1, TruncateIs
  <2>3. n - k * CELLS \in Int   BY <1>1, <2>1, BlockEnds
  <2>4. page'[k] \in Content   BY <1>3, <2>1, <2>2, <2>3, CutType
  <2> QED  BY <1>1, <1>2, <1>3, <2>1, <2>4
<1>10. CASE WriteInode \/ \E b \in Bidx : ReadNotUptodate(b)
  BY <1>3, <1>10 DEF WriteInode, ReadNotUptodate, Cached
<1> QED  BY <1>4, <1>5, <1>6, <1>7, <1>8, <1>9, <1>10 DEF Next

LEMMA Next_Blocks == FileInv /\ Next => Blocks'
<1> DEFINE Fit(m, z, w) == /\ z <= m * CELLS
                           /\ (m - 1) * CELLS < z \/ (w # Idle /\ m = w.block + 1)
<1> SUFFICES ASSUME FileInv, Next, ~uneven' PROVE Fit(nb', size', wr')
  BY DEF Blocks
<1>0. TypeOK /\ Writing /\ DirtyIsMapped /\ (~uneven => Fit(nb, size, wr))
  BY DEF FileInv, Blocks
<1>1. nb \in Nat /\ size \in Nat /\ CELLS \in Nat   BY <1>0, Numbers
<1>2. ASSUME NEW w \in Write, WriteBegin(w) PROVE Fit(nb', size', wr')
  <2>1. /\ wr = Idle /\ wr' = w /\ size' = size /\ ~uneven
        /\ nb' = IF nb >= w.block + 1 THEN nb ELSE w.block + 1
    BY <1>0, <1>2, BlocksForIs DEF WriteBegin, CanBegin, hist
  <2>2. size <= nb * CELLS /\ (nb - 1) * CELLS < size   BY <1>0, <2>1
  <2>3. w.block \in Nat /\ w # Idle   BY WriteFields
  <2>4. CASE nb >= w.block + 1
    <3>1. nb' = nb   BY <2>1, <2>4
    <3> QED  BY <2>1, <2>2, <3>1
  <2>5. CASE ~(nb >= w.block + 1)
    <3>1. nb' = w.block + 1 /\ nb <= w.block + 1 /\ w.block + 1 \in Nat
      BY <1>1, <2>1, <2>3, <2>5
    <3>2. nb * CELLS <= nb' * CELLS /\ nb * CELLS \in Nat /\ nb' * CELLS \in Nat
      BY <1>1, <3>1, BlockEnds
    <3>3. size <= nb' * CELLS   BY <1>1, <2>2, <3>2
    <3> QED  BY <2>1, <2>3, <3>1, <3>3
  <2> QED  BY <2>4, <2>5
<1>3. ASSUME NEW end \in 0 .. CELLS, WriteEnd(end) PROVE Fit(nb', size', wr')
  <2> DEFINE b == wr.block
             x == b * CELLS
  <2>1. /\ wr \in Write /\ b < nb /\ b \in Nat /\ wr.from < wr.to /\ wr.to \in 1 .. CELLS
        /\ wr.from \in Nat /\ nb' = nb
    BY <1>0, <1>3, WriteEndIs, WriteFields DEF Writing
  <2>2. ~uneven /\ ~(end < wr.to) /\ end <= wr.to   BY <1>0, <1>3, WriteEndIs
  <2>3. end = wr.to /\ end \in 1 .. CELLS   BY <1>1, <2>1, <2>2
  <2>4. Counts(end)   BY <1>1, <2>1, <2>3 DEF Counts
  <2>5. size' = IF size >= x + end THEN size ELSE x + end
    BY <1>0, <1>3, <2>4, WriteEndIs
  <2>6. x \in Nat /\ nb * CELLS \in Nat /\ x + CELLS <= nb * CELLS
    BY <1>1, <2>1, BlockEnds
  <2>7. size <= nb * CELLS /\ ((nb - 1) * CELLS < size \/ (nb - 1) * CELLS = x)
    BY <1>0, <2>1, <2>2
  <2>8. (nb - 1) * CELLS \in Int   BY <1>1
  <2> HIDE DEF x
  <2> DEFINE y == (nb - 1) * CELLS
             z == nb * CELLS
  <2>9. y \in Int /\ z \in Nat /\ x + CELLS <= z /\ size <= z /\ (y < size \/ y = x)
    BY <2>6, <2>7, <2>8
  <2> HIDE DEF y, z
  <2>10. size' <= z /\ y < size'   BY <1>1, <2>3, <2>5, <2>6, <2>9
  <2> QED  BY <2>1, <2>10 DEF y, z
<1>4. ASSUME NEW b \in Bidx, Writepage(b) PROVE Fit(nb', size', wr')
  BY <1>0, <1>4, WritepageIs
<1>5. ASSUME NEW b \in Bidx, Readahead(b) \/ ReadNotUptodate(b) \/ Reclaim(b)
      PROVE  Fit(nb', size', wr')
  BY <1>0, <1>5 DEF Readahead, ReadNotUptodate, Reclaim, hist
<1>6. CASE WriteInode   BY <1>0, <1>6 DEF WriteInode, hist
<1>7. ASSUME NEW w \in Write, WriteBeginFails(w) PROVE FALSE
  BY <1>7 DEF WriteBeginFails
<1>8. ASSUME NEW n \in 0 .. MAX_FILESIZE, Truncate(n) PROVE FALSE
  BY <1>8 DEF Truncate
<1> QED  BY <1>2, <1>3, <1>4, <1>5, <1>6, <1>7, <1>8 DEF Next
-----------------------------------------------------------------------------
(* Cells.  A step keeps a cell if a write had reached it, it shows what it     *)
(* showed before, and Mapped and Clean hold of it afterwards.                  *)

Good(c) ==
  /\ Blk(c) < nb
  /\ Cached(Blk(c)) /\ Blk(c) \notin dirty =>
       page[Blk(c)][Off(c)] = disk[Blk(c)][Off(c)]
Kept(c) == Reached(c) /\ Good(c)' /\ View(c)' = View(c)

\* Where a cell may show, after a step, what it showed before.
LEMMA Stays ==
  ASSUME FileInv, NEW c \in Nat, Reached(c), nb <= nb', nb' \in Nat,
         \/ /\ Cached(Blk(c))'
            /\ page'[Blk(c)][Off(c)] = View(c)
            /\ Blk(c) \notin dirty' => disk'[Blk(c)][Off(c)] = View(c)
         \/ /\ ~Cached(Blk(c))'
            /\ disk'[Blk(c)][Off(c)] = View(c)
  PROVE  Kept(c)
<1>1. Blk(c) \in Nat /\ Blk(c) < nb /\ nb \in Nat
  BY ViewOf, Numbers, CellPlace DEF FileInv
<1>2. Blk(c) < nb'   BY <1>1
<1>3. Good(c)'   BY <1>2 DEF Good
<1>4. View(c)' = IF Cached(Blk(c))' THEN page'[Blk(c)][Off(c)] ELSE disk'[Blk(c)][Off(c)]
  BY <1>2 DEF View, ReadIn, Blk, Off
<1> QED  BY <1>3, <1>4 DEF Kept

\* Nothing happens to the page and the block of a cell.
LEMMA Untouched ==
  ASSUME FileInv, NEW c \in Nat, Reached(c), nb <= nb', nb' \in Nat,
         page'[Blk(c)] = page[Blk(c)], disk'[Blk(c)] = disk[Blk(c)],
         Blk(c) \in dirty => Blk(c) \in dirty'
  PROVE  Kept(c)
<1>1. View(c) = IF Cached(Blk(c)) THEN page[Blk(c)][Off(c)] ELSE disk[Blk(c)][Off(c)]
  BY ViewOf DEF FileInv
<1>2. Cached(Blk(c))' <=> Cached(Blk(c))   BY DEF Cached
<1>3. Cached(Blk(c)) /\ Blk(c) \notin dirty =>
        page[Blk(c)][Off(c)] = disk[Blk(c)][Off(c)]
  BY DEF FileInv, Clean
<1> QED  BY <1>1, <1>2, <1>3, Stays

LEMMA WriteBegin_Kept ==
  ASSUME FileInv, NEW w \in Write, WriteBegin(w) \/ WriteBeginFails(w),
         NEW c \in Nat, Reached(c)'
  PROVE  Kept(c)
<1> DEFINE b == Blk(c)
<1>0. TypeOK /\ Mapped   BY DEF FileInv
<1>1. UNCHANGED <<size, disk, dirty, gaps>>   BY DEF WriteBegin, WriteBeginFails, hist
<1>2. Reached(c)   BY <1>1 DEF Reached
<1>3. w.block \in Bidx /\ w.block \in Nat /\ nb \in Nat   BY <1>0, WriteFields, Numbers
<1>4. nb <= nb' /\ nb' \in Nat
  <2>1. nb' = BlocksFor(w) \/ nb' \in nb .. w.block
    BY DEF WriteBegin, WriteBeginFails, FailsIn
  <2> QED  BY <1>0, <1>3, <2>1, BlocksForIs
<1>5. /\ b \in Bidx /\ Off(c) \in Cell
      /\ View(c) = IF Cached(b) THEN page[b][Off(c)] ELSE disk[b][Off(c)]
  BY <1>0, <1>2, ViewOf
<1>6. disk[b] \in Content   BY <1>0, <1>5 DEF TypeOK
<1>7. page'[b] = page[b] \/ (~Cached(b) /\ page'[b] \in {disk[b], NotUptodate})
  <2>1. CASE b # w.block
    BY <1>0, <1>3, <1>5, <2>1 DEF WriteBegin, WriteBeginFails, TypeOK
  <2>2. CASE b = w.block /\ WriteBegin(w)
    <3>1. page'[b] = Prepared(w)   BY <1>0, <1>5, <2>2 DEF WriteBegin, TypeOK
    <3> QED  BY <1>0, <2>2, <3>1, PreparedIs
  <2>3. CASE b = w.block /\ WriteBeginFails(w)
    BY <1>0, <1>5, <2>3 DEF WriteBeginFails, TypeOK
  <2> QED  BY <2>1, <2>2, <2>3
<1>8. CASE page'[b] = page[b]   BY <1>1, <1>2, <1>4, <1>8, Untouched
<1>9. CASE ~Cached(b) /\ page'[b] = disk[b]
  <2>1. Cached(b)'   BY <1>6, <1>9, FileAssumption DEF Cached
  <2> QED  BY <1>1, <1>2, <1>4, <1>5, <1>9, <2>1, Stays
<1>10. CASE ~Cached(b) /\ page'[b] = NotUptodate
  <2>1. ~Cached(b)'   BY <1>10 DEF Cached
  <2> QED  BY <1>1, <1>2, <1>4, <1>5, <1>10, <2>1, Stays
<1> QED  BY <1>7, <1>8, <1>9, <1>10

\* Reading a page in, dropping it, and what touches no page.
LEMMA Pages_Kept ==
  ASSUME FileInv, NEW c \in Nat, Reached(c)',
         \/ WriteInode
         \/ \E k \in Bidx : Readahead(k) \/ ReadNotUptodate(k) \/ Reclaim(k)
  PROVE  Kept(c)
<1> DEFINE b == Blk(c)
<1>0. TypeOK /\ Mapped /\ Clean   BY DEF FileInv
<1>1. UNCHANGED <<nb, size, disk, dirty, gaps>>
  BY DEF WriteInode, Readahead, ReadNotUptodate, Reclaim, hist
<1>2. Reached(c)   BY <1>1 DEF Reached
<1>3. nb <= nb' /\ nb' \in Nat   BY <1>0, <1>1, Numbers
<1>4. /\ b \in Bidx /\ b < nb /\ Off(c) \in Cell
      /\ View(c) = IF Cached(b) THEN page[b][Off(c)] ELSE disk[b][Off(c)]
  BY <1>0, <1>2, ViewOf
<1>5. disk[b] \in Content   BY <1>0, <1>4 DEF TypeOK
<1>6. CASE page'[b] = page[b]   BY <1>1, <1>2, <1>3, <1>6, Untouched
<1>7. ASSUME NEW k \in Bidx, Readahead(k), page'[b] # page[b] PROVE Kept(c)
  <2>1. b = k /\ page[b] = Absent /\ page'[b] \in {disk[b], NotUptodate}
    BY <1>0, <1>4, <1>7 DEF Readahead, ReadIn, TypeOK
  <2>2. ~Cached(b)   BY <2>1 DEF Cached
  <2>3. CASE page'[b] = disk[b]
    <3>1. Cached(b)'   BY <1>5, <2>3, FileAssumption DEF Cached
    <3> QED  BY <1>1, <1>2, <1>3, <1>4, <2>2, <2>3, <3>1, Stays
  <2>4. CASE page'[b] = NotUptodate
    <3>1. ~Cached(b)'   BY <2>4 DEF Cached
    <3> QED  BY <1>1, <1>2, <1>3, <1>4, <2>2, <3>1, Stays
  <2> QED  BY <2>1, <2>3, <2>4
<1>8. ASSUME NEW k \in Bidx, Reclaim(k), page'[b] # page[b] PROVE Kept(c)
  <2>1. b = k /\ b \notin dirty /\ page'[b] = Absent
    BY <1>0, <1>4, <1>8 DEF Reclaim, TypeOK
  <2>2. ~Cached(b)'   BY <2>1 DEF Cached
  <2>3. disk[b][Off(c)] = View(c)   BY <1>0, <1>2, <1>4, <2>1 DEF Clean
  <2> QED  BY <1>1, <1>2, <1>3, <2>2, <2>3, Stays
<1>9. CASE WriteInode \/ \E k \in Bidx : ReadNotUptodate(k)
  <2>1. page'[b] = page[b]   BY <1>9 DEF WriteInode, ReadNotUptodate
  <2> QED  BY <1>6, <2>1
<1> QED  BY <1>6, <1>7, <1>8, <1>9

\* What is below i_size survives the cut at i_size.
LEMMA Writepage_Kept ==
  ASSUME FileInv, NEW k \in Bidx, Writepage(k), NEW c \in Nat, Reached(c)'
  PROVE  Kept(c)
<1> DEFINE b == Blk(c)
<1>0. TypeOK /\ DirtyIsMapped /\ Mapped   BY DEF FileInv
<1>1. /\ UNCHANGED <<nb, size, gaps>> /\ dirty' = dirty \ {k} /\ page[k] \in Content
      /\ page' = [page EXCEPT ![k] = Cut(page[k], size - k * CELLS)]
      /\ disk' = [disk EXCEPT ![k] = Cut(page[k], size - k * CELLS)]
      /\ Cut(page[k], size - k * CELLS) \in Content
  BY <1>0, WritepageIs
<1>2. Reached(c)   BY <1>1 DEF Reached
<1>3. nb <= nb' /\ nb' \in Nat   BY <1>0, <1>1, Numbers
<1>4. /\ b \in Bidx /\ Off(c) \in Cell
      /\ c = b * CELLS + Off(c) /\ b * CELLS \in Nat
      /\ View(c) = IF Cached(b) THEN page[b][Off(c)] ELSE disk[b][Off(c)]
  BY <1>0, <1>2, ViewOf
<1>5. CASE b # k
  <2>1. page'[b] = page[b] /\ disk'[b] = disk[b]   BY <1>0, <1>1, <1>4, <1>5 DEF TypeOK
  <2> QED  BY <1>1, <1>2, <1>3, <1>5, <2>1, Untouched
<1>6. CASE b = k
  <2> DEFINE n == size - b * CELLS
  <2>1. page'[b] = Cut(page[b], n) /\ disk'[b] = Cut(page[b], n)
    BY <1>0, <1>1, <1>4, <1>6 DEF TypeOK
  <2>2. size \in Nat /\ c < size   BY <1>0, <1>2, Numbers DEF Reached
  <2>3. n \in Int   BY <1>4, <2>2
  <2>4. Off(c) < n
    <3> DEFINE x == b * CELLS
    <3>1. x \in Nat /\ c = x + Off(c) /\ Off(c) \in Int   BY <1>4 DEF Cell
    <3> HIDE DEF x
    <3>2. Off(c) < size - x   BY <2>2, <3>1
    <3> QED  BY <3>2 DEF x
  <2>5. Cut(page[b], n)[Off(c)] = page[b][Off(c)]   BY <1>1, <1>4, <1>6, <2>3, <2>4, CutType
  <2>6. Cached(b) /\ Cached(b)'   BY <1>0, <1>1, <1>4, <1>6, <2>1, CachedType, FileAssumption DEF Cached
  <2>7. page'[b][Off(c)] = View(c) /\ disk'[b][Off(c)] = View(c)
    BY <1>4, <2>1, <2>5, <2>6
  <2> QED  BY <1>2, <1>3, <2>6, <2>7, Stays
<1> QED  BY <1>5, <1>6

LEMMA Truncate_Kept ==
  ASSUME FileInv, NEW n \in 0 .. MAX_FILESIZE, Truncate(n), NEW c \in Nat, Reached(c)'
  PROVE  Kept(c)
<1> DEFINE b == Blk(c)
           x == b * CELLS
<1>0. TypeOK /\ Mapped   BY DEF FileInv
<1>1. /\ n \in Nat /\ size' = n
      /\ dirty' = {k \in dirty : k * CELLS < n}
      /\ gaps' = (gaps \cup (size .. n - 1)) \cap (0 .. n - 1)
      /\ \A k \in Bidx : k * CELLS < n =>
           page'[k] = IF Cached(k) THEN Cut(page[k], n - k * CELLS) ELSE page[k]
      /\ UNCHANGED <<nb, disk>>
  BY <1>0, TruncateIs
<1>2. size \in Nat /\ nb \in Nat   BY <1>0, Numbers
<1>3. Reached(c) /\ c < n   BY <1>1, <1>2 DEF Reached
<1>4. nb <= nb' /\ nb' \in Nat   BY <1>1, <1>2
<1>5. /\ b \in Bidx /\ Off(c) \in Cell /\ c = x + Off(c) /\ x \in Nat
      /\ View(c) = IF Cached(b) THEN page[b][Off(c)] ELSE disk[b][Off(c)]
  BY <1>0, <1>3, ViewOf
<1>6. x < n /\ Off(c) < n - x /\ n - x \in Int
  <2> HIDE DEF x
  <2>1. Off(c) \in Nat   BY <1>5 DEF Cell
  <2> QED  BY <1>1, <1>3, <1>5, <2>1
<1>7. b \in dirty => b \in dirty'   BY <1>1, <1>6
<1>8. CASE Cached(b)
  <2>1. page[b] \in Content   BY <1>0, <1>5, <1>8, CachedType
  <2>2. page'[b] = Cut(page[b], n - x)   BY <1>1, <1>5, <1>6, <1>8
  <2>3. page'[b] \in Content /\ page'[b][Off(c)] = page[b][Off(c)]
    BY <1>5, <1>6, <2>1, <2>2, CutType
  <2>4. Cached(b)'   BY <2>3, FileAssumption DEF Cached
  <2>5. b \notin dirty' => disk'[b][Off(c)] = View(c)
    BY <1>1, <1>3, <1>5, <1>7, <1>8 DEF FileInv, Clean
  <2> QED  BY <1>3, <1>4, <1>5, <1>8, <2>3, <2>4, <2>5, Stays
<1>9. CASE ~Cached(b)
  <2>1. page'[b] = page[b]   BY <1>1, <1>5, <1>6, <1>9
  <2> QED  BY <1>1, <1>3, <1>4, <1>7, <2>1, Untouched
<1> QED  BY <1>8, <1>9

\* A copy that does not count keeps all cells.
LEMMA NoWrite_Kept ==
  ASSUME FileInv, NEW end \in 0 .. CELLS, WriteEnd(end), ~Counts(end),
         NEW c \in Nat, Reached(c)'
  PROVE  Kept(c)
<1>0. TypeOK /\ Writing   BY DEF FileInv
<1>1. UNCHANGED <<nb, disk, page, dirty, size, gaps>>   BY <1>0, WriteEndIs
<1>2. nb <= nb' /\ nb' \in Nat   BY <1>0, <1>1, Numbers
<1> QED  BY <1>1, <1>2, Untouched DEF Reached

\* One that counts changes what it writes, and reaches no other cell.
LEMMA Write_Kept ==
  ASSUME FileInv, NEW end \in 0 .. CELLS, WriteEnd(end), Counts(end),
         NEW c \in Nat, Reached(c)'
  PROVE  IF c \in Copied(end) THEN Good(c)' /\ View(c)' = count ELSE Kept(c)
<1> DEFINE b == wr.block
           x == b * CELLS
           f == [o \in Cell |-> IF wr.from <= o /\ o < end THEN count ELSE page[b][o]]
<1>0. TypeOK /\ Writing   BY DEF FileInv
<1>1. /\ wr \in Write /\ UNCHANGED <<nb, disk, count>>
      /\ wr.from < end
      /\ page[b] \notin Content => wr.from = 0 /\ end = CELLS
      /\ page'[b] \in Content
      /\ page' = [page EXCEPT ![b] = f]
      /\ dirty' = dirty \cup {b}
      /\ size' = IF size >= x + end THEN size ELSE x + end
      /\ gaps' = (gaps \cup (size .. x + wr.from - 1)) \ Copied(end)
  BY <1>0, WriteEndIs
<1>2. /\ b \in Bidx /\ b \in Nat /\ wr.from \in Nat /\ x \in Nat
      /\ size \in Nat /\ nb \in Nat /\ b < nb
  BY <1>0, <1>1, WriteFields, Numbers, BlockEnds DEF Writing
<1>3. nb <= nb' /\ nb' \in Nat   BY <1>1, <1>2
<1>4. page'[b] = f /\ (Blk(c) = b => Cached(Blk(c))')
  <2>1. page'[b] = f   BY <1>0, <1>1, <1>2 DEF TypeOK
  <2> HIDE DEF b
  <2>2. Blk(c) = b => Cached(Blk(c))'   BY <1>1, FileAssumption DEF Cached
  <2> QED  BY <2>1, <2>2
<1>5. Off(c) \in Cell   BY CellPlace
<1>6. c \in Copied(end) <=> Blk(c) = b /\ wr.from <= Off(c) /\ Off(c) < end
  BY <1>1, CopiedCells
<1>7. CASE c \in Copied(end)
  <2>1. Blk(c) = b /\ page'[b][Off(c)] = count   BY <1>4, <1>5, <1>6, <1>7
  <2>2. Good(c)'   BY <1>1, <1>2, <2>1 DEF Good
  <2>3. View(c)' = IF Cached(Blk(c))' THEN page'[Blk(c)][Off(c)]
                   ELSE ReadIn(Blk(c))'[Off(c)]
    BY DEF View, Blk, Off
  <2>4. View(c)' = count   BY <1>4, <2>1, <2>3
  <2> QED  BY <1>7, <2>2, <2>4
<1>8. CASE c \notin Copied(end)
  <2>1. Reached(c)
    <3>1. c \in 0 .. size' - 1 /\ c \notin gaps /\ c \notin size .. x + wr.from - 1
      BY <1>1, <1>8 DEF Reached
    <3>2. c \notin x + wr.from .. x + end - 1   BY <1>8 DEF Copied
    <3> HIDE DEF x
    <3>3. c < size   BY <1>1, <1>2, <3>1, <3>2
    <3> QED  BY <1>2, <3>1, <3>3 DEF Reached
  <2>2. CASE Blk(c) # b
    <3>1. page'[Blk(c)] = page[Blk(c)]
      BY <1>0, <1>1, <1>2, <2>1, <2>2, ViewOf DEF FileInv, TypeOK
    <3> QED  BY <1>1, <1>3, <1>8, <2>1, <3>1, Untouched
  <2>3. CASE Blk(c) = b
    <3>1. ~(wr.from <= Off(c) /\ Off(c) < end)   BY <1>6, <1>8, <2>3
    <3>2. page[b] \in Content   BY <1>1, <1>5, <3>1 DEF Cell
    <3>3. View(c) = page[b][Off(c)]
      BY <1>0, <1>2, <2>1, <2>3, <3>2, ViewOf, CachedType DEF FileInv
    <3>4. page'[b][Off(c)] = View(c)   BY <1>4, <1>5, <3>1, <3>3
    <3>5. Blk(c) \in dirty' /\ Cached(Blk(c))' /\ page'[Blk(c)][Off(c)] = View(c)
      BY <1>1, <1>4, <2>3, <3>4
    <3>6. Kept(c)   BY <1>3, <2>1, <3>5, Stays
    <3> QED  BY <1>8, <3>6
  <2> QED  BY <2>2, <2>3
<1> QED  BY <1>7, <1>8

LEMMA Next_Good ==
  ASSUME FileInv, Next, NEW c \in Nat, Reached(c)'
  PROVE  Good(c)'
<1>1. ASSUME NEW w \in Write, WriteBegin(w) \/ WriteBeginFails(w) PROVE Good(c)'
  BY <1>1, WriteBegin_Kept DEF Kept
<1>2. ASSUME NEW end \in 0 .. CELLS, WriteEnd(end) PROVE Good(c)'
  BY <1>2, NoWrite_Kept, Write_Kept DEF Kept
<1>3. ASSUME NEW k \in Bidx, Writepage(k) PROVE Good(c)'
  BY <1>3, Writepage_Kept DEF Kept
<1>4. ASSUME NEW n \in 0 .. MAX_FILESIZE, Truncate(n) PROVE Good(c)'
  BY <1>4, Truncate_Kept DEF Kept
<1>5. CASE \/ WriteInode
           \/ \E k \in Bidx : Readahead(k) \/ ReadNotUptodate(k) \/ Reclaim(k)
  BY <1>5, Pages_Kept DEF Kept
<1> QED  BY <1>1, <1>2, <1>3, <1>4, <1>5 DEF Next

-----------------------------------------------------------------------------
(* The invariant. *)

LEMMA FileInit_Inv == Init => FileInv
<1> SUFFICES ASSUME Init PROVE FileInv   OBVIOUS
<1>1. CELLS \in Nat /\ YAF_IBLOCKS \in Nat /\ MAX_FILESIZE \in Nat
  BY FileAssumption DEF MAX_FILESIZE
<1>2. TypeOK
  <2>1. size \in 0 .. MAX_FILESIZE /\ nb \in 0 .. YAF_IBLOCKS /\ count \in 0 .. MaxOps
    BY <1>1, FileAssumption DEF Init
  <2>2. disk \in [Bidx -> Content]   BY DEF Init, Content
  <2> QED  BY <2>1, <2>2 DEF Init, TypeOK
<1>3. \A c \in Nat : ~Reached(c)   BY DEF Init, Reached
<1>4. Blocks
  <2>1. nb = 0 /\ size = 0   BY DEF Init
  <2>2. (0 - 1) * CELLS < 0 /\ 0 <= 0 * CELLS   BY FileAssumption
  <2> QED  BY <2>1, <2>2 DEF Blocks
<1>5. Writing /\ DirtyIsMapped /\ InodeSaved   BY DEF Init, Writing, DirtyIsMapped, InodeSaved
<1> QED  BY <1>2, <1>3, <1>4, <1>5 DEF FileInv, Mapped, Clean

LEMMA FileStutter_Inv == FileInv /\ UNCHANGED vars => FileInv'
<1> SUFFICES ASSUME FileInv, UNCHANGED vars PROVE FileInv'   OBVIOUS
<1>1. TypeOK' /\ Writing' /\ DirtyIsMapped' /\ Blocks' /\ InodeSaved'
  BY DEF FileInv, vars, TypeOK, Writing, DirtyIsMapped, Cached, Blocks, InodeSaved
<1>2. Mapped' /\ Clean'
  BY DEF FileInv, vars, Mapped, Clean, Reached, Cached
<1> QED  BY <1>1, <1>2 DEF FileInv

LEMMA FileNext_Inv == FileInv /\ Next => FileInv'
<1> SUFFICES ASSUME FileInv, Next PROVE FileInv'   OBVIOUS
<1>1. Mapped' /\ Clean'
  <2>1. \A c \in Nat : Reached(c)' => Good(c)'   BY Next_Good
  <2> QED  BY <2>1 DEF Good, Mapped, Clean
<1> QED  BY <1>1, Next_TypeOK, Next_Writing, Next_DirtyIsMapped, Next_Blocks, Next_Saved
         DEF FileInv

\* FileInv holds of every file, whatever writes, reads, writeback, reclaim and
\* truncation do in between.
THEOREM FileInvariant == Spec => []FileInv
<1>1. FileInv /\ [Next]_vars => FileInv'   BY FileNext_Inv, FileStutter_Inv
<1> QED  BY FileInit_Inv, <1>1, PTL DEF Spec

\* The file has no more blocks and no more bytes than an inode holds.
THEOREM FileTypes == Spec => []TypeOK
<1>1. FileInv => TypeOK   BY DEF FileInv
<1> QED  BY FileInvariant, <1>1, PTL

\* As long as no write fails and nothing is cut off, dbnr and i_size agree.
THEOREM SizeGivesBlocks == Spec => []BlocksMatchSize
<1>1. FileInv => BlocksMatchSize   BY DEF FileInv, Blocks, BlocksMatchSize
<1> QED  BY FileInvariant, <1>1, PTL

\* Every dirty page has an entry in i_block, so yaf_writepage() has none to
\* allocate.  Whether the entry is a block of the device is another matter: a full
\* bitmap gives one that is not.
THEOREM WritebackAllocatesNothing == Spec => []DirtyIsMapped
<1>1. FileInv => DirtyIsMapped   BY DEF FileInv
<1> QED  BY FileInvariant, <1>1, PTL

\* mark_inode_dirty() is called wherever i_block or i_size change.
THEOREM CleanInodesAreSaved == Spec => []InodeSaved
<1>1. FileInv => InodeSaved   BY DEF FileInv
<1> QED  BY FileInvariant, <1>1, PTL
-----------------------------------------------------------------------------
(* The contents that users see.                                               *)

Shown == [c \in 0 .. size - 1 |-> IF c \in gaps THEN Zero ELSE View(c)]

\* The length of a string of cells.
LEMMA SizeIs ==
  ASSUME NEW f, NEW n \in 0 .. MAX_FILESIZE, MAX_FILESIZE \in Nat, DOMAIN f = 0 .. n - 1
  PROVE  Bytes!SizeOf(f) = n
<1>1. ASSUME NEW m \in 0 .. MAX_FILESIZE, 0 .. m - 1 = 0 .. n - 1 PROVE m = n
  <2>1. m <= n
    <3> SUFFICES ASSUME n < m PROVE FALSE   OBVIOUS
    <3>1. n \in 0 .. m - 1   OBVIOUS
    <3>2. n \notin 0 .. n - 1   OBVIOUS
    <3> QED  BY <1>1, <3>1, <3>2
  <2>2. n <= m
    <3> SUFFICES ASSUME m < n PROVE FALSE   OBVIOUS
    <3>1. m \in 0 .. n - 1   OBVIOUS
    <3>2. m \notin 0 .. m - 1   OBVIOUS
    <3> QED  BY <1>1, <3>1, <3>2
  <2> QED  BY <2>1, <2>2
<1> QED  BY <1>1 DEF Bytes!SizeOf

LEMMA ShownIs ==
  ASSUME TypeOK
  PROVE  /\ DOMAIN Shown = 0 .. size - 1 /\ Bytes!SizeOf(Shown) = size
         /\ \A c \in 0 .. size - 1 : c \in Nat /\ Shown[c] = IF Reached(c) THEN View(c) ELSE Zero
<1>1. size \in 0 .. MAX_FILESIZE /\ MAX_FILESIZE \in Nat /\ size \in Nat
  BY Numbers DEF TypeOK
<1>2. DOMAIN Shown = 0 .. size - 1   BY DEF Shown
<1>3. Bytes!SizeOf(Shown) = size   BY <1>1, <1>2, SizeIs
<1>4. ASSUME NEW c \in 0 .. size - 1
      PROVE  c \in Nat /\ Shown[c] = IF Reached(c) THEN View(c) ELSE Zero
  <2>1. c \in Nat   BY <1>1
  <2> QED  BY <2>1 DEF Shown, Reached
<1> QED  BY <1>2, <1>3, <1>4

\* Steps that users do not see.
LEMMA Unseen ==
  ASSUME TypeOK, UNCHANGED <<size, gaps>>, \A c \in Nat : Reached(c)' => Kept(c)
  PROVE  Shown' = Shown
<1>1. size \in Nat   BY Numbers
<1>2. ASSUME NEW c \in 0 .. size - 1
      PROVE  (IF c \in gaps THEN Zero ELSE View(c))' = IF c \in gaps THEN Zero ELSE View(c)
  <2>1. c \in Nat   BY <1>1
  <2>2. c \notin gaps => Reached(c)'   BY DEF Reached
  <2>3. c \notin gaps => View(c)' = View(c)   BY <2>1, <2>2 DEF Kept
  <2> QED  BY <2>3
<1> QED  BY <1>2 DEF Shown

\* write() of the cells that were copied.
LEMMA WriteShown ==
  ASSUME FileInv, NEW end \in 0 .. CELLS, WriteEnd(end), Counts(end)
  PROVE  \E pos \in 0 .. MAX_FILESIZE - 1, e \in 1 .. MAX_FILESIZE, v \in Data :
            /\ pos < e
            /\ LET n == IF e > size THEN e ELSE size IN
               Shown' = [c \in 0 .. n - 1 |->
                           IF pos <= c /\ c < e THEN v
                           ELSE IF c \in 0 .. size - 1 THEN Shown[c] ELSE Zero]
<1> DEFINE x == wr.block * CELLS
           pos == x + wr.from
           e == x + end
<1>0. TypeOK /\ Writing   BY DEF FileInv
<1>1. /\ wr \in Write /\ wr # Idle /\ wr.from < end /\ UNCHANGED <<nb, count>>
      /\ size' = IF size >= x + end THEN size ELSE x + end
      /\ gaps' = (gaps \cup (size .. x + wr.from - 1)) \ Copied(end)
  <2>1. wr # Idle   BY DEF WriteEnd
  <2> QED  BY <1>0, <2>1, WriteEndIs
<1>2. /\ wr.block \in Bidx /\ wr.block \in Nat /\ wr.from \in Nat
      /\ x \in Nat /\ size \in Nat /\ x + CELLS <= MAX_FILESIZE
      /\ MAX_FILESIZE \in Nat /\ CELLS \in Nat
  <2>1. wr.block \in Bidx /\ wr.block \in Nat /\ wr.from \in Nat   BY <1>1, WriteFields
  <2>2. wr.block + 1 <= YAF_IBLOCKS /\ YAF_IBLOCKS \in Nat   BY <2>1, FileAssumption DEF Bidx
  <2> QED  BY <1>0, <2>1, <2>2, BlockEnds, Numbers DEF MAX_FILESIZE
<1>3. Copied(end) = x + wr.from .. x + end - 1   BY DEF Copied
<1>4. /\ size' = IF size >= e THEN size ELSE e
      /\ gaps' = (gaps \cup (size .. pos - 1)) \ (pos .. e - 1)
  <2>1. pos = x + wr.from /\ e = x + end   OBVIOUS
  <2> HIDE DEF x, pos, e
  <2>2. /\ x \in Int /\ wr.from \in Int /\ end \in Int /\ size \in Int
        /\ pos \in Int /\ e \in Int
    BY <1>2, <2>1
  <2>3. Copied(end) = pos .. e - 1   BY <1>3, <2>1, <2>2
  <2>4. size .. x + wr.from - 1 = size .. pos - 1   BY <2>1, <2>2
  <2> QED  BY <1>1, <2>1, <2>3, <2>4
<1>5. count \in Data
  BY <1>0, <1>1, Numbers, FileAssumption DEF Writing, TypeOK, Data
<1>6. \A c \in Nat : Reached(c)' =>
        IF pos <= c /\ c < e THEN View(c)' = count
        ELSE Reached(c) /\ View(c)' = View(c)
  <2> SUFFICES ASSUME NEW c \in Nat, Reached(c)'
               PROVE  IF pos <= c /\ c < e THEN View(c)' = count
                      ELSE Reached(c) /\ View(c)' = View(c)
    OBVIOUS
  <2>1. IF c \in Copied(end) THEN Good(c)' /\ View(c)' = count ELSE Kept(c)
    BY Write_Kept
  <2>2. c \in Copied(end) <=> pos <= c /\ c < e
    <3> HIDE DEF x
    <3> QED  BY <1>2, <1>3
  <2> QED  BY <2>1, <2>2 DEF Kept
<1>7. \A c \in 0 .. size - 1 : c \in Nat /\ Shown[c] = IF Reached(c) THEN View(c) ELSE Zero
  BY <1>0, ShownIs
<1>8. Shown' = [c \in 0 .. size' - 1 |-> (IF c \in gaps THEN Zero ELSE View(c))']
  BY DEF Shown
<1> HIDE DEF x
<1>9. pos \in 0 .. MAX_FILESIZE - 1 /\ e \in 1 .. MAX_FILESIZE /\ pos < e
  BY <1>1, <1>2
<1>10. size' = IF e > size THEN e ELSE size   BY <1>2, <1>4
<1> HIDE DEF pos, e
<1>11. ASSUME NEW c \in 0 .. size' - 1
      PROVE  (IF c \in gaps THEN Zero ELSE View(c))' =
               IF pos <= c /\ c < e THEN count
               ELSE IF c \in 0 .. size - 1 THEN Shown[c] ELSE Zero
  <2>1. c \in Nat   BY <1>2, <1>9, <1>10
  <2>2. CASE c \in gaps'
    <3>1. ~(pos <= c /\ c < e)   BY <1>9, <1>4, <2>1, <2>2
    <3>2. c \in 0 .. size - 1 => c \in gaps   BY <1>2, <1>9, <1>4, <2>2
    <3>3. c \in 0 .. size - 1 => Shown[c] = Zero   BY <1>7, <3>2 DEF Reached
    <3> QED  BY <2>2, <3>1, <3>3
  <2>3. CASE c \notin gaps'
    <3>1. Reached(c)'   BY <2>3 DEF Reached
    <3>2. ~(pos <= c /\ c < e) => c \in 0 .. size - 1 /\ Shown[c] = View(c)
      BY <1>6, <1>7, <2>1, <3>1 DEF Reached
    <3> QED  BY <1>6, <2>1, <2>3, <3>1, <3>2
  <2> QED  BY <2>2, <2>3
<1> QED  BY <1>5, <1>8, <1>9, <1>10, <1>11

LEMMA TruncateShown ==
  ASSUME FileInv, NEW n \in 0 .. MAX_FILESIZE, Truncate(n)
  PROVE  Shown' = [c \in 0 .. n - 1 |->
                     IF c \in 0 .. size - 1 THEN Shown[c] ELSE Zero]
<1>0. TypeOK   BY DEF FileInv
<1>1. /\ n \in Nat /\ size' = n /\ size \in Nat
      /\ gaps' = (gaps \cup (size .. n - 1)) \cap (0 .. n - 1)
  BY <1>0, TruncateIs, Numbers
<1>2. \A c \in 0 .. size - 1 : c \in Nat /\ Shown[c] = IF Reached(c) THEN View(c) ELSE Zero
  BY <1>0, ShownIs
<1>3. ASSUME NEW c \in 0 .. n - 1
      PROVE  (IF c \in gaps THEN Zero ELSE View(c))' =
               IF c \in 0 .. size - 1 THEN Shown[c] ELSE Zero
  <2>1. c \in Nat   BY <1>1
  <2>2. CASE c \in gaps'
    <3>1. c \in 0 .. size - 1 => c \in gaps   BY <1>1, <2>2
    <3>2. c \in 0 .. size - 1 => Shown[c] = Zero   BY <1>2, <3>1 DEF Reached
    <3> QED  BY <2>2, <3>2
  <2>3. CASE c \notin gaps'
    <3>1. Reached(c)'   BY <1>1, <2>3 DEF Reached
    <3>2. Reached(c) /\ View(c)' = View(c)   BY <2>1, <3>1, Truncate_Kept DEF Kept
    <3> QED  BY <1>2, <2>3, <3>2 DEF Reached
  <2> QED  BY <2>2, <2>3
<1>4. Shown' = [c \in 0 .. n - 1 |-> (IF c \in gaps THEN Zero ELSE View(c))']
  BY <1>1 DEF Shown
<1> QED  BY <1>3, <1>4

LEMMA BytesInit == Init => Bytes!Init
<1> SUFFICES ASSUME Init PROVE Bytes!Init   OBVIOUS
<1>1. 0 .. size - 1 = {}   BY DEF Init
<1> QED  BY <1>1 DEF Bytes!Init

LEMMA BytesStep == FileInv /\ [Next]_vars => Bytes!Next \/ Shown' = Shown
<1> SUFFICES ASSUME FileInv, [Next]_vars PROVE Bytes!Next \/ Shown' = Shown   OBVIOUS
<1>0. TypeOK /\ DirtyIsMapped /\ Writing /\ DOMAIN Shown = 0 .. size - 1
      /\ Bytes!SizeOf(Shown) = size
  BY ShownIs DEF FileInv
<1>1. ASSUME NEW w \in Write, WriteBegin(w) \/ WriteBeginFails(w) PROVE Shown' = Shown
  <2>1. UNCHANGED <<size, gaps>>   BY <1>1 DEF WriteBegin, WriteBeginFails, hist
  <2>2. \A c \in Nat : Reached(c)' => Kept(c)   BY <1>1, WriteBegin_Kept
  <2> QED  BY <1>0, <2>1, <2>2, Unseen
<1>2. ASSUME NEW end \in 0 .. CELLS, WriteEnd(end), ~Counts(end) PROVE Shown' = Shown
  <2>1. UNCHANGED <<size, gaps>>   BY <1>0, <1>2, WriteEndIs
  <2>2. \A c \in Nat : Reached(c)' => Kept(c)   BY <1>2, NoWrite_Kept
  <2> QED  BY <1>0, <2>1, <2>2, Unseen
<1>3. ASSUME NEW end \in 0 .. CELLS, WriteEnd(end), Counts(end) PROVE Bytes!Next
  <2>1. PICK pos \in 0 .. MAX_FILESIZE - 1, e \in 1 .. MAX_FILESIZE, v \in Data :
          /\ pos < e
          /\ LET n == IF e > size THEN e ELSE size IN
             Shown' = [c \in 0 .. n - 1 |->
                         IF pos <= c /\ c < e THEN v
                         ELSE IF c \in 0 .. size - 1 THEN Shown[c] ELSE Zero]
    BY <1>3, WriteShown
  <2>2. Bytes!Write(pos, e, v)
    BY <1>0, <2>1 DEF Bytes!Write, Bytes!Resized, Shown
  <2> QED  BY <2>1, <2>2 DEF Bytes!Next
<1>4. ASSUME NEW k \in Bidx, Writepage(k) PROVE Shown' = Shown
  <2>1. UNCHANGED <<size, gaps>>   BY <1>0, <1>4, WritepageIs
  <2>2. \A c \in Nat : Reached(c)' => Kept(c)   BY <1>4, Writepage_Kept
  <2> QED  BY <1>0, <2>1, <2>2, Unseen
<1>5. ASSUME NEW n \in 0 .. MAX_FILESIZE, Truncate(n) PROVE Bytes!Next
  <2>1. Bytes!Truncate(n)
    BY <1>0, <1>5, TruncateShown DEF Bytes!Truncate, Bytes!Resized, Shown
  <2> QED  BY <2>1 DEF Bytes!Next
<1>6. CASE \/ WriteInode
           \/ \E k \in Bidx : Readahead(k) \/ ReadNotUptodate(k) \/ Reclaim(k)
  <2>1. UNCHANGED <<size, gaps>>
    BY <1>6 DEF WriteInode, Readahead, ReadNotUptodate, Reclaim, hist
  <2>2. \A c \in Nat : Reached(c)' => Kept(c)   BY <1>6, Pages_Kept
  <2> QED  BY <1>0, <2>1, <2>2, Unseen
<1>7. CASE UNCHANGED vars
  BY <1>7 DEF vars, Shown, View, Cached, ReadIn
<1> QED  BY <1>1, <1>2, <1>3, <1>4, <1>5, <1>6, <1>7 DEF Next

\* driver/file.c, between the page cache and the device, implements a string of
\* cells that only write() and truncate() change.
THEOREM ImplementsBytes == Spec => BytesSpec
<1>1. FileInv /\ [Next]_vars => [Bytes!Next]_Shown   BY BytesStep
<1> QED  BY BytesInit, <1>1, FileInvariant, PTL DEF Spec, BytesSpec, Bytes!Spec, Shown
=============================================================================
