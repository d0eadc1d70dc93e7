------------------------------ MODULE YafFile --------------------------------
(***************************************************************************)
(* The contents of one regular file: driver/file.c between the page cache  *)
(* and the device.                                                         *)
(*                                                                         *)
(* A page is as large as a block and is counted in cells.  The VFS and the *)
(* page cache (external) hold i_rwsem over write() and truncate(), so one  *)
(* of them runs at a time, and lock a page from yaf_write_begin to         *)
(* yaf_write_end; reading, writeback and reclaim of pages come in between. *)
(* There is no mmap: only write() makes a page dirty.  The blocks of the   *)
(* file are taken to be nobody else's (BlocksExclusive of YafInode).       *)
(***************************************************************************)
EXTENDS Integers, FiniteSets, FiniteSetsExt

CONSTANTS
  YAF_IBLOCKS,
  CELLS,        \* cells of a block
  MaxOps,       \* bound: how many writes and truncations there are
  Absent,       \* the page is not in the page cache
  NotUptodate,  \* it is, without contents
  Env           \* "seek", "extend", "full", "nospace", "short", "eio"

Bidx == 0 .. YAF_IBLOCKS - 1
Cell == 0 .. CELLS - 1
MAX_FILESIZE == YAF_IBLOCKS * CELLS

Data == 1 .. MaxOps        \* what the n-th operation writes into its cells
Zero == 0
Old  == -1                 \* what a data block held before it was allocated
Content == [Cell -> Data \cup {Zero, Old}]

ASSUME FileAssumption ==
  /\ YAF_IBLOCKS \in Nat \ {0}
  /\ CELLS \in Nat \ {0}
  /\ MaxOps \in Nat
  /\ Absent # NotUptodate /\ Absent \notin Content /\ NotUptodate \notin Content

\* A write within one page, from one cell up to another.
Write == {w \in [block : Bidx, from : Cell, to : 1 .. CELLS] : w.from < w.to}
Idle  == [block |-> -1, from |-> 0, to |-> 0]

VARIABLES
  nb,        \* dbnr: i_block[0 .. nb - 1] are allocated
  off,       \* those of them whose number is off the device
  size,      \* i_size
  disk,      \* disk[b]: the data block i_block[b] on the device, if b < nb; off the
             \* device, what was to be written there
  page,      \* page[b]: the page of the file that caches it
  dirty,     \* dirty pages
  wr,        \* the write between yaf_write_begin and yaf_write_end, or Idle
  count,     \* how many writes and truncations have begun
  idirty,    \* mark_inode_dirty() since the inode was written
  saved,     \* <<nb, size>> of the inode on the disk
  panic,     \* the page cache called a missing operation of yaf_as_ops
  gaps,      \* history: cells below i_size that no write reached
  uneven     \* history: a write failed or the file was truncated

vars == <<nb, off, size, disk, page, dirty, wr, count, idirty, saved, panic, gaps, uneven>>
hist == <<gaps, uneven>>

Init ==
  /\ nb = 0 /\ off = {} /\ size = 0
  /\ disk = [b \in Bidx |-> [c \in Cell |-> Old]]
  /\ page = [b \in Bidx |-> Absent]
  /\ dirty = {}
  /\ wr = Idle /\ count = 0
  /\ idirty = FALSE /\ saved = <<0, 0>>
  /\ panic = FALSE
  /\ gaps = {} /\ uneven = FALSE

Cached(b) == page[b] \notin {Absent, NotUptodate}
Locked(b) == wr.block = b

\* A page with everything from cell n on set to zero.
Cut(p, n) == [c \in Cell |-> IF c < n THEN p[c] ELSE Zero]

-----------------------------------------------------------------------------
(* write(), a page at a time. *)

\* A write that MAX_FILESIZE allows; users who never leave gaps do not "seek".
CanBegin(w) ==
  /\ ~panic /\ wr = Idle /\ count < MaxOps
  /\ w.block * CELLS + w.from <= size \/ "seek" \in Env

\* Wrong: the loop ends before the block, or one block after it.
BlocksFor_Less(w) == Max({nb, w.block})
BlocksFor_More(w) == Min({YAF_IBLOCKS, Max({nb, w.block + 2})})

\* yaf_get_block(create = 1) has or gets all blocks up to this one.
BlocksFor(w) == Max({nb, w.block + 1})

\* Wrong: a page that is not in the cache is filled with zeros.
Prepared_Zero(w) == IF Cached(w.block) THEN page[w.block]
                    ELSE IF w.from > 0 \/ w.to < CELLS THEN [c \in Cell |-> Zero]
                    ELSE NotUptodate

\* The blocks off the device once there are n of them: a full bitmap gives a
\* block number that is none ("full", see YafBitmap), and it is stored and
\* mapped like any other.
OffOf(n) == IF "full" \in Env THEN {off \cup F : F \in SUBSET (nb .. n - 1)} ELSE {off}

\* What block_write_begin() puts into a page before the copy: a block that is
\* written in part is read, and as yaf_get_block() never says that it is new,
\* nothing is set to zero.
Prepared(w) == IF Cached(w.block) THEN page[w.block]
               ELSE IF w.from > 0 \/ w.to < CELLS THEN disk[w.block]
               ELSE NotUptodate

\* It has to read the block.
ReadsFor(w) == ~Cached(w.block) /\ Prepared(w) # NotUptodate

WriteBegin(w) ==
  /\ CanBegin(w)
  /\ nb' = BlocksFor(w)
  /\ off' \in OffOf(nb')
  /\ ReadsFor(w) => w.block \notin off'
  /\ page' = [page EXCEPT ![w.block] = Prepared(w)]
  /\ idirty' = (idirty \/ nb' # nb)
  /\ wr' = w
  /\ count' = count + 1
  /\ UNCHANGED <<size, disk, dirty, saved, panic, hist>>

\* Wrong: mark_inode_dirty() after the loop only.
FailsIn_Clean(w) ==
  \/ /\ "nospace" \in Env /\ nb <= w.block
     /\ nb' \in nb .. w.block
     /\ off' \in OffOf(nb')
     /\ UNCHANGED idirty
  \/ /\ ReadsFor(w)
     /\ nb' = BlocksFor(w)
     /\ off' \in OffOf(nb')
     /\ "eio" \in Env \/ w.block \in off'
     /\ idirty' = (idirty \/ nb' # nb)

\* A block that is written in part cannot be read, because of the device ("eio")
\* or because it is not on it; blocks that were allocated stay.  "nospace" is the
\* -ENOSPC of yaf_get_block() for RESERVED_DNO, which bitmap.c:69 promises for a
\* full bitmap and bitmap.c never returns: the path is there, and dead.
FailsIn(w) ==
  \/ /\ "nospace" \in Env /\ nb <= w.block
     /\ nb' \in nb .. w.block
     /\ off' \in OffOf(nb')
     /\ idirty' = TRUE
  \/ /\ ReadsFor(w)
     /\ nb' = BlocksFor(w)
     /\ off' \in OffOf(nb')
     /\ "eio" \in Env \/ w.block \in off'
     /\ idirty' = (idirty \/ nb' # nb)

WriteBeginFails(w) ==
  /\ CanBegin(w)
  /\ FailsIn(w)
  /\ page' = [page EXCEPT ![w.block] = IF Cached(w.block) THEN @ ELSE NotUptodate]
  /\ count' = count + 1
  /\ uneven' = TRUE
  /\ UNCHANGED <<size, disk, dirty, wr, saved, panic, gaps>>

\* Wrong: every write is taken to append.
NewSize_Append(end) == size + end - wr.from

\* i_size after generic_write_end() has copied up to cell end.
NewSize(end) == Max({size, wr.block * CELLS + end})

Copied(end) == wr.block * CELLS + wr.from .. wr.block * CELLS + end - 1

\* The copy ends at cell end, short of wr.to if it failed ("short"); a short
\* copy into a page that is not up to date counts as none.
WriteEnd(end) ==
  /\ ~panic /\ wr # Idle
  /\ end = wr.to \/ ("short" \in Env /\ wr.from <= end /\ end < wr.to)
  /\ LET b == wr.block IN
     IF end = wr.from \/ (page[b] = NotUptodate /\ end < wr.to)
     THEN UNCHANGED <<page, dirty, size, idirty, gaps>>
     ELSE /\ page' = [page EXCEPT ![b] =
               [c \in Cell |-> IF wr.from <= c /\ c < end THEN count ELSE @[c]]]
          /\ dirty' = dirty \cup {b}
          /\ size' = NewSize(end)
          /\ idirty' = (idirty \/ size' # size \/ end = wr.to)
          /\ gaps' = (gaps \cup (size .. b * CELLS + wr.from - 1)) \ Copied(end)
  /\ uneven' = (uneven \/ end < wr.to)
  /\ wr' = Idle
  /\ UNCHANGED <<nb, off, disk, count, saved, panic>>

-----------------------------------------------------------------------------
(* Reading. *)

\* yaf_get_block(create = 0): a block that is not there reads as zeros.
ReadIn(b) == IF b < nb THEN disk[b] ELSE [c \in Cell |-> Zero]

\* yaf_readahead() of a page that is not in the cache; after an I/O error ("eio",
\* or a block off the device) the page stays there without contents.
Readahead(b) ==
  /\ ~panic /\ ~Locked(b)
  /\ page[b] = Absent
  /\ b * CELLS < size
  /\ \/ b \notin off /\ page' = [page EXCEPT ![b] = ReadIn(b)]
     \/ /\ b \in off \/ ("eio" \in Env /\ b < nb)
        /\ page' = [page EXCEPT ![b] = NotUptodate]
  /\ UNCHANGED <<nb, off, size, disk, dirty, wr, count, idirty, saved, panic, hist>>

\* read() of pages that are there, from below i_size up to one without
\* contents: yaf_as_ops has no read_folio.
ReadNotUptodate(b) ==
  /\ ~panic /\ ~Locked(b)
  /\ page[b] = NotUptodate
  /\ \E a \in 0 .. b : a * CELLS < size /\ \A k \in a .. b - 1 : Cached(k)
  /\ panic' = TRUE
  /\ UNCHANGED <<nb, off, size, disk, page, dirty, wr, count, idirty, saved, hist>>

-----------------------------------------------------------------------------
(* Writeback, reclaim, truncate. *)

\* yaf_writepage(): what is past i_size is set to zero first, and a block that
\* is not there is allocated.  If the block is off the device the I/O fails, and
\* the page is clean all the same.
Writepage(b) ==
  /\ ~panic /\ ~Locked(b)
  /\ b \in dirty
  /\ dirty' = dirty \ {b}
  /\ page' = [page EXCEPT ![b] = Cut(@, size - b * CELLS)]
  /\ disk' = [disk EXCEPT ![b] = page'[b]]
  /\ nb' = Max({nb, b + 1})
  /\ UNCHANGED <<off, size, wr, count, idirty, saved, panic, hist>>

\* Wrong: i_block is not copied.
WriteInode_Size ==
  /\ ~panic
  /\ idirty
  /\ idirty' = FALSE
  /\ saved' = <<saved[1], size>>
  /\ UNCHANGED <<nb, off, size, disk, page, dirty, wr, count, panic, hist>>

\* yaf_write_inode().
WriteInode ==
  /\ ~panic
  /\ idirty
  /\ idirty' = FALSE
  /\ saved' = <<nb, size>>
  /\ UNCHANGED <<nb, off, size, disk, page, dirty, wr, count, panic, hist>>

Reclaim(b) ==
  /\ ~panic /\ ~Locked(b)
  /\ b \notin dirty
  /\ page[b] # Absent
  /\ page' = [page EXCEPT ![b] = Absent]
  /\ UNCHANGED <<nb, off, size, disk, dirty, wr, count, idirty, saved, panic, hist>>

\* truncate(), also past the end ("extend"): yaf has no setattr, and the VFS
\* changes i_size and the cached pages.
Truncate(n) ==
  /\ ~panic /\ wr = Idle /\ count < MaxOps
  /\ n < size \/ (n > size /\ "extend" \in Env)
  /\ size' = n
  /\ page' = [b \in Bidx |-> IF b * CELLS >= n THEN Absent
                             ELSE IF Cached(b) THEN Cut(page[b], n - b * CELLS)
                             ELSE page[b]]
  /\ dirty' = {b \in dirty : b * CELLS < n}
  /\ idirty' = TRUE
  /\ count' = count + 1
  /\ gaps' = (gaps \cup (size .. n - 1)) \cap (0 .. n - 1)
  /\ uneven' = TRUE
  /\ UNCHANGED <<nb, off, disk, wr, saved, panic>>

Next ==
  \/ \E w \in Write : WriteBegin(w) \/ WriteBeginFails(w)
  \/ \E end \in 0 .. CELLS : WriteEnd(end)
  \/ \E b \in Bidx : \/ Readahead(b) \/ ReadNotUptodate(b)
                     \/ Writepage(b) \/ Reclaim(b)
  \/ \E n \in 0 .. MAX_FILESIZE : Truncate(n)
  \/ WriteInode

Spec == Init /\ [][Next]_vars

\* The flusher threads write every dirty page and inode again and again, and a
\* write that has begun goes on.
FairSpec == /\ Spec
            /\ \A b \in Bidx : WF_vars(Writepage(b))
            /\ WF_vars(WriteInode)
            /\ WF_vars(\E end \in 0 .. CELLS : WriteEnd(end))

-----------------------------------------------------------------------------
(* Properties. *)

TypeOK ==
  /\ nb \in 0 .. YAF_IBLOCKS /\ off \subseteq 0 .. nb - 1
  /\ size \in 0 .. MAX_FILESIZE
  /\ disk \in [Bidx -> Content]
  /\ page \in [Bidx -> Content \cup {Absent, NotUptodate}]
  /\ dirty \subseteq Bidx
  /\ wr \in Write \cup {Idle}
  /\ count \in 0 .. MaxOps
  /\ idirty \in BOOLEAN
  /\ saved \in (0 .. YAF_IBLOCKS) \X (0 .. MAX_FILESIZE)
  /\ gaps \subseteq 0 .. size - 1
  /\ panic \in BOOLEAN /\ uneven \in BOOLEAN

\* What read() finds in a cell, in the page cache or by reading it in.
View(c) == LET b == c \div CELLS
           IN  IF Cached(b) THEN page[b][c % CELLS] ELSE ReadIn(b)[c % CELLS]

\* What users wrote is what they read, if read() returns, whatever is written
\* back, dropped, read again, cut off, or fails in between: no cell shows an old
\* block's contents or loses a neighbour's write.  Cells no write reached are
\* excepted: yaf does not clear them (file.c:56).  What was in a block off the
\* device cannot be read once its page is dropped.
Bytes == INSTANCE YafBytes WITH
           MaxSize <- MAX_FILESIZE,
           bytes <- [c \in 0 .. size - 1 |-> IF c \in gaps THEN Zero ELSE View(c)]

BytesSpec == Bytes!Spec

\* As long as no write failed and nothing was truncated, a file has as many
\* blocks as i_size says, which is how many unlink puts back (inode.c:359).
\* A write that failed may leave blocks that nobody frees (file.c:46).
BlocksMatchSize ==
  ~uneven /\ wr = Idle => (nb - 1) * CELLS < size /\ size <= nb * CELLS

\* A dirty page has its entry in i_block and its contents, whatever was cut off
\* or failed, so that writeback allocates nothing.  The entry may be the number
\* that a full bitmap gives, which writeback cannot write (file.c:49).
DirtyIsMapped == \A b \in dirty : b < nb /\ Cached(b)

\* An inode that is clean is on the disk with all its blocks, also those of a
\* write that failed (file.c:44) or copied less than it should (file.c:114).
InodeSaved == ~idirty => saved = <<nb, size>>

\* What was written reaches the device, with the inode that finds it, but for
\* the blocks that are not on the device: their write fails, unnoticed by write().
OnDisk == /\ saved = <<nb, size>>
          /\ \A c \in (0 .. size - 1) \ gaps :
               c \div CELLS \in off \/ disk[c \div CELLS][c % CELLS] = View(c)

ReachesDisk == <>[](panic \/ OnDisk)
==============================================================================
