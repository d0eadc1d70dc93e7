------------------------------ MODULE YafBitmap ------------------------------
(***************************************************************************)
(* driver/bitmap.c: one bitmap section (of inodes or of data blocks) that  *)
(* several kernel threads search and clear at the same time, together with *)
(* the buffer cache that holds its blocks.                                 *)
(*                                                                         *)
(* yaf_get_free_inode and yaf_get_free_dblock are one algorithm with three *)
(* differences, which are constants here: the number that stands for "no   *)
(* number" (RESERVED), the number returned when sb_bread() fails (EIO_RET, *)
(* RESERVED_INO in both), and whether brelse() comes before                *)
(* mark_buffer_dirty() (ReleaseFirst, in yaf_get_free_dblock only).        *)
(***************************************************************************)
EXTENDS Integers, FiniteSets

CONSTANTS
  Thread,          \* kernel threads inside the driver
  NR_BLOCKS,       \* blocks of the bitmap section (nr_ibp or nr_dbp)
  BITS_PER_BLOCK,  \* bits of one block
  U32,             \* 2^32: the modulus of uint32_t
  Preset,          \* bits mkfs sets: RESERVED_INO and ROOT_INO, or none
  RESERVED,        \* RESERVED_INO, or RESERVED_DNO as a uint32_t
  EIO_RET,         \* what is returned when sb_bread() fails
  ReleaseFirst,    \* brelse() before mark_buffer_dirty()
  Env,             \* what the environment may do: "eio", "reclaim"
  MaxOwn           \* bound: numbers one thread asks for before giving back

ASSUME BitmapAssumption ==
  /\ NR_BLOCKS \in Nat \ {0}
  /\ BITS_PER_BLOCK \in Nat \ {0}
  /\ U32 \in Nat
  /\ NR_BLOCKS * BITS_PER_BLOCK < U32 - 2
  /\ Preset \subseteq 0 .. BITS_PER_BLOCK - 1
  /\ RESERVED \in 0 .. U32 - 1
  /\ EIO_RET \in 0 .. U32 - 1
  /\ ReleaseFirst \in BOOLEAN
  /\ MaxOwn \in Nat

Block == 0 .. NR_BLOCKS - 1
Index == 0 .. NR_BLOCKS * BITS_PER_BLOCK - 1
Word  == 0 .. U32 - 1

\* -ENOENT stored in the uint32_t variable *res*.
NotFound == U32 - 2

\* The block of the section a number belongs to: IDXI2BID, IDXD2BID.
BlockOf(i) == i \div BITS_PER_BLOCK
InBlock(b) == {i \in Index : BlockOf(i) = b}

VARIABLES
  cache,   \* indices whose bit is set in the buffer cache
  disk,    \* indices whose bit is set on the device
  dirty,   \* blocks marked dirty
  pc,      \* pc[t]: where thread t is
  blk,     \* blk[t]: the block whose buffer_head thread t works on
  nr,      \* nr[t]: the bit yaf_get_free_bit looks at next
  res,     \* res[t]: the bit found, or the number being put
  own,     \* own[t]: the numbers thread t was given and has not put
  panic    \* "no", or the assertion that stopped the machine

vars == <<cache, disk, dirty, pc, blk, nr, res, own, panic>>

Places == {"idle", "bread", "scan", "found", "marked", "released",
           "clear", "cleared"}

TypeOK ==
  /\ cache \subseteq Index
  /\ disk \subseteq Index
  /\ dirty \subseteq Block
  /\ pc \in [Thread -> Places]
  /\ blk \in [Thread -> Block]
  /\ nr \in [Thread -> 0 .. BITS_PER_BLOCK - 1]
  /\ res \in [Thread -> Word]
  /\ own \in [Thread -> SUBSET Word]
  /\ panic \in {"no", "bh", "bit"}

Init ==
  /\ cache = Preset
  /\ disk = Preset
  /\ dirty = {}
  /\ pc = [t \in Thread |-> "idle"]
  /\ blk = [t \in Thread |-> 0]
  /\ nr = [t \in Thread |-> 0]
  /\ res = [t \in Thread |-> 0]
  /\ own = [t \in Thread |-> {}]
  /\ panic = "no"

Goto(t, from, to) == /\ panic = "no"
                     /\ pc[t] = from
                     /\ pc' = [pc EXCEPT ![t] = to]

\* The caller of yaf_get_free_* takes every number but RESERVED as its own.
Given(t, i) == own' = [own EXCEPT ![t] = IF i = RESERVED THEN @ ELSE @ \cup {i}]

-----------------------------------------------------------------------------
(* yaf_get_free_inode(), yaf_get_free_dblock() and yaf_get_free_bit().     *)

\* The search starts at the first block of the section.
GetCall(t) ==
  /\ Goto(t, "idle", "bread")
  /\ Cardinality(own[t]) < MaxOwn
  /\ blk' = [blk EXCEPT ![t] = 0]
  /\ UNCHANGED <<cache, disk, dirty, nr, res, own, panic>>

GetBread(t) ==
  /\ Goto(t, "bread", "scan")
  /\ nr' = [nr EXCEPT ![t] = 0]
  /\ UNCHANGED <<cache, disk, dirty, blk, res, own, panic>>

\* sb_bread() failed.
GetBreadFails(t) ==
  /\ "eio" \in Env
  /\ Goto(t, "bread", "idle")
  /\ Given(t, EIO_RET)
  /\ UNCHANGED <<cache, disk, dirty, blk, nr, res, panic>>

\* The index of the bit thread t looks at.
Probe(t) == nr[t] + blk[t] * BITS_PER_BLOCK

\* ScanSet_TestOnly, ScanSet_Always: wrong, test_bit() in place of
\* test_and_set_bit(), and its result not looked at.
ScanSet_TestOnly(t) ==
  /\ Goto(t, "scan", "found")
  /\ Probe(t) \notin cache
  /\ res' = [res EXCEPT ![t] = nr[t]]
  /\ UNCHANGED <<cache, disk, dirty, blk, nr, own, panic>>

ScanSet_Always(t) ==
  /\ Goto(t, "scan", "found")
  /\ cache' = cache \cup {Probe(t)}
  /\ res' = [res EXCEPT ![t] = nr[t]]
  /\ UNCHANGED <<disk, dirty, blk, nr, own, panic>>

\* test_and_set_bit() returned 0: the bit was clear and is now set.
ScanSet(t) ==
  /\ Goto(t, "scan", "found")
  /\ Probe(t) \notin cache
  /\ cache' = cache \cup {Probe(t)}
  /\ res' = [res EXCEPT ![t] = nr[t]]
  /\ UNCHANGED <<disk, dirty, blk, nr, own, panic>>

\* Wrong: nr <= bits as the condition of the loop.
ScanNext_PastEnd(t) ==
  /\ Goto(t, "scan", "scan")
  /\ Probe(t) \in cache
  /\ nr' = [nr EXCEPT ![t] = @ + 1]
  /\ UNCHANGED <<cache, disk, dirty, blk, res, own, panic>>

\* The bit was set already: try the next one of the block.
ScanNext(t) ==
  /\ Goto(t, "scan", "scan")
  /\ Probe(t) \in cache
  /\ nr[t] + 1 < BITS_PER_BLOCK
  /\ nr' = [nr EXCEPT ![t] = @ + 1]
  /\ UNCHANGED <<cache, disk, dirty, blk, res, own, panic>>

\* Wrong: the search starts again at the first bit.
ScanEnd_Restart(t) ==
  /\ Goto(t, "scan", "scan")
  /\ Probe(t) \in cache
  /\ nr[t] + 1 = BITS_PER_BLOCK
  /\ nr' = [nr EXCEPT ![t] = 0]
  /\ UNCHANGED <<cache, disk, dirty, blk, res, own, panic>>

\* All bits of the block are set.  The caller's test *res >= 0* is on a
\* uint32_t and always true, so it returns -ENOENT as if it were a bit, and
\* never moves on to the next block.
ScanEnd(t) ==
  /\ Goto(t, "scan", "found")
  /\ Probe(t) \in cache
  /\ nr[t] + 1 = BITS_PER_BLOCK
  /\ res' = [res EXCEPT ![t] = NotFound]
  /\ UNCHANGED <<cache, disk, dirty, blk, nr, own, panic>>

GetResult(t) == (res[t] + blk[t] * BITS_PER_BLOCK) % U32

\* Wrong: no mark_buffer_dirty().
GetMark_Clean(t) ==
  /\ ~ReleaseFirst
  /\ Goto(t, "found", "marked")
  /\ UNCHANGED <<cache, disk, dirty, blk, nr, res, own, panic>>

\* mark_buffer_dirty() and then brelse(): yaf_get_free_inode().
GetMark(t) ==
  /\ ~ReleaseFirst
  /\ Goto(t, "found", "marked")
  /\ dirty' = dirty \cup {blk[t]}
  /\ UNCHANGED <<cache, disk, blk, nr, res, own, panic>>

GetReturn(t) ==
  /\ Goto(t, "marked", "idle")
  /\ Given(t, GetResult(t))
  /\ UNCHANGED <<cache, disk, dirty, blk, nr, res, panic>>

\* brelse() and then mark_buffer_dirty(): yaf_get_free_dblock().
GetRelease(t) ==
  /\ ReleaseFirst
  /\ Goto(t, "found", "released")
  /\ UNCHANGED <<cache, disk, dirty, blk, nr, res, own, panic>>

GetMarkReturn(t) ==
  /\ Goto(t, "released", "idle")
  /\ dirty' = dirty \cup {blk[t]}
  /\ Given(t, GetResult(t))
  /\ UNCHANGED <<cache, disk, blk, nr, res, panic>>

-----------------------------------------------------------------------------
(* yaf_put_inode(), yaf_put_dblock() and yaf_put_bit().                    *)

PutCall(t, i) ==
  /\ i \in own[t] \cap Index
  /\ Goto(t, "idle", "clear")
  /\ blk' = [blk EXCEPT ![t] = BlockOf(i)]
  /\ res' = [res EXCEPT ![t] = i]
  /\ UNCHANGED <<cache, disk, dirty, nr, own, panic>>

\* sb_bread() returned NULL, because of an I/O error or because the number
\* is not in the bitmap and its block is past the end of the device:
\* assert(bh) fails.
PutBreadFails(t, i) ==
  /\ i \in own[t]
  /\ "eio" \in Env \/ i \notin Index
  /\ panic = "no"
  /\ pc[t] = "idle"
  /\ panic' = "bh"
  /\ UNCHANGED <<cache, disk, dirty, pc, blk, nr, res, own>>

\* assert(test_and_clear_bit()).  The number is not the caller's any more.
PutClear(t) ==
  /\ Goto(t, "clear", "cleared")
  /\ panic' = IF res[t] \in cache THEN "no" ELSE "bit"
  /\ cache' = cache \ {res[t]}
  /\ own' = [own EXCEPT ![t] = @ \ {res[t]}]
  /\ UNCHANGED <<disk, dirty, blk, nr, res>>

\* Wrong: no mark_buffer_dirty().
PutReturn_Clean(t) ==
  /\ Goto(t, "cleared", "idle")
  /\ UNCHANGED <<cache, disk, dirty, blk, nr, res, own, panic>>

PutReturn(t) ==
  /\ Goto(t, "cleared", "idle")
  /\ dirty' = dirty \cup {blk[t]}
  /\ UNCHANGED <<cache, disk, blk, nr, res, own, panic>>

-----------------------------------------------------------------------------
(* The buffer cache (external): dirty blocks are written at any time; a    *)
(* clean block that no thread holds may be dropped, and is read again from *)
(* the device when it is next used.                                        *)

\* Wrong: brelse() right after the search.
Holds_UntilFound(t, b) == blk[t] = b /\ pc[t] \in {"scan", "marked", "clear", "cleared"}

Holds(t, b) == blk[t] = b /\ pc[t] \in {"scan", "found", "marked", "clear", "cleared"}

WriteBack(b) ==
  /\ panic = "no"
  /\ b \in dirty
  /\ disk' = (disk \ InBlock(b)) \cup (cache \cap InBlock(b))
  /\ dirty' = dirty \ {b}
  /\ UNCHANGED <<cache, pc, blk, nr, res, own, panic>>

Reclaim(b) ==
  /\ "reclaim" \in Env
  /\ panic = "no"
  /\ b \notin dirty
  /\ \A t \in Thread : ~Holds(t, b)
  /\ cache' = (cache \ InBlock(b)) \cup (disk \cap InBlock(b))
  /\ UNCHANGED <<disk, dirty, pc, blk, nr, res, own, panic>>

-----------------------------------------------------------------------------
Step(t) ==
  \/ GetBread(t) \/ GetBreadFails(t)
  \/ ScanSet(t) \/ ScanNext(t) \/ ScanEnd(t)
  \/ GetMark(t) \/ GetReturn(t) \/ GetRelease(t) \/ GetMarkReturn(t)
  \/ PutClear(t) \/ PutReturn(t)

Call(t) == GetCall(t) \/ \E i \in own[t] : PutCall(t, i) \/ PutBreadFails(t, i)

Next == \/ \E t \in Thread : Step(t) \/ Call(t)
        \/ \E b \in Block : WriteBack(b) \/ Reclaim(b)

Spec == Init /\ [][Next]_vars

\* A thread inside the driver is scheduled again and again; whether it calls
\* the allocator is up to it.
FairSpec == Spec /\ \A t \in Thread : WF_vars(Step(t))

-----------------------------------------------------------------------------
(* Properties.                                                             *)

\* The bit thread t has set but not yet returned to its caller.
InFlight(t) == IF pc[t] \in {"found", "marked", "released"} /\ res[t] # NotFound
               THEN {res[t] + blk[t] * BITS_PER_BLOCK} ELSE {}

\* The numbers of the bitmap that are thread t's.
Has(t) == (own[t] \cap Index) \cup InFlight(t)

\* yaf_get_free_inode never gives one number to two callers, however their
\* searches, their puts, writeback and reclaim of the bitmap block
\* interleave, and never gives out a number mkfs reserved.
Exclusive ==
  \A t \in Thread :
    /\ Has(t) \cap Preset = {}
    /\ \A u \in Thread \ {t} : Has(t) \cap Has(u) = {}

\* A number that is in use has its bit set in the bitmap block the next
\* search will read, even after the block was dropped from memory.
OwnedIsMarked == \A t \in Thread : Has(t) \subseteq cache

\* A thread that puts what it was given never fails the assertion in
\* yaf_put_bit (bitmap.c:24): nobody else cleared the bit.
NoDoubleFree == panic # "bit"

\* A bitmap block that is neither dirty nor in use by a thread is on the
\* device as it is in memory: no set or clear bypasses mark_buffer_dirty.
CleanIsOnDisk ==
  \A b \in Block :
    b \notin dirty /\ (\A t \in Thread : ~Holds(t, b))
      => cache \cap InBlock(b) = disk \cap InBlock(b)

\* The bit-by-bit search implements a pool whose Take and Give are atomic:
\* test_and_set_bit() and test_and_clear_bit() are the points where they
\* take effect.
Pool == INSTANCE YafPool WITH used <- cache, own <- [t \in Thread |-> Has(t)]

PoolSpec == Pool!Spec

\* Every call of yaf_get_free_inode returns, whatever the others do: the
\* search looks at each bit once.
GetReturns == \A t \in Thread : pc[t] = "bread" ~> (pc[t] = "idle" \/ panic # "no")

\* "Return *RESERVED_INO* if no free inode was found" (bitmap.c:30): what
\* the allocator returns is a number of the bitmap or RESERVED.
GivenIsInBitmap == \A t \in Thread : own[t] \subseteq Index
==============================================================================
