--------------------------- MODULE YafBitmap_proofs ---------------------------
(***************************************************************************)
(* Proofs about YafBitmap, for every number of threads, blocks and bits.   *)
(***************************************************************************)
EXTENDS YafBitmap, TLAPS

(* Arithmetic of bit numbers. *)

\* A bit of the first block is an index of the bitmap.
LEMMA FirstBlockBits == 0 .. BITS_PER_BLOCK - 1 \subseteq Index
<1>1. NR_BLOCKS * BITS_PER_BLOCK >= BITS_PER_BLOCK
  BY BitmapAssumption
<1> QED BY <1>1, BitmapAssumption DEF Index

\* A bit of the first block lies in block 0.
LEMMA BlockOfFirst == \A n \in 0 .. BITS_PER_BLOCK - 1 : BlockOf(n) = 0
  BY BitmapAssumption DEF BlockOf

\* The block of an index is a block of the section.
LEMMA BlockOfIndex == \A i \in Index : BlockOf(i) \in Block
  BY BitmapAssumption DEF BlockOf, Index, Block

\* Every index fits in a uint32_t, and the reduction modulo 2^32 keeps words.
LEMMA Words ==
  /\ Index \subseteq Word
  /\ NotFound \in Word
  /\ NotFound \notin Index
  /\ \A w \in Word : w % U32 = w
  BY BitmapAssumption DEF Index, Word, NotFound

\* What the allocator returns is a word.
LEMMA ResultWord ==
  ASSUME TypeOK, NEW t \in Thread
  PROVE  GetResult(t) \in Word
<1>1. blk[t] * BITS_PER_BLOCK \in Nat
  BY BitmapAssumption DEF TypeOK, Block
<1>2. res[t] + blk[t] * BITS_PER_BLOCK \in Nat
  BY <1>1, BitmapAssumption DEF TypeOK, Word
<1> QED BY <1>2, BitmapAssumption DEF GetResult, Word

-------------------------------------------------------------------------------
(* Type correctness. *)

LEMMA TypeInit == Init => TypeOK
  BY FirstBlockBits, Words, BitmapAssumption
  DEF Init, TypeOK, Places, Block, Word

LEMMA TypeStep ==
  ASSUME TypeOK, [Next]_vars
  PROVE  TypeOK'
<1> USE DEF TypeOK, Places
<1>1. ASSUME NEW t \in Thread, GetCall(t) PROVE TypeOK'
  BY <1>1, BitmapAssumption DEF GetCall, Goto, Block
<1>2. ASSUME NEW t \in Thread, GetBread(t) PROVE TypeOK'
  BY <1>2, BitmapAssumption DEF GetBread, Goto
<1>3. ASSUME NEW t \in Thread, GetBreadFails(t) PROVE TypeOK'
  BY <1>3, BitmapAssumption DEF GetBreadFails, Goto, Given, Word
<1>4. ASSUME NEW t \in Thread, ScanSet(t) PROVE TypeOK'
  <2>1. nr[t] \in Word
    BY FirstBlockBits, Words
  <2>2. Probe(t) \in Index
    <3>1. blk[t] * BITS_PER_BLOCK \in Nat
      BY BitmapAssumption DEF Block
    <3>2. (blk[t] + 1) * BITS_PER_BLOCK <= NR_BLOCKS * BITS_PER_BLOCK
      BY BitmapAssumption DEF Block
    <3>3. (blk[t] + 1) * BITS_PER_BLOCK = blk[t] * BITS_PER_BLOCK + BITS_PER_BLOCK
      BY BitmapAssumption DEF Block
    <3> QED BY <3>1, <3>2, <3>3, BitmapAssumption DEF Probe, Index
  <2> QED BY <1>4, <2>1, <2>2 DEF ScanSet, Goto
<1>5. ASSUME NEW t \in Thread, ScanNext(t) PROVE TypeOK'
  BY <1>5, BitmapAssumption DEF ScanNext, Goto
<1>6. ASSUME NEW t \in Thread, ScanEnd(t) PROVE TypeOK'
  BY <1>6, Words DEF ScanEnd, Goto
<1>7. ASSUME NEW t \in Thread, GetMark(t) PROVE TypeOK'
  BY <1>7 DEF GetMark, Goto
<1>8. ASSUME NEW t \in Thread, GetReturn(t) PROVE TypeOK'
  <2>1. GetResult(t) \in Word
    BY ResultWord
  <2> QED BY <1>8, <2>1 DEF GetReturn, Goto, Given
<1>9. ASSUME NEW t \in Thread, GetRelease(t) PROVE TypeOK'
  BY <1>9 DEF GetRelease, Goto
<1>10. ASSUME NEW t \in Thread, GetMarkReturn(t) PROVE TypeOK'
  <2>1. GetResult(t) \in Word
    BY ResultWord
  <2> QED BY <1>10, <2>1 DEF GetMarkReturn, Goto, Given
<1>11. ASSUME NEW t \in Thread, NEW i \in own[t], PutCall(t, i) PROVE TypeOK'
  BY <1>11, BlockOfIndex, Words DEF PutCall, Goto
<1>12. ASSUME NEW t \in Thread, NEW i \in own[t], PutBreadFails(t, i) PROVE TypeOK'
  BY <1>12 DEF PutBreadFails
<1>13. ASSUME NEW t \in Thread, PutClear(t) PROVE TypeOK'
  BY <1>13 DEF PutClear, Goto
<1>14. ASSUME NEW t \in Thread, PutReturn(t) PROVE TypeOK'
  BY <1>14 DEF PutReturn, Goto
<1>15. ASSUME NEW b \in Block, WriteBack(b) PROVE TypeOK'
  BY <1>15 DEF WriteBack
<1>16. ASSUME NEW b \in Block, Reclaim(b) PROVE TypeOK'
  BY <1>16 DEF Reclaim
<1>17. CASE UNCHANGED vars
  BY <1>17 DEF vars
<1> QED
  BY <1>1, <1>2, <1>3, <1>4, <1>5, <1>6, <1>7, <1>8, <1>9, <1>10, <1>11,
     <1>12, <1>13, <1>14, <1>15, <1>16, <1>17 DEF Next, Step, Call

\* The variables of both allocators keep their types: in particular no search
\* ever tests a bit outside the bitmap section, and what is returned is a
\* uint32_t.
THEOREM TypeCorrect == Spec => []TypeOK
  BY TypeInit, TypeStep, PTL DEF Spec

-------------------------------------------------------------------------------
(***************************************************************************)
(* Mutual exclusion.  It holds under two conditions, which the inode       *)
(* allocator meets in every environment, and the data block allocator only *)
(* where a bitmap block is neither reclaimed nor unreadable.               *)
(***************************************************************************)
Sound == /\ ReleaseFirst => "reclaim" \notin Env
         /\ EIO_RET # RESERVED => "eio" \notin Env

\* A thread between a change of a bit of block b and mark_buffer_dirty().
Changing(t, b) == pc[t] \in {"found", "released", "cleared"} /\ blk[t] = b

\* The search never leaves the first block, what it found is a bit of that
\* block or NotFound, and what is being put is the putter's own.
Places2 ==
  \A t \in Thread :
    /\ pc[t] \in {"bread", "scan", "found", "marked", "released"} => blk[t] = 0
    /\ pc[t] = "released" => ReleaseFirst
    /\ pc[t] \in {"found", "marked", "released"}
         => res[t] = NotFound \/ res[t] \in 0 .. BITS_PER_BLOCK - 1
    /\ pc[t] = "clear" => res[t] \in own[t] \cap Index /\ blk[t] = BlockOf(res[t])

\* A clean block nobody is changing is the same in memory and on the device.
CleanSame ==
  \A b \in Block :
    b \notin dirty /\ (\A t \in Thread : ~Changing(t, b))
      => cache \cap InBlock(b) = disk \cap InBlock(b)

\* What mkfs marked stays marked.
PresetMarked == Preset \subseteq cache

IInv == /\ TypeOK /\ Places2 /\ CleanSame /\ PresetMarked
        /\ OwnedIsMarked /\ Exclusive /\ NoDoubleFree

LEMMA IInvInit == Init => IInv
<1> SUFFICES ASSUME Init PROVE IInv
  OBVIOUS
<1>1. TypeOK
  BY TypeInit
<1>2. \A t \in Thread : Has(t) = {}
  BY DEF Init, Has, InFlight
<1> QED BY <1>1, <1>2 DEF Init, IInv, Places2, CleanSame, PresetMarked, OwnedIsMarked,
             Exclusive, NoDoubleFree

\* A step that gives no thread more numbers and clears no bit keeps numbers
\* exclusive and marked.
LEMMA HasShrinks ==
  ASSUME IInv, cache \subseteq cache', \A t \in Thread : Has(t)' \subseteq Has(t)
  PROVE  Exclusive' /\ OwnedIsMarked' /\ PresetMarked'
  BY DEF IInv, Exclusive, OwnedIsMarked, PresetMarked

\* A step that leaves the bits, the device and the set of dirty blocks alone
\* and ends no change of a block keeps clean blocks the same.
LEMMA CleanFrame ==
  ASSUME IInv, UNCHANGED <<cache, disk, dirty>>,
         \A t \in Thread, b \in Block : Changing(t, b) => Changing(t, b)'
  PROVE  CleanSame'
  BY DEF IInv, CleanSame

LEMMA IInvStep ==
  ASSUME Sound, IInv, [Next]_vars
  PROVE  IInv'
<1>0. TypeOK'
  BY TypeStep DEF IInv
<1> USE DEF IInv, TypeOK
<1>1. ASSUME NEW t \in Thread, GetCall(t) PROVE IInv'
  <2>1. \A u \in Thread : Has(u)' \subseteq Has(u)
    BY <1>1 DEF GetCall, Goto, Has, InFlight
  <2>2. \A u \in Thread, b \in Block : Changing(u, b) => Changing(u, b)'
    BY <1>1 DEF GetCall, Goto, Changing
  <2>3. Places2' /\ NoDoubleFree'
    BY <1>1, BitmapAssumption DEF GetCall, Goto, Places2, NoDoubleFree, Block
  <2> QED BY <1>0, <1>1, <2>1, <2>2, <2>3, HasShrinks, CleanFrame DEF GetCall
<1>2. ASSUME NEW t \in Thread, GetBread(t) PROVE IInv'
  <2>1. \A u \in Thread : Has(u)' \subseteq Has(u)
    BY <1>2 DEF GetBread, Goto, Has, InFlight
  <2>2. \A u \in Thread, b \in Block : Changing(u, b) => Changing(u, b)'
    BY <1>2 DEF GetBread, Goto, Changing
  <2>3. Places2' /\ NoDoubleFree'
    BY <1>2 DEF GetBread, Goto, Places2, NoDoubleFree
  <2> QED BY <1>0, <1>2, <2>1, <2>2, <2>3, HasShrinks, CleanFrame DEF GetBread
<1>3. ASSUME NEW t \in Thread, GetBreadFails(t) PROVE IInv'
  <2>0. own' = own
    BY <1>3 DEF GetBreadFails, Given, Sound
  <2>1. \A u \in Thread : Has(u)' \subseteq Has(u)
    BY <1>3, <2>0 DEF GetBreadFails, Goto, Has, InFlight
  <2>2. \A u \in Thread, b \in Block : Changing(u, b) => Changing(u, b)'
    BY <1>3 DEF GetBreadFails, Goto, Changing
  <2>3. Places2' /\ NoDoubleFree'
    BY <1>3, <2>0 DEF GetBreadFails, Goto, Places2, NoDoubleFree
  <2> QED BY <1>0, <1>3, <2>1, <2>2, <2>3, HasShrinks, CleanFrame DEF GetBreadFails
<1>4. ASSUME NEW t \in Thread, ScanSet(t) PROVE IInv'
  <2>0. blk[t] = 0 /\ Probe(t) = nr[t] /\ nr[t] \in Index /\ BlockOf(nr[t]) = 0
    BY <1>4, FirstBlockBits, BlockOfFirst, BitmapAssumption DEF ScanSet, Goto, Places2, Probe
  <2>1. Has(t)' \subseteq Has(t) \cup {nr[t]}
    BY <1>4, <2>0, BitmapAssumption DEF ScanSet, Goto, Has, InFlight
  <2>2. \A u \in Thread \ {t} : Has(u)' = Has(u)
    BY <1>4 DEF ScanSet, Goto, Has, InFlight
  <2>3. nr[t] \notin cache /\ cache' = cache \cup {nr[t]}
    BY <1>4, <2>0 DEF ScanSet
  <2>4. Exclusive' /\ OwnedIsMarked' /\ PresetMarked'
    BY <2>1, <2>2, <2>3 DEF Exclusive, OwnedIsMarked, PresetMarked
  <2>5. CleanSame'
    <3> SUFFICES ASSUME NEW b \in Block, b \notin dirty',
                        \A u \in Thread : ~Changing(u, b)'
                 PROVE  cache' \cap InBlock(b) = disk' \cap InBlock(b)
      BY DEF CleanSame, InBlock
    <3>1. Changing(t, 0)'
      BY <1>4, <2>0 DEF ScanSet, Goto, Changing
    <3>2. b # 0
      BY <3>1
    <3>3. nr[t] \notin InBlock(b)
      BY <2>0, <3>2 DEF InBlock
    <3>4. \A u \in Thread : ~Changing(u, b)
      BY <1>4 DEF ScanSet, Goto, Changing
    <3> QED BY <1>4, <2>3, <3>3, <3>4 DEF ScanSet, CleanSame
  <2>6. Places2' /\ NoDoubleFree'
    BY <1>4 DEF ScanSet, Goto, Places2, NoDoubleFree
  <2> QED BY <1>0, <2>4, <2>5, <2>6
<1>5. ASSUME NEW t \in Thread, ScanNext(t) PROVE IInv'
  <2>1. \A u \in Thread : Has(u)' \subseteq Has(u)
    BY <1>5 DEF ScanNext, Goto, Has, InFlight
  <2>2. \A u \in Thread, b \in Block : Changing(u, b) => Changing(u, b)'
    BY <1>5 DEF ScanNext, Goto, Changing
  <2>3. Places2' /\ NoDoubleFree'
    BY <1>5 DEF ScanNext, Goto, Places2, NoDoubleFree
  <2> QED BY <1>0, <1>5, <2>1, <2>2, <2>3, HasShrinks, CleanFrame DEF ScanNext
<1>6. ASSUME NEW t \in Thread, ScanEnd(t) PROVE IInv'
  <2>1. \A u \in Thread : Has(u)' \subseteq Has(u)
    BY <1>6 DEF ScanEnd, Goto, Has, InFlight
  <2>2. \A u \in Thread, b \in Block : Changing(u, b) => Changing(u, b)'
    BY <1>6 DEF ScanEnd, Goto, Changing
  <2>3. Places2' /\ NoDoubleFree'
    BY <1>6 DEF ScanEnd, Goto, Places2, NoDoubleFree
  <2> QED BY <1>0, <1>6, <2>1, <2>2, <2>3, HasShrinks, CleanFrame DEF ScanEnd
<1>7. ASSUME NEW t \in Thread, GetMark(t) PROVE IInv'
  <2>1. \A u \in Thread : Has(u)' \subseteq Has(u)
    BY <1>7 DEF GetMark, Goto, Has, InFlight
  <2>2. CleanSame'
    BY <1>7 DEF GetMark, Goto, Changing, CleanSame, InBlock
  <2>3. Places2' /\ NoDoubleFree'
    BY <1>7 DEF GetMark, Goto, Places2, NoDoubleFree
  <2> QED BY <1>0, <1>7, <2>1, <2>2, <2>3, HasShrinks DEF GetMark
<1>8. ASSUME NEW t \in Thread, GetReturn(t) PROVE IInv'
  <2>1. \A u \in Thread : Has(u)' \subseteq Has(u)
    <3>1. own'[t] \subseteq own[t] \cup {GetResult(t)}
      BY <1>8 DEF GetReturn, Given
    <3>2. GetResult(t) = res[t] /\ InFlight(t) = {res[t]} \ {NotFound}
      BY <1>8, Words, BitmapAssumption DEF GetReturn, Goto, GetResult, Places2, InFlight, Word
    <3> QED BY <1>8, <3>1, <3>2, Words DEF GetReturn, Goto, Given, Has, InFlight
  <2>2. \A u \in Thread, b \in Block : Changing(u, b) => Changing(u, b)'
    BY <1>8 DEF GetReturn, Goto, Changing
  <2>3. Places2' /\ NoDoubleFree'
    BY <1>8 DEF GetReturn, Goto, Given, Places2, NoDoubleFree
  <2> QED BY <1>0, <1>8, <2>1, <2>2, <2>3, HasShrinks, CleanFrame DEF GetReturn
<1>9. ASSUME NEW t \in Thread, GetRelease(t) PROVE IInv'
  <2>1. \A u \in Thread : Has(u)' \subseteq Has(u)
    BY <1>9 DEF GetRelease, Goto, Has, InFlight
  <2>2. \A u \in Thread, b \in Block : Changing(u, b) => Changing(u, b)'
    BY <1>9 DEF GetRelease, Goto, Changing
  <2>3. Places2' /\ NoDoubleFree'
    BY <1>9 DEF GetRelease, Goto, Places2, NoDoubleFree
  <2> QED BY <1>0, <1>9, <2>1, <2>2, <2>3, HasShrinks, CleanFrame DEF GetRelease
<1>10. ASSUME NEW t \in Thread, GetMarkReturn(t) PROVE IInv'
  <2>1. \A u \in Thread : Has(u)' \subseteq Has(u)
    <3>1. own'[t] \subseteq own[t] \cup {GetResult(t)}
      BY <1>10 DEF GetMarkReturn, Given
    <3>2. GetResult(t) = res[t] /\ InFlight(t) = {res[t]} \ {NotFound}
      BY <1>10, Words, BitmapAssumption DEF GetMarkReturn, Goto, GetResult, Places2, InFlight, Word
    <3> QED BY <1>10, <3>1, <3>2, Words DEF GetMarkReturn, Goto, Given, Has, InFlight
  <2>2. CleanSame'
    BY <1>10 DEF GetMarkReturn, Goto, Changing, CleanSame, InBlock
  <2>3. Places2' /\ NoDoubleFree'
    BY <1>10 DEF GetMarkReturn, Goto, Given, Places2, NoDoubleFree
  <2> QED BY <1>0, <1>10, <2>1, <2>2, <2>3, HasShrinks DEF GetMarkReturn
<1>11. ASSUME NEW t \in Thread, NEW i \in own[t], PutCall(t, i) PROVE IInv'
  <2>1. \A u \in Thread : Has(u)' \subseteq Has(u)
    BY <1>11 DEF PutCall, Goto, Has, InFlight
  <2>2. \A u \in Thread, b \in Block : Changing(u, b) => Changing(u, b)'
    BY <1>11 DEF PutCall, Goto, Changing
  <2>3. Places2' /\ NoDoubleFree'
    BY <1>11 DEF PutCall, Goto, Places2, NoDoubleFree
  <2> QED BY <1>0, <1>11, <2>1, <2>2, <2>3, HasShrinks, CleanFrame DEF PutCall
<1>12. ASSUME NEW t \in Thread, NEW i \in own[t], PutBreadFails(t, i) PROVE IInv'
  <2>1. \A u \in Thread : Has(u)' \subseteq Has(u)
    BY <1>12 DEF PutBreadFails, Has, InFlight
  <2>2. \A u \in Thread, b \in Block : Changing(u, b) => Changing(u, b)'
    BY <1>12 DEF PutBreadFails, Changing
  <2>3. Places2' /\ NoDoubleFree'
    BY <1>12 DEF PutBreadFails, Places2, NoDoubleFree
  <2> QED BY <1>0, <1>12, <2>1, <2>2, <2>3, HasShrinks, CleanFrame DEF PutBreadFails
<1>13. ASSUME NEW t \in Thread, PutClear(t) PROVE IInv'
  <2>0. res[t] \in own[t] /\ res[t] \in Index /\ blk[t] = BlockOf(res[t])
    BY <1>13 DEF PutClear, Goto, Places2
  <2>1. res[t] \in Has(t) /\ res[t] \in cache
    BY <2>0 DEF Has, OwnedIsMarked
  <2>2. Has(t)' = Has(t) \ {res[t]}
    BY <1>13, <2>0 DEF PutClear, Goto, Has, InFlight
  <2>3. \A u \in Thread \ {t} : Has(u)' = Has(u)
    BY <1>13 DEF PutClear, Goto, Has, InFlight
  <2>4. Exclusive' /\ OwnedIsMarked' /\ PresetMarked'
    BY <1>13, <2>1, <2>2, <2>3 DEF PutClear, Exclusive, OwnedIsMarked, PresetMarked
  <2>5. CleanSame'
    <3> SUFFICES ASSUME NEW b \in Block, b \notin dirty',
                        \A u \in Thread : ~Changing(u, b)'
                 PROVE  cache' \cap InBlock(b) = disk' \cap InBlock(b)
      BY DEF CleanSame, InBlock
    <3>1. b # blk[t]
      BY <1>13 DEF PutClear, Goto, Changing
    <3>2. res[t] \notin InBlock(b)
      BY <2>0, <3>1 DEF InBlock
    <3>3. \A u \in Thread : ~Changing(u, b)
      BY <1>13 DEF PutClear, Goto, Changing
    <3> QED BY <1>13, <3>2, <3>3 DEF PutClear, CleanSame
  <2>6. NoDoubleFree'
    BY <1>13, <2>1 DEF PutClear, NoDoubleFree
  <2>7. Places2'
    BY <1>13 DEF PutClear, Goto, Places2
  <2> QED BY <1>0, <2>4, <2>5, <2>6, <2>7
<1>14. ASSUME NEW t \in Thread, PutReturn(t) PROVE IInv'
  <2>1. \A u \in Thread : Has(u)' \subseteq Has(u)
    BY <1>14 DEF PutReturn, Goto, Has, InFlight
  <2>2. CleanSame'
    BY <1>14 DEF PutReturn, Goto, Changing, CleanSame, InBlock
  <2>3. Places2' /\ NoDoubleFree'
    BY <1>14 DEF PutReturn, Goto, Places2, NoDoubleFree
  <2> QED BY <1>0, <1>14, <2>1, <2>2, <2>3, HasShrinks DEF PutReturn
<1>15. ASSUME NEW b \in Block, WriteBack(b) PROVE IInv'
  <2>1. \A u \in Thread : Has(u)' \subseteq Has(u)
    BY <1>15 DEF WriteBack, Has, InFlight
  <2>2. CleanSame'
    BY <1>15 DEF WriteBack, Changing, CleanSame, InBlock
  <2>3. Places2' /\ NoDoubleFree'
    BY <1>15 DEF WriteBack, Places2, NoDoubleFree
  <2> QED BY <1>0, <1>15, <2>1, <2>2, <2>3, HasShrinks DEF WriteBack
<1>16. ASSUME NEW b \in Block, Reclaim(b) PROVE IInv'
  <2>1. \A u \in Thread : ~Changing(u, b)
    BY <1>16 DEF Reclaim, Holds, Changing, Sound, Places2
  <2>2. cache \cap InBlock(b) = disk \cap InBlock(b)
    BY <1>16, <2>1 DEF Reclaim, CleanSame
  <2>3. cache' = cache
    BY <1>16, <2>2 DEF Reclaim
  <2>4. UNCHANGED vars
    BY <1>16, <2>3 DEF Reclaim, vars
  <2> QED BY <1>0, <2>4 DEF vars, Places2, CleanSame, Changing, InBlock, PresetMarked,
            OwnedIsMarked, Exclusive, NoDoubleFree, Has, InFlight
<1>17. CASE UNCHANGED vars
  BY <1>0, <1>17 DEF vars, Places2, CleanSame, Changing, InBlock, PresetMarked,
     OwnedIsMarked, Exclusive, NoDoubleFree, Has, InFlight
<1> QED
  BY <1>1, <1>2, <1>3, <1>4, <1>5, <1>6, <1>7, <1>8, <1>9, <1>10, <1>11,
     <1>12, <1>13, <1>14, <1>15, <1>16, <1>17 DEF Next, Step, Call

\* However the threads' searches and puts, the writeback and the reclaim of
\* the bitmap blocks interleave: no number is given to two threads, none of
\* mkfs's is given out, and no put fails the assertion in yaf_put_bit.
THEOREM MutualExclusion ==
  ASSUME Sound
  PROVE  Spec => [](Exclusive /\ OwnedIsMarked /\ NoDoubleFree)
<1>1. IInv => Exclusive /\ OwnedIsMarked /\ NoDoubleFree
  BY DEF IInv
<1> QED BY <1>1, IInvInit, IInvStep, PTL DEF Spec

\* A number that is in use is set in the block the next search reads, also if
\* that block was dropped from memory and read again.
THEOREM OwnedStaysMarked ==
  ASSUME Sound
  PROVE  Spec => []OwnedIsMarked
<1>1. IInv => OwnedIsMarked   BY DEF IInv
<1> QED BY <1>1, IInvInit, IInvStep, PTL DEF Spec

\* assert(test_and_clear_bit()) in yaf_put_bit never fails.
THEOREM PutsFindTheirBit ==
  ASSUME Sound
  PROVE  Spec => []NoDoubleFree
<1>1. IInv => NoDoubleFree   BY DEF IInv
<1> QED BY <1>1, IInvInit, IInvStep, PTL DEF Spec

\* With mark_buffer_dirty() before brelse(), as in yaf_get_free_inode, a
\* bitmap block that is clean and not in use is on the device as in memory.
THEOREM DurableBits ==
  ASSUME Sound, ~ReleaseFirst
  PROVE  Spec => []CleanIsOnDisk
<1>1. IInv => CleanIsOnDisk
  BY DEF IInv, CleanSame, CleanIsOnDisk, Places2, Changing, Holds
<1> QED BY <1>1, IInvInit, IInvStep, PTL DEF Spec

-------------------------------------------------------------------------------
(* Refinement of the pool. *)

\* RESERVED is never a number that could be given out.
ReservedIsReserved == RESERVED \notin Index \ Preset

LEMMA PoolInit == Init => Pool!Init
<1> SUFFICES ASSUME Init PROVE Pool!Init
  OBVIOUS
<1>1. \A t \in Thread : Has(t) = {}
  BY DEF Init, Has, InFlight
<1> QED BY <1>1 DEF Init, Pool!Init

\* A step that changes neither the bits nor what the threads have is a
\* stuttering step of the pool.
LEMMA PoolStutter ==
  ASSUME cache' = cache, \A t \in Thread : Has(t)' = Has(t)
  PROVE  UNCHANGED <<cache, [t \in Thread |-> Has(t)]>>
  OBVIOUS

\* Returning a number moves it from in flight to owned.
LEMMA ReturnKeeps ==
  ASSUME IInv, ReservedIsReserved, NEW t \in Thread,
         pc[t] \in {"marked", "released"}, pc' = [pc EXCEPT ![t] = "idle"],
         Given(t, GetResult(t)), UNCHANGED <<blk, res>>
  PROVE  \A u \in Thread : Has(u)' = Has(u)
<1> USE DEF IInv, TypeOK
<1>1. GetResult(t) = res[t] /\ InFlight(t) = {res[t]} \ {NotFound}
  BY Words, BitmapAssumption DEF GetResult, Places2, InFlight, Word
<1>2. res[t] # NotFound => res[t] \in Index /\ res[t] # RESERVED
  BY <1>1, FirstBlockBits DEF Places2, Exclusive, Has, ReservedIsReserved
<1>3. Has(t)' = own'[t] \cap Index
  BY DEF Has, InFlight
<1>4. Has(t)' = Has(t)
  BY <1>1, <1>2, <1>3, Words DEF Given, Has
<1> QED BY <1>4 DEF Given, Has, InFlight

LEMMA PoolStep ==
  ASSUME Sound, ReservedIsReserved, IInv, [Next]_vars
  PROVE  [Pool!Next]_<<cache, [t \in Thread |-> Has(t)]>>
<1> DEFINE P == [Pool!Next]_<<cache, [t \in Thread |-> Has(t)]>>
<1> USE DEF IInv, TypeOK
<1>1. ASSUME NEW t \in Thread, ScanSet(t) PROVE P
  <2>0. blk[t] = 0 /\ Probe(t) = nr[t] /\ nr[t] \in Index /\ nr[t] # NotFound
    BY <1>1, FirstBlockBits, Words, BitmapAssumption DEF ScanSet, Goto, Places2, Probe
  <2>1. Has(t)' = Has(t) \cup {nr[t]}
    BY <1>1, <2>0, BitmapAssumption DEF ScanSet, Goto, Has, InFlight
  <2>2. \A u \in Thread \ {t} : Has(u)' = Has(u)
    BY <1>1 DEF ScanSet, Goto, Has, InFlight
  <2>3. Pool!Take(t, nr[t])
    BY <1>1, <2>0, <2>1, <2>2 DEF ScanSet, Pool!Take
  <2> QED BY <2>0, <2>3 DEF Pool!Next
<1>2. ASSUME NEW t \in Thread, PutClear(t) PROVE P
  <2>0. res[t] \in own[t] /\ res[t] \in Index
    BY <1>2 DEF PutClear, Goto, Places2
  <2>1. Has(t)' = Has(t) \ {res[t]}
    BY <1>2, <2>0 DEF PutClear, Goto, Has, InFlight
  <2>2. \A u \in Thread \ {t} : Has(u)' = Has(u)
    BY <1>2 DEF PutClear, Goto, Has, InFlight
  <2>3. Pool!Give(t, res[t])
    BY <1>2, <2>0, <2>1, <2>2 DEF PutClear, Pool!Give, Has
  <2> QED BY <2>0, <2>3 DEF Pool!Next
<1>3. ASSUME NEW t \in Thread, GetReturn(t) PROVE P
  BY <1>3, ReturnKeeps, PoolStutter DEF GetReturn, Goto
<1>4. ASSUME NEW t \in Thread, GetMarkReturn(t) PROVE P
  BY <1>4, ReturnKeeps, PoolStutter DEF GetMarkReturn, Goto
<1>5. ASSUME NEW t \in Thread, GetBreadFails(t) PROVE P
  <2>1. own' = own
    BY <1>5 DEF GetBreadFails, Given, Sound
  <2>2. \A u \in Thread : Has(u)' = Has(u)
    BY <1>5, <2>1 DEF GetBreadFails, Goto, Has, InFlight
  <2> QED BY <1>5, <2>2, PoolStutter DEF GetBreadFails
<1>6. ASSUME NEW b \in Block, Reclaim(b) PROVE P
  <2>1. \A u \in Thread : ~Changing(u, b)
    BY <1>6 DEF Reclaim, Holds, Changing, Sound, Places2
  <2>2. cache' = cache
    BY <1>6, <2>1 DEF Reclaim, CleanSame
  <2>3. \A u \in Thread : Has(u)' = Has(u)
    BY <1>6 DEF Reclaim, Has, InFlight
  <2> QED BY <2>2, <2>3, PoolStutter
<1>7. ASSUME NEW t \in Thread, ScanEnd(t) PROVE P
  <2>1. \A u \in Thread : Has(u)' = Has(u)
    BY <1>7 DEF ScanEnd, Goto, Has, InFlight
  <2> QED BY <1>7, <2>1, PoolStutter DEF ScanEnd
<1>8. ASSUME NEW t \in Thread,
             GetCall(t) \/ GetBread(t) \/ ScanNext(t) \/ GetMark(t)
               \/ GetRelease(t) \/ PutReturn(t)
      PROVE  P
  <2>1. \A u \in Thread : Has(u)' = Has(u)
    BY <1>8 DEF GetCall, GetBread, ScanNext, GetMark, GetRelease, PutReturn,
                Goto, Has, InFlight
  <2> QED BY <1>8, <2>1, PoolStutter
          DEF GetCall, GetBread, ScanNext, GetMark, GetRelease, PutReturn
<1>9. ASSUME NEW t \in Thread, NEW i \in own[t], PutCall(t, i) \/ PutBreadFails(t, i)
      PROVE  P
  <2>1. \A u \in Thread : Has(u)' = Has(u)
    BY <1>9 DEF PutCall, PutBreadFails, Goto, Has, InFlight
  <2> QED BY <1>9, <2>1, PoolStutter DEF PutCall, PutBreadFails
<1>10. ASSUME NEW b \in Block, WriteBack(b) PROVE P
  <2>1. \A u \in Thread : Has(u)' = Has(u)
    BY <1>10 DEF WriteBack, Has, InFlight
  <2> QED BY <1>10, <2>1, PoolStutter DEF WriteBack
<1>11. ASSUME UNCHANGED vars PROVE P
  <2>1. \A u \in Thread : Has(u)' = Has(u)
    BY <1>11 DEF vars, Has, InFlight
  <2> QED BY <1>11, <2>1, PoolStutter DEF vars
<1> HIDE DEF P, IInv, TypeOK
<1>12. ASSUME NEW t \in Thread, Step(t) \/ Call(t) PROVE P
  BY <1>1, <1>2, <1>3, <1>4, <1>5, <1>7, <1>8, <1>9, <1>12 DEF Step, Call
<1>13. ASSUME Next PROVE P
  BY <1>6, <1>10, <1>12, <1>13 DEF Next
<1> QED BY <1>11, <1>13 DEF P

\* The bit-by-bit allocators implement the atomic pool: test_and_set_bit()
\* takes a number and test_and_clear_bit() gives it back.
THEOREM ImplementsPool ==
  ASSUME Sound, ReservedIsReserved
  PROVE  Spec => PoolSpec
<1>1. IInv /\ [Next]_vars => [Pool!Next]_<<cache, [t \in Thread |-> Has(t)]>>
  BY PoolStep
<1> QED BY <1>1, PoolInit, IInvInit, IInvStep, PTL DEF Spec, PoolSpec, Pool!Spec
===============================================================================
