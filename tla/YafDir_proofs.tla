---------------------------- MODULE YafDir_proofs ----------------------------
(***************************************************************************)
(* Proofs about YafDir: for any names, buffers and blocks, and however     *)
(* reading is interleaved with changes, errors and signals.                *)
(***************************************************************************)
EXTENDS YafDir, YafNumbers, FiniteSetTheorems

\* A name has one entry.
OneEach == \A j, k \in 0 .. size - 1 :
             slots[j] = slots[k] /\ slots[j] # NoName => j = k

\* Once ctx->pos is past the dots a call has come to the end of the directory:
\* who was there at open is behind ctx->pos and was reported.  Before that
\* nothing was reported, unless a call failed.
DirInv ==
  /\ TypeOK
  /\ OneEach
  /\ stable \subseteq Entries
  /\ pos > 2 => \A k \in 0 .. size - 1 : slots[k] \in stable => k < pos - 2
  /\ pos > 2 /\ "refused" \notin lost => \A n \in stable : seen[n] > 0
  /\ pos <= 2 /\ lost \cap {"eio", "midblock"} = {} => \A n \in stable : seen[n] = 0
  /\ res = "end" => pos > 2 \/ stable = {}
  /\ NoneTwice

-----------------------------------------------------------------------------
(* The loop of yaf_iterate_shared(). *)

\* What a call with the type invariant looks at: dentries from Start up to Stop,
\* all within i_size.
LEMMA StartStop ==
  ASSUME TypeOK
  PROVE  /\ size \in Nat /\ pos \in Nat /\ 0 .. size - 1 \subseteq Slot
         /\ Start \in 0 .. size
         /\ pos <= 2 => Start = 0
         /\ pos > 2 => Start = pos - 2
         /\ Max({pos, 2}) = Start + 2
         /\ Stop \in Start .. size
         /\ Visited \subseteq 0 .. size - 1
<1>1. /\ size \in Nat /\ pos \in 0 .. size + 2 /\ 0 .. size - 1 \subseteq Slot
  BY DirAssumption DEF TypeOK, Slot
<1>2. Max({pos, 2}) = IF pos >= 2 THEN pos ELSE 2
  BY <1>1, MaxPair
<1>3. /\ Start \in 0 .. size
      /\ pos <= 2 => Start = 0
      /\ pos > 2 => Start = pos - 2
      /\ Max({pos, 2}) = Start + 2
  BY <1>1, <1>2 DEF Start
<1>4. Stop \in Start .. size
  <2> DEFINE S == {size} \cup {k \in Start .. size - 1 : BlockOf(k) \in bad}
  <2>1. S \in SUBSET Nat /\ S # {} /\ S \subseteq Start .. size
    BY <1>1, <1>3
  <2> HIDE DEF S
  <2>2. Min(S) \in S   BY <2>1, MinIn
  <2> QED  BY <2>1, <2>2 DEF Stop, S
<1> QED  BY <1>1, <1>3, <1>4 DEF Visited

\* Every dentry it looks at is one of the directory's, and the right one if it
\* starts with a block.
LEMMA VisitedEntry ==
  ASSUME TypeOK, NEW k \in Visited
  PROVE  /\ \E j \in 0 .. size - 1 : EntryAt(k) = slots[j]
         /\ Start % DENTRYS_PER_BLOCK = 0 => EntryAt(k) = slots[k]
<1>1. /\ size \in Nat /\ Start \in 0 .. size /\ k \in Start .. size - 1
      /\ Start \in Nat
  BY StartStop DEF Visited
<1>2. /\ Start % DENTRYS_PER_BLOCK \in Nat
      /\ Start % DENTRYS_PER_BLOCK <= Start
  <2> DEFINE q == DENTRYS_PER_BLOCK * (Start \div DENTRYS_PER_BLOCK)
  <2>1. /\ q \in Nat /\ q <= Start
        /\ Start % DENTRYS_PER_BLOCK = Start - q
    BY <1>1, Quotient, DirAssumption
  <2> HIDE DEF q
  <2> QED  BY <1>1, <2>1
<1> DEFINE o == Start % DENTRYS_PER_BLOCK
<1> HIDE DEF o
<1>3. k - o \in 0 .. size - 1 /\ k \in 0 .. size - 1 /\ (o = 0 => k - o = k)
  BY <1>1, <1>2 DEF o
<1>4. EntryAt(k) = slots[k - o] \/ EntryAt(k) = slots[k]
  BY DEF EntryAt, o
<1> QED  BY <1>3, <1>4 DEF o

\* Numbers of dentries: none, at most one, at least one.
LEMMA Count ==
  ASSUME NEW n \in Nat, NEW S \in SUBSET (0 .. n - 1)
  PROVE  /\ Cardinality(S) \in Nat
         /\ Cardinality(S) > 0 <=> S # {}
         /\ (\A x, y \in S : x = y) => Cardinality(S) <= 1
<1>1. IsFiniteSet(0 .. n - 1)   BY FS_Interval
<1>2. IsFiniteSet(S)   BY <1>1, FS_Subset
<1>3. Cardinality(S) \in Nat   BY <1>2, FS_CardinalityType
<1>4. Cardinality(S) = 0 <=> S = {}   BY <1>2, FS_EmptySet
<1>5. ASSUME \A x, y \in S : x = y, S # {} PROVE Cardinality(S) = 1
  <2>1. PICK x \in S : TRUE   BY <1>5
  <2>2. S = {x}   BY <1>5, <2>1
  <2> QED  BY <2>2, FS_Singleton
<1> QED  BY <1>3, <1>4, <1>5

\* The dentries that a call reports under a name.
Hits(out, n) == {k \in out : EntryAt(k) = n}

LEMMA TakenUsed ==
  ASSUME NEW room, NEW out \in Taken(room) PROVE out \subseteq Used
<1>1. \A x : Emitted(x) \subseteq Used   BY DEF Emitted
<1>2. out \subseteq Emitted(room - Dots(room))   BY DEF Taken
<1> QED  BY <1>1, <1>2

LEMMA HitsOf ==
  ASSUME TypeOK, NEW out \in SUBSET Used, NEW n \in Names
  PROVE  /\ Hits(out, n) \subseteq Visited
         /\ \A k \in Hits(out, n) : EntryAt(k) = n
         /\ Cardinality(Hits(out, n)) \in Nat
         /\ Cardinality(Hits(out, n)) > 0 <=> Hits(out, n) # {}
         /\ (\A x, y \in Hits(out, n) : x = y) => Cardinality(Hits(out, n)) <= 1
<1>1. Hits(out, n) \subseteq Visited /\ \A k \in Hits(out, n) : EntryAt(k) = n
  BY DEF Hits, Used
<1>2. size \in Nat /\ Hits(out, n) \in SUBSET (0 .. size - 1)
  BY <1>1, StartStop
<1> QED  BY <1>1, <1>2, Count

\* What a call does, with the counts it adds.
LEMMA ReadDoes ==
  ASSUME TypeOK, NEW room \in Rooms, NEW out \in SUBSET Used, Read(room, out)
  PROVE  /\ UNCHANGED <<slots, size, bad, stable>>
         /\ \A n \in Names :
              seen'[n] = IF seen[n] + Cardinality(Hits(out, n)) <= 2
                         THEN seen[n] + Cardinality(Hits(out, n)) ELSE 2
         /\ seen' \in [Names -> 0 .. 2]
         /\ lost \subseteq lost' /\ lost' \subseteq lost \cup {"refused", "eio", "midblock"}
         /\ "refused" \notin lost' => out = Used
         /\ Stop < size => "eio" \in lost'
         /\ Start < Stop /\ Start % DENTRYS_PER_BLOCK # 0 => "midblock" \in lost'
         /\ pos' = IF Stop < size THEN Start + 2 ELSE size + 2
         /\ res' \in {"some", "error", "end"}
         /\ res' = "end" => ~(Stop < size)
<1>1. seen' = [n \in Names |-> Min({2, seen[n] + Cardinality(Hits(out, n))})]
  BY DEF Read, Hits
<1>2. ASSUME NEW n \in Names
      PROVE  /\ seen[n] \in 0 .. 2 /\ Cardinality(Hits(out, n)) \in Nat
             /\ seen'[n] = IF seen[n] + Cardinality(Hits(out, n)) <= 2
                           THEN seen[n] + Cardinality(Hits(out, n)) ELSE 2
  <2> DEFINE c == Cardinality(Hits(out, n))
  <2>1. seen[n] \in 0 .. 2 /\ c \in Nat
    BY HitsOf DEF TypeOK
  <2>2. seen'[n] = Min({2, seen[n] + c})   BY <1>1
  <2> HIDE DEF c
  <2>3. Min({2, seen[n] + c}) = IF 2 <= seen[n] + c THEN 2 ELSE seen[n] + c
    BY <2>1, MinPair
  <2>4. seen'[n] = IF seen[n] + c <= 2 THEN seen[n] + c ELSE 2
    BY <2>1, <2>2, <2>3
  <2> QED  BY <2>1, <2>4 DEF c
<1>3. seen' \in [Names -> 0 .. 2]
  <2>1. \A n \in Names : seen'[n] \in 0 .. 2   BY <1>2
  <2>2. seen' = [n \in Names |-> seen'[n]]   BY <1>1
  <2> QED  BY <2>1, <2>2
<1>4. /\ lost' = lost
            \cup (IF out # Used THEN {"refused"} ELSE {})
            \cup (IF Stop < size THEN {"eio"} ELSE {})
            \cup (IF Start < Stop /\ Start % DENTRYS_PER_BLOCK # 0
                  THEN {"midblock"} ELSE {})
      /\ res' = IF Dots(room) > 0 \/ out # {} THEN "some"
                ELSE IF out # Used \/ Stop < size
                     THEN "error" ELSE "end"
      /\ pos' = NextPos
      /\ UNCHANGED <<slots, size, bad, stable>>
  BY DEF Read, dir
<1>5. pos' = IF Stop < size THEN Start + 2 ELSE size + 2
  BY <1>4, StartStop DEF NextPos
<1> QED  BY <1>2, <1>3, <1>4, <1>5

\* The dots: none once ctx->pos is past them.
LEMMA DotsOf ==
  ASSUME TypeOK, NEW room \in Rooms, ReadDots(room)
  PROVE  /\ pos' \in 0 .. 1 /\ pos < 2 /\ res' = "some"
         /\ UNCHANGED <<slots, size, bad, seen, stable, lost>>
<1>1. pos \in Nat /\ room \in Nat   BY StartStop, DirAssumption
<1>2. /\ Min({pos, 2}) = IF pos <= 2 THEN pos ELSE 2
      /\ Min({2 - Min({pos, 2}), room}) \in Nat
  <2>1. Min({pos, 2}) = IF pos <= 2 THEN pos ELSE 2   BY <1>1, MinPair
  <2> DEFINE d == 2 - Min({pos, 2})
  <2>2. d \in Nat   BY <1>1, <2>1
  <2> HIDE DEF d
  <2>3. Min({d, room}) = IF d <= room THEN d ELSE room   BY <1>1, <2>2, MinPair
  <2> QED  BY <1>1, <2>1, <2>2, <2>3 DEF d
<1> QED  BY <1>1, <1>2 DEF ReadDots, Dots, dir

\* yaf_get_free_dentry().
LEMMA FreeSlotOf ==
  ASSUME TypeOK
  PROVE  /\ FreeSlot \in 0 .. size
         /\ FreeSlot < size => slots[FreeSlot] = NoName
<1> DEFINE S == {k \in 0 .. size - 1 : slots[k] = NoName} \cup {size}
<1>1. size \in Nat   BY StartStop
<1>2. S \in SUBSET Nat /\ S # {}   BY <1>1
<1> HIDE DEF S
<1>3. Min(S) \in S   BY <1>2, MinIn
<1> QED  BY <1>1, <1>3 DEF FreeSlot, S

-----------------------------------------------------------------------------
(* The invariant. *)

LEMMA DirInit_Inv == Init => DirInv
<1> SUFFICES ASSUME Init PROVE DirInv   OBVIOUS
<1>1. (CHOOSE n \in Names : TRUE) \in Names   BY DirAssumption
<1>2. size = 0 /\ 0 .. size - 1 = {} /\ stable = {} /\ pos = 0   BY DEF Init
<1>3. TypeOK   BY <1>1, DirAssumption DEF Init, TypeOK
<1> QED  BY <1>2, <1>3 DEF DirInv, OneEach, NoneTwice

LEMMA ReadDots_Inv ==
  ASSUME DirInv, NEW room \in Rooms, ReadDots(room) PROVE DirInv'
<1>1. TypeOK   BY DEF DirInv
<1>2. /\ pos' \in 0 .. 1 /\ pos < 2 /\ res' = "some" /\ size \in Nat /\ pos \in Nat
      /\ UNCHANGED <<slots, size, bad, seen, stable, lost>>
  BY <1>1, DotsOf, StartStop
<1>3. TypeOK'   BY <1>1, <1>2 DEF TypeOK
<1>4. pos <= 2 /\ ~(pos' > 2)   BY <1>2
<1> QED  BY <1>2, <1>3, <1>4 DEF DirInv, OneEach, Entries, NoneTwice

\* An entry that was there at open is behind ctx->pos, where no call looks that
\* starts with a block, or is about to be reported for the first time.
LEMMA Read_Inv ==
  ASSUME DirInv, NEW room \in Rooms, NEW out \in SUBSET Used, Read(room, out)
  PROVE  DirInv'
<1> DEFINE c(n) == Cardinality(Hits(out, n))
<1>1. TypeOK   BY DEF DirInv
<1>2. /\ size \in Nat /\ pos \in Nat
      /\ Start \in 0 .. size /\ Stop \in Start .. size
      /\ pos <= 2 => Start = 0
      /\ pos > 2 => Start = pos - 2
      /\ Visited \subseteq 0 .. size - 1
  BY <1>1, StartStop
<1>3. /\ UNCHANGED <<slots, size, bad, stable>>
      /\ \A n \in Names : seen'[n] = IF seen[n] + c(n) <= 2 THEN seen[n] + c(n) ELSE 2
      /\ seen' \in [Names -> 0 .. 2]
      /\ lost \subseteq lost' /\ lost' \subseteq lost \cup {"refused", "eio", "midblock"}
      /\ "refused" \notin lost' => out = Used
      /\ Stop < size => "eio" \in lost'
      /\ Start < Stop /\ Start % DENTRYS_PER_BLOCK # 0 => "midblock" \in lost'
      /\ pos' = IF Stop < size THEN Start + 2 ELSE size + 2
      /\ res' \in {"some", "error", "end"}
      /\ res' = "end" => ~(Stop < size)
  BY <1>1, ReadDoes
<1>4. \A n \in Names : c(n) \in Nat /\ seen[n] \in 0 .. 2
  BY <1>1, HitsOf DEF TypeOK
<1> HIDE DEF c
<1>5. TypeOK'
  <2>1. pos' \in 0 .. size + 2   BY <1>2, <1>3
  <2>2. lost' \subseteq {"refused", "midblock", "eio"}   BY <1>1, <1>3 DEF TypeOK
  <2> QED  BY <1>1, <1>3, <2>1, <2>2 DEF TypeOK
<1>6. OneEach' /\ (stable \subseteq Entries)' /\ Entries' = Entries
  BY <1>3 DEF DirInv, OneEach, Entries
<1>7. stable \subseteq Names /\ stable \subseteq Entries /\ stable' = stable
  BY <1>1, <1>3 DEF DirInv, TypeOK

\* Entries that stay are found at a dentry of their own.
<1>8. ASSUME NEW n \in stable
      PROVE  \E k \in 0 .. size - 1 : slots[k] = n
  BY <1>7 DEF Entries

\* The first call that comes to the end ...
<1>9. ASSUME pos <= 2, ~(Stop < size), NEW n \in stable
      PROVE  "refused" \notin lost' => c(n) > 0
  <2>1. PICK k \in 0 .. size - 1 : slots[k] = n   BY <1>8, <1>9
  <2>2. k \in Visited   BY <1>2, <1>9, <2>1 DEF Visited
  <2>3. Start % DENTRYS_PER_BLOCK = 0   BY <1>2, <1>9, DirAssumption
  <2>4. EntryAt(k) = n   BY <1>1, <2>1, <2>2, <2>3, VisitedEntry
  <2>5. n # NoName /\ n \in Names   BY <1>7, DirAssumption
  <2>6. k \in Used   BY <2>2, <2>4, <2>5 DEF Used
  <2>7. "refused" \notin lost' => Hits(out, n) # {}
    BY <1>3, <2>4, <2>6 DEF Hits
  <2> QED  BY <1>1, <2>5, <2>7, HitsOf DEF c

\* ... and any call before it that starts with a block reports one at most once.
<1>10. ASSUME pos <= 2, NEW n \in stable PROVE c(n) <= 1
  <2>1. Start % DENTRYS_PER_BLOCK = 0   BY <1>2, <1>10, DirAssumption
  <2>2. n # NoName /\ n \in Names   BY <1>7, DirAssumption
  <2>3. ASSUME NEW x \in Hits(out, n), NEW y \in Hits(out, n) PROVE x = y
    <3>1. x \in Visited /\ y \in Visited /\ EntryAt(x) = n /\ EntryAt(y) = n
      BY <1>1, <2>2, <2>3, HitsOf
    <3>2. slots[x] = n /\ slots[y] = n   BY <1>1, <2>1, <3>1, VisitedEntry
    <3> QED  BY <1>2, <2>2, <3>1, <3>2 DEF DirInv, OneEach
  <2> QED  BY <1>1, <2>2, <2>3, HitsOf DEF c

\* A later call reports none of them.
<1>11. ASSUME pos > 2, "midblock" \notin lost', NEW n \in stable PROVE c(n) = 0
  <2>1. n # NoName /\ n \in Names   BY <1>7, DirAssumption
  <2>2. ASSUME NEW x \in Hits(out, n) PROVE FALSE
    <3>1. x \in Visited /\ EntryAt(x) = n   BY <1>1, <2>1, <2>2, HitsOf
    <3>2. Start <= x /\ x < Stop /\ x \in 0 .. size - 1   BY <1>2, <3>1 DEF Visited
    <3>3. Start % DENTRYS_PER_BLOCK = 0   BY <1>2, <1>3, <1>11, <3>2
    <3>4. slots[x] = n   BY <1>1, <3>1, <3>3, VisitedEntry
    <3>5. x < pos - 2   BY <1>11, <3>2, <3>4 DEF DirInv
    <3> QED  BY <1>2, <1>11, <3>2, <3>5
  <2> QED  BY <1>1, <1>4, <2>1, <2>2, HitsOf DEF c
<1>12. (pos > 2 => \A k \in 0 .. size - 1 : slots[k] \in stable => k < pos - 2)'
  <2>1. CASE Stop < size
    <3>1. ASSUME pos' > 2 PROVE pos > 2 /\ pos' = pos   BY <1>2, <1>3, <2>1, <3>1
    <3> QED  BY <1>3, <3>1 DEF DirInv
  <2>2. CASE ~(Stop < size)   BY <1>2, <1>3, <2>2
  <2> QED  BY <2>1, <2>2
<1>13. (pos > 2 /\ "refused" \notin lost => \A n \in stable : seen[n] > 0)'
  <2> SUFFICES ASSUME pos' > 2, "refused" \notin lost', NEW n \in stable
               PROVE  seen'[n] > 0
    BY <1>7
  <2>1. CASE pos > 2
    <3>1. seen[n] > 0   BY <1>3, <2>1 DEF DirInv
    <3> QED  BY <1>3, <1>4, <1>7, <3>1
  <2>2. CASE pos <= 2
    <3>1. ~(Stop < size)   BY <1>2, <1>3, <2>2
    <3>2. c(n) > 0   BY <1>9, <2>2, <3>1
    <3> QED  BY <1>3, <1>4, <1>7, <3>2
  <2> QED  BY <1>2, <2>1, <2>2
<1>14. (pos <= 2 /\ lost \cap {"eio", "midblock"} = {} => \A n \in stable : seen[n] = 0)'
  <2> SUFFICES ASSUME pos' <= 2, lost' \cap {"eio", "midblock"} = {}, NEW n \in stable
               PROVE  FALSE
    BY <1>7
  <2>1. ~(Stop < size)   BY <1>3
  <2>2. size = 0   BY <1>2, <1>3, <2>1
  <2> QED  BY <1>8, <2>2
<1>15. (res = "end" => pos > 2 \/ stable = {})'
  <2> SUFFICES ASSUME res' = "end", NEW n \in stable PROVE pos' > 2   BY <1>7
  <2>1. size > 0   BY <1>2, <1>8
  <2> QED  BY <1>2, <1>3, <2>1
<1>16. NoneTwice'
  <2> SUFFICES ASSUME lost' \cap {"eio", "midblock"} = {}, NEW n \in stable
               PROVE  seen'[n] <= 1
    BY <1>7 DEF NoneTwice
  <2>1. lost \cap {"eio", "midblock"} = {}   BY <1>3
  <2>2. CASE pos <= 2
    <3>1. seen[n] = 0   BY <2>1, <2>2 DEF DirInv
    <3>2. c(n) <= 1     BY <1>10, <2>2
    <3> QED  BY <1>3, <1>4, <1>7, <3>1, <3>2
  <2>3. CASE pos > 2
    <3>1. seen[n] <= 1   BY <2>1 DEF DirInv, NoneTwice
    <3>2. c(n) = 0       BY <1>11, <2>3
    <3> QED  BY <1>3, <1>4, <1>7, <3>1, <3>2
  <2> QED  BY <1>2, <2>2, <2>3
<1> QED  BY <1>5, <1>6, <1>12, <1>13, <1>14, <1>15, <1>16 DEF DirInv

LEMMA Open_Inv == DirInv /\ Open => DirInv'
<1> SUFFICES ASSUME DirInv, Open PROVE DirInv'   OBVIOUS
<1>1. /\ pos' = 0 /\ res' = "none" /\ seen' = [n \in Names |-> 0] /\ lost' = {}
      /\ stable' = Entries /\ UNCHANGED <<slots, size, bad>>
  BY DEF Open, dir
<1>2. TypeOK /\ size \in Nat /\ 0 .. size - 1 \subseteq Slot
  BY StartStop DEF DirInv
<1>3. Entries \subseteq Names   BY <1>2 DEF TypeOK, Entries
<1>4. TypeOK'   BY <1>1, <1>2, <1>3 DEF TypeOK
<1>5. \A n \in stable' : seen'[n] = 0   BY <1>1, <1>3
<1> QED  BY <1>1, <1>4, <1>5 DEF DirInv, OneEach, Entries, NoneTwice

\* A name that is made was not there at open, and takes a dentry that no name
\* has.
LEMMA Create_Inv ==
  ASSUME DirInv, NEW n \in Names, Create(n) PROVE DirInv'
<1> DEFINE f == FreeSlot
<1>1. TypeOK /\ size \in Nat /\ pos \in Nat /\ 0 .. size - 1 \subseteq Slot
  BY StartStop DEF DirInv
<1>2. f \in 0 .. size /\ (f < size => slots[f] = NoName)
  BY <1>1, FreeSlotOf
<1>3. /\ n \notin Entries /\ f \in Slot
      /\ slots' = [slots EXCEPT ![f] = n]
      /\ size' = Max({size, f + 1})
      /\ UNCHANGED <<bad, pos, res, seen, stable, lost>>
  BY <1>1, <1>2, DirAssumption DEF Create, Slot
<1> HIDE DEF f
<1>4. size' = IF size >= f + 1 THEN size ELSE f + 1   BY <1>1, <1>2, <1>3, MaxPair
<1>5. /\ size' \in Nat /\ size <= size' /\ f \in 0 .. size' - 1
      /\ \A k \in 0 .. size' - 1 : k = f \/ k \in 0 .. size - 1
      /\ 0 .. size - 1 \subseteq 0 .. size' - 1
      /\ size' \in 0 .. MAX_DENTRYS
  <2>1. /\ f \in Nat /\ f <= size /\ f < MAX_DENTRYS
        /\ size <= MAX_DENTRYS /\ MAX_DENTRYS \in Nat
    BY <1>1, <1>2, <1>3, DirAssumption DEF TypeOK, Slot
  <2> QED  BY <1>1, <1>4, <2>1
<1>6. /\ slots'[f] = n
      /\ \A k \in Slot \ {f} : slots'[k] = slots[k]
      /\ slots' \in [Slot -> Names \cup {NoName}]
  BY <1>1, <1>3 DEF TypeOK
<1>7. TypeOK'
  <2>1. pos' \in 0 .. size' + 2   BY <1>1, <1>3, <1>5 DEF TypeOK
  <2> QED  BY <1>1, <1>3, <1>5, <1>6, <2>1 DEF TypeOK
<1>8. ASSUME NEW k \in 0 .. size - 1, slots[k] # NoName
      PROVE  k # f /\ slots'[k] = slots[k] /\ slots[k] # n
  <2>1. k # f   BY <1>1, <1>2, <1>8
  <2>2. slots[k] \in Entries   BY <1>8 DEF Entries
  <2> QED  BY <1>1, <1>3, <1>6, <2>1, <2>2
<1>9. OneEach'
  <2> SUFFICES ASSUME NEW j \in 0 .. size' - 1, NEW k \in 0 .. size' - 1,
                      slots'[j] = slots'[k], slots'[j] # NoName
               PROVE  j = k
    BY DEF OneEach
  <2>1. ASSUME NEW i \in 0 .. size' - 1, i # f, slots'[i] # NoName
        PROVE  i \in 0 .. size - 1 /\ slots'[i] = slots[i] /\ slots'[i] # n
    <3>1. i \in 0 .. size - 1   BY <1>5, <2>1
    <3>2. slots'[i] = slots[i]   BY <1>1, <1>6, <2>1, <3>1
    <3> QED  BY <1>8, <2>1, <3>1, <3>2
  <2> QED  BY <1>6, <2>1 DEF DirInv, OneEach
<1>10. stable \subseteq Entries'
  <2> SUFFICES ASSUME NEW m \in stable PROVE m \in Entries'   OBVIOUS
  <2>1. PICK k \in 0 .. size - 1 : slots[k] = m /\ m # NoName   BY DEF DirInv, Entries
  <2>2. slots'[k] = m /\ k \in 0 .. size' - 1   BY <1>5, <1>8, <2>1
  <2> QED  BY <2>1, <2>2 DEF Entries
<1>11. n \notin stable /\ NoName \notin stable
  BY <1>1, <1>3, DirAssumption DEF DirInv, TypeOK
<1>12. (pos > 2 => \A k \in 0 .. size - 1 : slots[k] \in stable => k < pos - 2)'
  <2> SUFFICES ASSUME pos > 2, NEW k \in 0 .. size' - 1, slots'[k] \in stable
               PROVE  k < pos - 2
    BY <1>3
  <2>1. k # f   BY <1>6, <1>11
  <2>2. k \in 0 .. size - 1   BY <1>5, <2>1
  <2>3. slots'[k] = slots[k]   BY <1>1, <1>6, <2>1, <2>2
  <2> QED  BY <2>2, <2>3 DEF DirInv
<1> QED  BY <1>3, <1>7, <1>9, <1>10, <1>12 DEF DirInv, NoneTwice

\* A name that is removed is not one that was there all the time.
LEMMA Delete_Inv ==
  ASSUME DirInv, NEW n \in Names, Delete(n) PROVE DirInv'
<1> DEFINE S == {j \in 0 .. size - 1 : slots[j] = n}
           d == Min(S)
<1>1. TypeOK /\ size \in Nat /\ pos \in Nat /\ 0 .. size - 1 \subseteq Slot
  BY StartStop DEF DirInv
<1>2. d \in 0 .. size - 1 /\ slots[d] = n
  <2>1. S \in SUBSET Nat /\ S # {}   BY <1>1 DEF Delete, Entries
  <2> HIDE DEF S
  <2>2. d \in S   BY <2>1, MinIn
  <2> QED  BY <2>2 DEF S
<1>3. /\ slots' = [slots EXCEPT ![d] = NoName]
      /\ stable' = stable \ {n}
      /\ UNCHANGED <<size, bad, pos, res, seen, lost>>
  BY DEF Delete
<1> HIDE DEF d
<1>4. /\ slots'[d] = NoName
      /\ \A k \in Slot \ {d} : slots'[k] = slots[k]
      /\ slots' \in [Slot -> Names \cup {NoName}]
  BY <1>1, <1>2, <1>3 DEF TypeOK
<1>5. TypeOK'   BY <1>1, <1>3, <1>4 DEF TypeOK
<1>6. OneEach'  BY <1>1, <1>2, <1>3, <1>4 DEF DirInv, OneEach
<1>7. stable' \subseteq Entries'
  <2> SUFFICES ASSUME NEW m \in stable, m # n PROVE m \in Entries'   BY <1>3
  <2>1. PICK k \in 0 .. size - 1 : slots[k] = m /\ m # NoName   BY DEF DirInv, Entries
  <2>2. slots'[k] = m /\ k \in 0 .. size' - 1   BY <1>1, <1>2, <1>3, <1>4, <2>1
  <2> QED  BY <2>1, <2>2 DEF Entries
<1>8. (pos > 2 => \A k \in 0 .. size - 1 : slots[k] \in stable => k < pos - 2)'
  <2> SUFFICES ASSUME pos > 2, NEW k \in 0 .. size - 1, slots'[k] \in stable'
               PROVE  k < pos - 2
    BY <1>3
  <2>1. NoName \notin stable   BY <1>1, DirAssumption DEF TypeOK
  <2>2. slots'[k] = slots[k] /\ slots[k] \in stable   BY <1>1, <1>3, <1>4, <2>1
  <2> QED  BY <2>2 DEF DirInv
<1> QED  BY <1>3, <1>5, <1>6, <1>7, <1>8 DEF DirInv, NoneTwice

LEMMA Fault_Inv ==
  ASSUME DirInv, NEW b \in {BlockOf(k) : k \in Slot}, Fault(b) PROVE DirInv'
<1>1. UNCHANGED <<slots, size, pos, res, seen, stable, lost>>   BY DEF Fault
<1>2. TypeOK'
  <2>1. bad' \subseteq {BlockOf(k) : k \in Slot}   BY DEF Fault, SymDiff, DirInv, TypeOK
  <2> QED  BY <1>1, <2>1 DEF DirInv, TypeOK
<1> QED  BY <1>1, <1>2 DEF DirInv, OneEach, Entries, NoneTwice

LEMMA DirNext_Inv == DirInv /\ [Next]_vars => DirInv'
<1> SUFFICES ASSUME DirInv, [Next]_vars PROVE DirInv'   OBVIOUS
<1>1. CASE Getdents   BY <1>1, ReadDots_Inv, Read_Inv, TakenUsed DEF Getdents
<1>2. CASE Open       BY <1>2, Open_Inv
<1>3. ASSUME NEW n \in Names, Create(n) \/ Delete(n) PROVE DirInv'
  BY <1>3, Create_Inv, Delete_Inv
<1>4. ASSUME NEW b \in {BlockOf(k) : k \in Slot}, Fault(b) PROVE DirInv'
  BY <1>4, Fault_Inv
<1>5. CASE UNCHANGED vars
  BY <1>5 DEF vars, DirInv, TypeOK, OneEach, Entries, NoneTwice
<1> QED  BY <1>1, <1>2, <1>3, <1>4, <1>5 DEF Next

-----------------------------------------------------------------------------
(* The theorems. *)

\* The invariant that the theorems rest on: the entries that stay are behind
\* ctx->pos, each reported, as soon as ctx->pos has left the dots.
THEOREM DirInvariant == Spec => []DirInv
  BY DirInit_Inv, DirNext_Inv, PTL DEF Spec

\* Types; ctx->pos never passes the end of the directory.
THEOREM DirTypes == Spec => []TypeOK
<1>1. DirInv => TypeOK   BY DEF DirInv
<1> QED  BY <1>1, DirInvariant, PTL

\* yaf_iterate_shared() reports every entry that stays, for any sizes of names,
\* of buffers and of blocks.
THEOREM ReadsMissNone == Spec => []NoneMissed
<1>1. DirInv => NoneMissed   BY DEF DirInv, NoneMissed
<1> QED  BY <1>1, DirInvariant, PTL

\* It reports none of them twice, unless it goes on after an error or from the
\* middle of a block.
THEOREM ReadsRepeatNone == Spec => []NoneTwice
<1>1. DirInv => NoneTwice   BY DEF DirInv
<1> QED  BY <1>1, DirInvariant, PTL

\* Whatever offset it goes on from, it reports names of the directory only, no
\* removed one and nothing from beyond i_size.
THEOREM ReadsShowNoGhost == Spec => NoGhost
<1> DEFINE A == \A n \in Names : seen'[n] > seen[n] => n \in Entries
<1>1. DirInv /\ [Next]_vars => [A]_vars
  <2> SUFFICES ASSUME DirInv, Next, NEW n \in Names, seen'[n] > seen[n]
               PROVE  n \in Entries
    OBVIOUS
  <2>1. TypeOK /\ seen[n] \in 0 .. 2   BY DEF DirInv, TypeOK
  <2>2. seen' # seen /\ ~Open   BY <2>1 DEF Open
  <2>3. PICK room \in Rooms : \E out \in Taken(room) : Read(room, out)
    BY <2>2 DEF Next, Getdents, ReadDots, Create, Delete, Fault
  <2>4. PICK out \in Taken(room) : Read(room, out)   BY <2>3
  <2>5. out \in SUBSET Used   BY TakenUsed
  <2>6. Cardinality(Hits(out, n)) > 0
    <3>1. Cardinality(Hits(out, n)) \in Nat   BY <2>1, <2>5, HitsOf
    <3>2. seen'[n] = IF seen[n] + Cardinality(Hits(out, n)) <= 2
                     THEN seen[n] + Cardinality(Hits(out, n)) ELSE 2
      BY <2>1, <2>4, <2>5, ReadDoes
    <3> QED  BY <2>1, <3>1, <3>2
  <2>7. PICK k \in Visited : EntryAt(k) = n   BY <2>1, <2>6, <2>5, HitsOf
  <2>8. \E j \in 0 .. size - 1 : slots[j] = n   BY <2>1, <2>7, VisitedEntry
  <2> QED  BY <2>8, DirAssumption DEF Entries
<1>2. Spec => [][Next]_vars   BY DEF Spec
<1> QED  BY <1>1, <1>2, DirInvariant, PTL DEF NoGhost
=============================================================================
