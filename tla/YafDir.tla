------------------------------- MODULE YafDir --------------------------------
(***************************************************************************)
(* Reading a directory: yaf_iterate_shared of driver/dir.c, called by      *)
(* getdents() again and again, between calls that make and remove entries. *)
(*                                                                         *)
(* The VFS (external) holds i_rwsem of the directory shared in getdents()  *)
(* and exclusively in create and unlink, so each of them is one step.      *)
(* Offsets are counted in dentries: ctx->pos is 2 plus a multiple of       *)
(* YAF_DENTRY_SIZE once the dots are out, and is here 2 plus its quotient. *)
(***************************************************************************)
EXTENDS Integers, FiniteSets, FiniteSetsExt

CONSTANTS
  Names,             \* file names
  NoName,            \* the d_name of an unused dentry
  NameLen,             \* NameLen[n]: room a name takes in the user's buffer
  Rooms,             \* sizes of the user's buffer; a dot takes 1
  DENTRYS_PER_BLOCK,
  MAX_DENTRYS,
  Env                \* "create", "delete", "eio", "signal": see the actions

ASSUME DirAssumption ==
  /\ Names # {} /\ NoName \notin Names
  /\ NameLen \in [Names -> Nat \ {0}]
  /\ Rooms \subseteq Nat \ {0}
  /\ DENTRYS_PER_BLOCK \in Nat \ {0}
  /\ MAX_DENTRYS \in Nat

VARIABLES
  slots,     \* slots[k]: the name in dentry k, also of dentries past size
  size,      \* i_size
  bad,       \* blocks of the directory that sb_bread() cannot read
  pos,       \* ctx->pos of the reader
  res,       \* what getdents() returned last: "none" before the first call
  seen,      \* seen[n]: how often n was reported since open; 2 is two or more
  stable,    \* names that were there at open and ever since
  lost       \* what went wrong while reading: "refused" by dir_emit(),
             \* "midblock", "eio"

vars == <<slots, size, bad, pos, res, seen, stable, lost>>
dir  == <<slots, size, bad>>

Slot == 0 .. MAX_DENTRYS - 1
BlockOf(k) == k \div DENTRYS_PER_BLOCK
Entries == {slots[k] : k \in 0 .. size - 1} \ {NoName}

\* A new directory; its blocks will show old contents where nobody wrote.
Init ==
  /\ slots = [k \in Slot |-> CHOOSE n \in Names : TRUE]
  /\ size = 0
  /\ bad = {}
  /\ pos = 0
  /\ res = "end"
  /\ seen = [n \in Names |-> 0]
  /\ stable = {}
  /\ lost = {}

-----------------------------------------------------------------------------
(* One call of yaf_iterate_shared().                                       *)

\* dir_emit_dots(): how many of the two it emits into the user's buffer.
Dots(room) == Min({2 - Min({pos, 2}), room})

\* doff of the first dentry the loop looks at.
Start == Max({pos, 2}) - 2

\* doff at the first block the loop cannot read, or i_size.
Stop == Min({size} \cup {k \in Start .. size - 1 : BlockOf(k) \in bad})

\* Wrong: the inner loop ends with the block only.
Visited_Blocks == IF Start = Stop THEN {}
                  ELSE Start .. (BlockOf(Stop - 1) + 1) * DENTRYS_PER_BLOCK - 1

\* The values of doff in the two loops.
Visited == Start .. Stop - 1

\* The dentry yd points to while doff is k: in the first block it starts from
\* the block's first dentry, wherever doff is.
EntryAt(k) == IF BlockOf(k) = BlockOf(Start)
              THEN slots[k - (Start % DENTRYS_PER_BLOCK)] ELSE slots[k]

\* The visited entries that fit into the user's buffer: when dir_emit() returns
\* false the loop goes on, and a shorter name may fit after a longer one.
Used == {k \in Visited : EntryAt(k) # NoName}
Emitted(room) ==
  LET left[k \in Visited \cup {Stop}] ==      \* the room left at k
        IF k = Start THEN room
        ELSE LET l == left[k - 1]
                 n == EntryAt(k - 1)
             IN  IF n # NoName /\ NameLen[n] <= l THEN l - NameLen[n] ELSE l
  IN  {k \in Used : NameLen[EntryAt(k)] <= left[k]}

\* The ones that dir_emit() takes: once something is in the buffer it takes
\* nothing more while a signal is pending ("signal"), which may come at any k.
Taken(room) ==
  LET fit == Emitted(room - Dots(room))
  IN  {fit} \cup {t \in {{j \in fit : j < k} : k \in Visited} :
                   "signal" \in Env /\ (Dots(room) > 0 \/ t # {})}

\* Wrong: doff without the two dots, doff also after an error, no update, the
\* end of the last block.
NextPos_NoDots == IF Stop < size THEN Max({pos, 2}) ELSE Max({size, 2})
NextPos_Always == size + 2
NextPos_Kept   == Max({pos, 2})
NextPos_Blocks == 2 + (BlockOf(size) + 1) * DENTRYS_PER_BLOCK

\* An I/O error leaves ctx->pos where the dots left it.
NextPos == IF Stop < size THEN Max({pos, 2}) ELSE size + 2

\* getdents() while the dots do not fit, or a signal comes between them: the
\* directory is not looked at.
ReadDots(room) ==
  /\ res \in {"none", "some"}
  /\ \E n \in {Dots(room)} \cup {k \in {1} : "signal" \in Env /\ k < Dots(room)} :
       /\ pos + n < 2
       /\ pos' = pos + n
  /\ res' = "some"
  /\ UNCHANGED <<dir, seen, stable, lost>>

\* getdents(): what was emitted is returned even if yaf_iterate_shared() then
\* failed; nothing emitted means an error or the end.
Read(room, out) ==
  /\ res \in {"none", "some"}
  /\ pos + Dots(room) >= 2
  /\ out \in Taken(room)
  /\ LET refused == out # Used IN
       /\ seen' = [n \in Names |->
                     Min({2, seen[n] + Cardinality({k \in out : EntryAt(k) = n})})]
       /\ res' = IF Dots(room) > 0 \/ out # {} THEN "some"
                 ELSE IF refused \/ Stop < size THEN "error" ELSE "end"
       /\ lost' = lost \cup (IF refused THEN {"refused"} ELSE {})
                       \cup (IF Stop < size THEN {"eio"} ELSE {})
                       \cup (IF Start < Stop /\ Start % DENTRYS_PER_BLOCK # 0
                             THEN {"midblock"} ELSE {})
  /\ pos' = NextPos
  /\ UNCHANGED <<dir, stable>>

-----------------------------------------------------------------------------
(* What happens between two calls.                                         *)

\* open() of the directory; a descriptor cannot be rewound, as yaf_dir_ops
\* has no llseek.
Open ==
  /\ res \in {"end", "error"}
  /\ pos' = 0
  /\ res' = "none"
  /\ seen' = [n \in Names |-> 0]
  /\ stable' = Entries
  /\ lost' = {}
  /\ UNCHANGED dir

\* yaf_get_free_dentry(): the first unused dentry, or one more at the end.
FreeSlot == Min({k \in 0 .. size - 1 : slots[k] = NoName} \cup {size})

Create(n) ==
  /\ "create" \in Env
  /\ n \notin Entries
  /\ FreeSlot < MAX_DENTRYS
  /\ slots' = [slots EXCEPT ![FreeSlot] = n]
  /\ size' = Max({size, FreeSlot + 1})
  /\ UNCHANGED <<bad, pos, res, seen, stable, lost>>

\* yaf_delete(): the dentry becomes unused, and i_size stays.
Delete(n) ==
  /\ "delete" \in Env
  /\ n \in Entries
  /\ LET k == Min({j \in 0 .. size - 1 : slots[j] = n}) IN
       slots' = [slots EXCEPT ![k] = NoName]
  /\ stable' = stable \ {n}
  /\ UNCHANGED <<size, bad, pos, res, seen, lost>>

\* A block of the device goes bad, or can be read again.
Fault(b) ==
  /\ "eio" \in Env
  /\ bad' = SymDiff(bad, {b})
  /\ UNCHANGED <<slots, size, pos, res, seen, stable, lost>>

Getdents == \E room \in Rooms :
              ReadDots(room) \/ \E out \in Taken(room) : Read(room, out)

Next ==
  \/ Getdents \/ Open
  \/ \E n \in Names : Create(n) \/ Delete(n)
  \/ \E b \in {BlockOf(k) : k \in Slot} : Fault(b)

Spec == Init /\ [][Next]_vars

\* Who reads a directory calls getdents() until it returns nothing.
FairSpec == Spec /\ WF_vars(Getdents)

-----------------------------------------------------------------------------
(* Properties. *)

TypeOK ==
  /\ slots \in [Slot -> Names \cup {NoName}]
  /\ size \in 0 .. MAX_DENTRYS
  /\ bad \subseteq {BlockOf(k) : k \in Slot}
  /\ pos \in 0 .. size + 2
  /\ res \in {"none", "some", "end", "error"}
  /\ seen \in [Names -> 0 .. 2]
  /\ stable \subseteq Names
  /\ lost \subseteq {"refused", "midblock", "eio"}

\* Whatever is made, removed or fails in between, a reading that came to its
\* end reported every entry that was there all the time, unless dir_emit()
\* refused a name for want of room or for a signal (dir.c:61 goes on past it).
NoneMissed ==
  res = "end" /\ "refused" \notin lost => \A n \in stable : seen[n] > 0

\* An entry that was there all the time is not reported twice, unless a call
\* was repeated after an I/O error (dir.c:53 keeps ctx->pos) or resumed in the
\* middle of a block (dir.c:56).
NoneTwice ==
  lost \cap {"eio", "midblock"} = {} => \A n \in stable : seen[n] <= 1

\* What is reported is in the directory at that time: neither old contents of
\* a block beyond i_size nor removed entries are shown.
NoGhost == [][\A n \in Names : seen'[n] > seen[n] => n \in Entries]_vars

\* "Iterate over the files contained in dir and commit them to @ctx"
\* (dir.c:12): a file that is there all the time is listed once.
EachOnce == /\ \A n \in stable : seen[n] <= 1
            /\ res = "end" => \A n \in stable : seen[n] = 1

\* A reading ends though entries come and go all the time, unless the device
\* keeps failing.
ReadEnds == <>[](bad = {}) => [](res = "none" => <>(res \in {"end", "error"}))
==============================================================================
