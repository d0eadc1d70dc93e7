------------------------------- MODULE YafTree -------------------------------
(***************************************************************************)
(* What the namespace promises: a tree of directories and files, in which  *)
(* making and removing an entry are single steps, and which nothing else   *)
(* (writeback, eviction, unmounting and mounting again) changes.           *)
(***************************************************************************)
CONSTANTS Ino,        \* inode numbers
          Names,      \* file names
          RESERVED,   \* the inode number that stands for "no entry"
          ROOT        \* the inode number of the root directory

VARIABLES kind,       \* kind[i]: "free", "file" or "dir"
          ent         \* ent[d][n]: the inode called n in directory d

NoEntries == [n \in Names |-> RESERVED]

Init == /\ kind = [i \in Ino |-> IF i = ROOT THEN "dir" ELSE "free"]
        /\ ent = [i \in Ino |-> NoEntries]

\* An unused inode becomes the new and empty file or directory n of d.
Make(d, n, i, k) ==
  /\ kind[d] = "dir"
  /\ ent[d][n] = RESERVED
  /\ i # RESERVED
  /\ kind[i] = "free"
  /\ kind' = [kind EXCEPT ![i] = k]
  /\ ent' = [ent EXCEPT ![d][n] = i]

\* A file or an empty directory goes away, and its inode is unused again.
Remove(d, n) ==
  /\ kind[d] = "dir"
  /\ ent[d][n] # RESERVED
  /\ ent[ent[d][n]] = NoEntries
  /\ kind' = [kind EXCEPT ![ent[d][n]] = "free"]
  /\ ent' = [ent EXCEPT ![d][n] = RESERVED]

\* The first conjunct holds of every step; it spares TLC the others.
Next == /\ kind' # kind
        /\ \E d \in Ino, n \in Names :
             \/ \E i \in Ino, k \in {"file", "dir"} : Make(d, n, i, k)
             \/ Remove(d, n)

Spec == Init /\ [][Next]_<<kind, ent>>
==============================================================================
