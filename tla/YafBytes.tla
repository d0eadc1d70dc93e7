------------------------------ MODULE YafBytes -------------------------------
(***************************************************************************)
(* What a regular file promises: a string of cells that only write() and   *)
(* truncate() change.  A gap that either leaves reads as zeros.            *)
(***************************************************************************)
EXTENDS Integers

CONSTANTS Data,     \* what users write
          Zero,
          MaxSize   \* the most cells a file can have

VARIABLE bytes      \* bytes[c] for 0 <= c < the size of the file

SizeOf(f) == CHOOSE n \in 0 .. MaxSize : DOMAIN f = 0 .. n - 1

\* f with size n, cut off or extended by zeros.
Resized(f, n) == [c \in 0 .. n - 1 |-> IF c \in DOMAIN f THEN f[c] ELSE Zero]

Init == bytes = [c \in {} |-> Zero]

\* The cells from pos up to end become v; a short write changes fewer.
Write(pos, end, v) ==
  LET n == IF end > SizeOf(bytes) THEN end ELSE SizeOf(bytes) IN
  bytes' = [c \in 0 .. n - 1 |->
              IF pos <= c /\ c < end THEN v ELSE Resized(bytes, n)[c]]

Truncate(n) == bytes' = Resized(bytes, n)

Next == \/ \E pos \in 0 .. MaxSize - 1, end \in 1 .. MaxSize, v \in Data :
             pos < end /\ Write(pos, end, v)
        \/ \E n \in 0 .. MaxSize : Truncate(n)

Spec == Init /\ [][Next]_bytes
==============================================================================
