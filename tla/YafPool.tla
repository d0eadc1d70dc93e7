------------------------------- MODULE YafPool -------------------------------
(***************************************************************************)
(* What a bitmap promises to the rest of the driver: a pool of numbers,    *)
(* each taken by at most one caller at a time.  Taking and giving back     *)
(* are single steps here; YafBitmap shows the bit-by-bit code behind them. *)
(***************************************************************************)
CONSTANTS Thread,     \* the kernel threads that call the allocator
          Index,      \* the numbers in the pool
          Preset      \* the numbers mkfs marks as used and nobody owns

VARIABLES used,       \* the numbers that are marked as used
          own         \* own[t]: the numbers thread t was given

Init == /\ used = Preset
        /\ own = [t \in Thread |-> {}]

\* Thread t is given a number that nobody uses.
Take(t, i) == /\ i \in Index \ used
              /\ used' = used \cup {i}
              /\ own' = [own EXCEPT ![t] = own[t] \cup {i}]

\* Thread t gives back a number it owns.
Give(t, i) == /\ i \in own[t]
              /\ used' = used \ {i}
              /\ own' = [own EXCEPT ![t] = own[t] \ {i}]

Next == \E t \in Thread, i \in Index : Take(t, i) \/ Give(t, i)

Spec == Init /\ [][Next]_<<used, own>>
==============================================================================
