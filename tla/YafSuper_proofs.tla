--------------------------- MODULE YafSuper_proofs ---------------------------
(***************************************************************************)
(* Proofs about YafMkfs and YafSuper: for devices of every size, whatever  *)
(* was on them, and whatever fails.                                        *)
(***************************************************************************)
EXTENDS YafSuper, YafLayout_proofs, SequenceTheorems

-----------------------------------------------------------------------------
(* The list of writes of mkfs. *)

Step == [block : Nat, what : Content]

\* One write before a list of them, and one after it.
LEMMA OneBefore ==
  ASSUME NEW S, NEW s \in Seq(S), NEW t \in Seq(S), NEW q \in Nat,
         Len(s) = 1, Len(t) = q
  PROVE  /\ s \o t \in Seq(S)
         /\ Len(s \o t) = q + 1
         /\ (s \o t)[1] = s[1]
         /\ \A k \in 2 .. q + 1 : (s \o t)[k] = t[k - 1]
<1>1. /\ s \o t \in Seq(S)
      /\ Len(s \o t) = Len(s) + Len(t)
      /\ \A k \in 1 .. Len(s) + Len(t) :
           (s \o t)[k] = IF k <= Len(s) THEN s[k] ELSE t[k - Len(s)]
  BY ConcatProperties
<1>2. \A k \in 2 .. q + 1 : k \in 1 .. 1 + q /\ ~(k <= 1)   OBVIOUS
<1>3. 1 \in 1 .. 1 + q   OBVIOUS
<1> QED  BY <1>1, <1>2, <1>3

LEMMA OneAfter ==
  ASSUME NEW S, NEW s \in Seq(S), NEW t \in Seq(S), NEW p \in Nat,
         Len(s) = p, Len(t) = 1
  PROVE  /\ s \o t \in Seq(S)
         /\ Len(s \o t) = p + 1
         /\ \A k \in 1 .. p : (s \o t)[k] = s[k]
         /\ (s \o t)[p + 1] = t[1]
<1>1. /\ s \o t \in Seq(S)
      /\ Len(s \o t) = Len(s) + Len(t)
      /\ \A k \in 1 .. Len(s) + Len(t) :
           (s \o t)[k] = IF k <= Len(s) THEN s[k] ELSE t[k - Len(s)]
  BY ConcatProperties
<1>2. \A k \in 1 .. p : k \in 1 .. p + 1 /\ k <= p   OBVIOUS
<1>3. p + 1 \in 1 .. p + 1 /\ ~(p + 1 <= p) /\ p + 1 - p = 1   OBVIOUS
<1> QED  BY <1>1, <1>2, <1>3

\* The sections and the two places in them that mkfs writes, with m the number
\* of blocks of a bitmap.
LEMMA MkfsPlaces ==
  ASSUME bnr \in Nat
  PROVE  LET s == SbInfo(bnr)
             m == s.nr_ibp
         IN  /\ m \in Nat /\ s.nr_dbp = m
             /\ BID_IBP_MIN(s) = 1
             /\ BID_DBP_MIN(s) = m + 1
             /\ BID_I_MIN(s) = m + m + 1
             /\ IDXI2BID(s, RESERVED_INO) = 1
             /\ INO2BID(s, ROOT_INO) = m + m + 1
<1> DEFINE s == SbInfo(bnr)
           m == s.nr_ibp
<1>1. m \in Nat /\ s.nr_dbp = m
  <2>1. Usable(bnr) \in Nat   BY UsableBlocks
  <2>2. idiv_ceil(Usable(bnr), BLOCK_BITS) \in Nat
    BY <2>1, CeilDiv, LayoutAssumption
  <2> QED  BY <2>2 DEF SbInfo
<1>2. BID_IBP_MIN(s) = 1 /\ BID_DBP_MIN(s) = m + 1 /\ BID_I_MIN(s) = m + m + 1
  BY <1>1 DEF BID_IBP_MIN, BID_DBP_MIN, BID_I_MIN
<1>3. IDXI2BID(s, RESERVED_INO) = 1
  <2>1. 0 \div BLOCK_BITS \in 0 .. 1 - 1   BY LayoutAssumption, InGroup
  <2> QED  BY <1>2, <2>1 DEF IDXI2BID, RESERVED_INO
<1>4. INO2BID(s, ROOT_INO) = m + m + 1
  <2>1. 1 \div INODES_PER_BLOCK \in 0 .. 1 - 1   BY LayoutAssumption, InGroup
  <2> QED  BY <1>1, <1>2, <2>1 DEF INO2BID, ROOT_INO
<1> QED  BY <1>1, <1>2, <1>3, <1>4

\* The number of writes, and which of them sets what.
LEMMA WritesAt ==
  ASSUME bnr \in Nat
  PROVE  LET s == SbInfo(bnr)
             m == s.nr_ibp
         IN  /\ m \in Nat
             /\ Writes \in Seq(Step)
             /\ Len(Writes) = 3 + m + m
             /\ Writes[1] = [block |-> 0, what |-> "super"]
             /\ \A k \in 2 .. m + 1 : Writes[k] = [block |-> k - 1, what |-> "zero"]
             /\ Writes[m + 2] = [block |-> 1, what |-> "preset"]
             /\ \A k \in m + 3 .. m + m + 2 : Writes[k] = [block |-> k - 2, what |-> "zero"]
             /\ Writes[m + m + 3] = [block |-> m + m + 1, what |-> "root"]
<1> DEFINE s == SbInfo(bnr)
           m == s.nr_ibp
           A == To(0, "super")
           B == Zeros(1, m)
           C == To(1, "preset")
           D == Zeros(m + 1, m)
           E == To(m + m + 1, "root")
<1>1. /\ m \in Nat /\ s.nr_dbp = m
      /\ BID_IBP_MIN(s) = 1 /\ BID_DBP_MIN(s) = m + 1
      /\ IDXI2BID(s, RESERVED_INO) = 1
      /\ INO2BID(s, ROOT_INO) = m + m + 1
  BY MkfsPlaces
<1>5. Writes = A \o B \o C \o D \o E
  BY <1>1 DEF Writes
<1> HIDE DEF m
<1>6. A \in Seq(Step) /\ Len(A) = 1 /\ A[1] = [block |-> 0, what |-> "super"]
  BY DEF To, Step, Content
<1>7. /\ B \in Seq(Step) /\ Len(B) = m
      /\ \A k \in 1 .. m : B[k] = [block |-> k, what |-> "zero"]
  BY <1>1 DEF Zeros, Step, Content
<1>8. C \in Seq(Step) /\ Len(C) = 1 /\ C[1] = [block |-> 1, what |-> "preset"]
  BY DEF To, Step, Content
<1>9. /\ D \in Seq(Step) /\ Len(D) = m
      /\ \A k \in 1 .. m : D[k] = [block |-> m + k, what |-> "zero"]
  BY <1>1 DEF Zeros, Step, Content
<1>10. /\ E \in Seq(Step) /\ Len(E) = 1
       /\ E[1] = [block |-> m + m + 1, what |-> "root"]
  BY <1>1 DEF To, Step, Content
<1> HIDE DEF s, A, B, C, D, E
<1>11. /\ A \o B \in Seq(Step) /\ Len(A \o B) = m + 1
       /\ (A \o B)[1] = A[1]
       /\ \A k \in 2 .. m + 1 : (A \o B)[k] = B[k - 1]
  BY <1>1, <1>6, <1>7, OneBefore
<1> DEFINE AB == A \o B
<1>12. AB \in Seq(Step) /\ Len(AB) = m + 1 /\ m + 1 \in Nat
  BY <1>1, <1>11
<1>13. /\ AB[1] = [block |-> 0, what |-> "super"]
       /\ \A k \in 2 .. m + 1 : AB[k] = [block |-> k - 1, what |-> "zero"]
  <2>1. \A k \in 2 .. m + 1 : k - 1 \in 1 .. m
    BY <1>1
  <2> QED  BY <1>6, <1>7, <1>11, <2>1
<1> HIDE DEF AB
<1> DEFINE ABC == AB \o C
<1>14. /\ ABC \in Seq(Step) /\ Len(ABC) = m + 1 + 1
       /\ \A k \in 1 .. m + 1 : ABC[k] = AB[k]
       /\ ABC[m + 1 + 1] = C[1]
  BY <1>8, <1>12, OneAfter
<1>15. ABC \in Seq(Step) /\ Len(ABC) = m + 2 /\ m + 2 \in Nat
  BY <1>1, <1>14
<1>16. /\ ABC[1] = [block |-> 0, what |-> "super"]
       /\ \A k \in 2 .. m + 1 : ABC[k] = [block |-> k - 1, what |-> "zero"]
       /\ ABC[m + 2] = [block |-> 1, what |-> "preset"]
  <2>1. /\ 1 \in 1 .. m + 1
        /\ \A k \in 2 .. m + 1 : k \in 1 .. m + 1
    BY <1>1
  <2>3. m + 1 + 1 = m + 2   BY <1>1
  <2>2. ABC[1] = AB[1] /\ \A k \in 2 .. m + 1 : ABC[k] = AB[k]
    BY <1>14, <2>1
  <2> QED  BY <1>8, <1>13, <1>14, <2>2, <2>3
<1> HIDE DEF ABC
<1> DEFINE ABCD == ABC \o D
<1>17. /\ ABCD \in Seq(Step) /\ Len(ABCD) = m + 2 + m
       /\ \A k \in 1 .. m + 2 : ABCD[k] = ABC[k]
       /\ \A k \in m + 2 + 1 .. m + 2 + m : ABCD[k] = D[k - (m + 2)]
  <2>1. /\ ABCD \in Seq(Step)
        /\ Len(ABCD) = Len(ABC) + Len(D)
        /\ \A k \in 1 .. Len(ABC) + Len(D) :
             ABCD[k] = IF k <= Len(ABC) THEN ABC[k] ELSE D[k - Len(ABC)]
    BY <1>9, <1>15, ConcatProperties
  <2>2. /\ \A k \in 1 .. m + 2 : k \in 1 .. m + 2 + m /\ k <= m + 2
        /\ \A k \in m + 2 + 1 .. m + 2 + m : k \in 1 .. m + 2 + m /\ ~(k <= m + 2)
    BY <1>1
  <2> HIDE DEF ABCD
  <2> QED  BY <1>9, <1>15, <2>1, <2>2
<1>18. ABCD \in Seq(Step) /\ Len(ABCD) = m + m + 2 /\ m + m + 2 \in Nat
  BY <1>1, <1>17
<1>19. /\ ABCD[1] = [block |-> 0, what |-> "super"]
       /\ \A k \in 2 .. m + 1 : ABCD[k] = [block |-> k - 1, what |-> "zero"]
       /\ ABCD[m + 2] = [block |-> 1, what |-> "preset"]
       /\ \A k \in m + 3 .. m + m + 2 : ABCD[k] = [block |-> k - 2, what |-> "zero"]
  <2>1. /\ 1 \in 1 .. m + 2
        /\ \A k \in 2 .. m + 1 : k \in 1 .. m + 2
        /\ m + 2 \in 1 .. m + 2
    BY <1>1
  <2>2. ASSUME NEW k \in m + 3 .. m + m + 2
        PROVE  ABCD[k] = [block |-> k - 2, what |-> "zero"]
    <3>1. /\ k \in m + 2 + 1 .. m + 2 + m
          /\ k - (m + 2) \in 1 .. m /\ m + (k - (m + 2)) = k - 2
      BY <1>1
    <3>2. ABCD[k] = D[k - (m + 2)]   BY <1>17, <3>1
    <3>3. D[k - (m + 2)] = [block |-> m + (k - (m + 2)), what |-> "zero"]
      BY <1>9, <3>1
    <3> QED  BY <3>1, <3>2, <3>3
  <2>3. ABCD[1] = ABC[1] /\ ABCD[m + 2] = ABC[m + 2]   BY <1>17, <2>1
  <2>4. \A k \in 2 .. m + 1 : ABCD[k] = ABC[k]   BY <1>17, <2>1
  <2> QED  BY <1>16, <2>2, <2>3, <2>4
<1> HIDE DEF ABCD
<1> DEFINE W == ABCD \o E
<1>20. /\ W \in Seq(Step) /\ Len(W) = m + m + 2 + 1
       /\ \A k \in 1 .. m + m + 2 : W[k] = ABCD[k]
       /\ W[m + m + 2 + 1] = E[1]
  BY <1>10, <1>18, OneAfter
<1>21. W = Writes
  BY <1>5, ConcatAssociative DEF AB, ABC, ABCD
<1>22. Writes \in Seq(Step) /\ Len(Writes) = 3 + m + m
  BY <1>1, <1>20, <1>21
<1> HIDE DEF W
<1>23. /\ W[1] = [block |-> 0, what |-> "super"]
       /\ W[m + 2] = [block |-> 1, what |-> "preset"]
  <2>1. 1 \in 1 .. m + m + 2 /\ m + 2 \in 1 .. m + m + 2   BY <1>1
  <2>2. W[1] = ABCD[1] /\ W[m + 2] = ABCD[m + 2]   BY <1>20, <2>1
  <2> QED  BY <1>19, <2>2
<1>24. \A k \in 2 .. m + 1 : W[k] = [block |-> k - 1, what |-> "zero"]
  <2>1. \A k \in 2 .. m + 1 : k \in 1 .. m + m + 2   BY <1>1
  <2> QED  BY <1>19, <1>20, <2>1
<1>25. \A k \in m + 3 .. m + m + 2 : W[k] = [block |-> k - 2, what |-> "zero"]
  <2>1. \A k \in m + 3 .. m + m + 2 : k \in 1 .. m + m + 2   BY <1>1
  <2> QED  BY <1>19, <1>20, <2>1
<1>26. W[m + m + 3] = [block |-> m + m + 1, what |-> "root"]
  <2>1. m + m + 3 = m + m + 2 + 1   BY <1>1
  <2> QED  BY <1>10, <1>20, <2>1
<1> QED  BY <1>1, <1>21, <1>22, <1>23, <1>24, <1>25, <1>26 DEF m, s

-----------------------------------------------------------------------------
(* mkfs. *)

\* The first n - 1 writes are on the device.
Prefix(n) ==
  LET m == SbInfo(bnr).nr_ibp IN
  /\ n > 1 => dev[0] = "super"
  /\ \A b \in 1 .. m :
       b + 1 < n => dev[b] = IF b = 1 /\ n > m + 2 THEN "preset" ELSE "zero"
  /\ \A b \in m + 1 .. m + m : b + 2 < n => dev[b] = "zero"

\* Strengthens SaidIsFormatted: what a mkfs that runs has done so far.
MkfsInv == /\ MkfsTypeOK
           /\ next # 0 => ~said
           /\ next # 0 /\ Usable(bnr) > 0 => Prefix(next)
           /\ SaidIsFormatted

LEMMA MkfsInit_Inv == MkfsInit => MkfsInv
<1> SUFFICES ASSUME MkfsInit PROVE MkfsInv   OBVIOUS
<1>1. bnr \in Nat   BY MkfsAssumption DEF MkfsInit
<1>2. Len(Writes) \in Nat   BY <1>1, WritesAt
<1>3. MkfsTypeOK
  <2>1. dev \in [Block -> Content]   BY DEF MkfsInit, Content
  <2>2. 0 \in 0 .. Len(Writes)   BY <1>2
  <2> QED  BY <2>1, <2>2 DEF MkfsInit, MkfsTypeOK
<1> QED  BY <1>3 DEF MkfsInit, MkfsInv, SaidIsFormatted

\* A write of mkfs extends the prefix by one, and the last makes it all.
LEMMA MkfsNext_Inv == MkfsInv /\ MkfsNext => MkfsInv'
<1> SUFFICES ASSUME MkfsInv, MkfsNext PROVE MkfsInv'   OBVIOUS
<1> DEFINE s == SbInfo(bnr)
           m == s.nr_ibp
<1>1. bnr \in Sizes /\ bnr \in Nat
  BY MkfsAssumption DEF MkfsInv, MkfsTypeOK
<1>2. /\ bnr' = bnr /\ Block' = Block /\ Writes' = Writes
      /\ SbInfo(bnr)' = SbInfo(bnr) /\ Usable(bnr)' = Usable(bnr)
  BY DEF MkfsNext, MkfsStart, MkfsWrite, MkfsFails, MkfsKilled, Block, Writes,
         SbInfo, Usable
<1>3. /\ m \in Nat /\ s.nr_dbp = m
      /\ BID_IBP_MIN(s) = 1 /\ BID_DBP_MIN(s) = m + 1 /\ BID_I_MIN(s) = m + m + 1
      /\ IDXI2BID(s, RESERVED_INO) = 1
      /\ INO2BID(s, ROOT_INO) = m + m + 1
  BY <1>1, MkfsPlaces
<1>4. /\ Writes \in Seq(Step)
      /\ Len(Writes) = 3 + m + m
      /\ Writes[1] = [block |-> 0, what |-> "super"]
      /\ \A k \in 2 .. m + 1 : Writes[k] = [block |-> k - 1, what |-> "zero"]
      /\ Writes[m + 2] = [block |-> 1, what |-> "preset"]
      /\ \A k \in m + 3 .. m + m + 2 : Writes[k] = [block |-> k - 2, what |-> "zero"]
      /\ Writes[m + m + 3] = [block |-> m + m + 1, what |-> "root"]
  BY <1>1, WritesAt
<1>5. /\ dev \in [Block -> Content] /\ next \in 0 .. 3 + m + m /\ said \in BOOLEAN
  BY <1>4 DEF MkfsInv, MkfsTypeOK
<1>6. ASSUME Usable(bnr) > 0 PROVE m # 0
  BY <1>1, <1>6, Counts
<1> HIDE DEF m, s
<1>7. CASE MkfsStart
  <2>1. next' = 1 /\ said' = FALSE /\ dev' = dev   BY <1>7 DEF MkfsStart
  <2>4. 1 \in 0 .. 3 + m + m   BY <1>3
  <2>5. said' \in BOOLEAN       BY <2>1
  <2>2. MkfsTypeOK'   BY <1>1, <1>2, <1>4, <1>5, <2>1, <2>4, <2>5 DEF MkfsTypeOK
  <2>3. Prefix(next)'   BY <1>2, <1>3, <2>1 DEF Prefix, m, s
  <2> QED  BY <2>1, <2>2, <2>3 DEF MkfsInv, SaidIsFormatted
<1>8. CASE MkfsFails \/ MkfsKilled
  <2>1. next' = 0 /\ said' = said /\ dev' = dev /\ ~said
    BY <1>8 DEF MkfsFails, MkfsKilled, MkfsInv
  <2>2. MkfsTypeOK'   BY <1>1, <1>2, <1>3, <1>4, <1>5, <2>1 DEF MkfsTypeOK
  <2> QED  BY <2>1, <2>2 DEF MkfsInv, SaidIsFormatted
<1>9. CASE MkfsWrite
  <2> DEFINE w == Writes[next]
  <2>1. /\ next # 0 /\ w.block \in Block
        /\ dev' = [dev EXCEPT ![w.block] = After(dev[w.block], w.what)]
        /\ next' = (next + 1) % (Len(Writes) + 1) /\ said' = (next' = 0)
        /\ ~said
    BY <1>9 DEF MkfsWrite, MkfsInv, NextWrite
  <2>2. /\ next < 3 + m + m => next' = next + 1
        /\ next = 3 + m + m => next' = 0
    <3>1. ASSUME next < 3 + m + m PROVE (next + 1) % (3 + m + m + 1) = next + 1
      BY <1>3, <1>5, <3>1
    <3>2. (3 + m + m + 1) % (3 + m + m + 1) = 0   BY <1>3
    <3> QED  BY <1>4, <2>1, <3>1, <3>2
  <2>3. MkfsTypeOK'
    <3>1. next' \in 0 .. 3 + m + m   BY <1>3, <1>5, <2>1, <2>2
    <3>2. w \in Step
      <4>1. next \in 1 .. Len(Writes)   BY <1>3, <1>4, <1>5, <2>1
      <4> QED  BY <1>4, <4>1, ElementOfSeq
    <3>3. After(dev[w.block], w.what) \in Content
      BY <3>2 DEF After, Step, Content
    <3>4. dev' \in [Block -> Content]   BY <1>5, <2>1, <3>3
    <3> QED  BY <1>1, <1>2, <1>4, <2>1, <3>1, <3>4 DEF MkfsTypeOK
  <2>4. ASSUME Usable(bnr) > 0
        PROVE  /\ next < 3 + m + m => Prefix(next)'
               /\ next = 3 + m + m => Formatted'
    <3>0. /\ next > 1 => dev[0] = "super"
          /\ \A b \in 1 .. m :
               b + 1 < next => dev[b] = IF b = 1 /\ next > m + 2 THEN "preset" ELSE "zero"
          /\ \A b \in m + 1 .. m + m : b + 2 < next => dev[b] = "zero"
      BY <2>1, <2>4 DEF MkfsInv, Prefix, m, s
    <3>1. CASE next = 1
      <4>1. w = [block |-> 0, what |-> "super"]   BY <1>4, <3>1
      <4>2. dev'[0] = "super"   BY <1>5, <2>1, <4>1 DEF After
      <4>3. next' = 2   BY <1>3, <2>2, <3>1
      <4> QED  BY <1>2, <1>3, <3>1, <4>2, <4>3 DEF Prefix, m, s
    <3>2. CASE next \in 2 .. m + 1
      <4>1. w = [block |-> next - 1, what |-> "zero"]   BY <1>4, <3>2
      <4>2. /\ dev'[next - 1] = "zero"
            /\ \A b \in Nat : b # next - 1 => dev'[b] = dev[b]
        BY <1>5, <2>1, <4>1 DEF After
      <4>3. next' = next + 1   BY <1>3, <2>2, <3>2
      <4>4. dev'[0] = "super"   BY <1>5, <3>0, <3>2, <4>2
      <4>5. ASSUME NEW b \in 1 .. m, b + 1 < next + 1 PROVE dev'[b] = "zero"
        <5>1. CASE b = next - 1   BY <4>2, <5>1
        <5>2. CASE b # next - 1
          BY <1>3, <1>5, <3>0, <3>2, <4>2, <4>5, <5>2
        <5> QED  BY <5>1, <5>2
      <4> QED  BY <1>2, <1>3, <1>5, <3>2, <4>3, <4>4, <4>5 DEF Prefix, m, s
    <3>3. CASE next = m + 2
      <4>1. w = [block |-> 1, what |-> "preset"]   BY <1>4, <3>3
      <4>2. dev[1] = "zero"   BY <1>3, <1>6, <2>4, <3>0, <3>3
      <4>3. /\ dev'[1] = "preset"
            /\ \A b \in Nat : b # 1 => dev'[b] = dev[b]
        BY <1>5, <2>1, <4>1, <4>2 DEF After
      <4>4. next' = m + 3   BY <1>3, <2>2, <3>3
      <4>5. dev'[0] = "super"   BY <1>3, <3>0, <3>3, <4>3, <1>6, <2>4
      <4>6. \A b \in 1 .. m : dev'[b] = IF b = 1 THEN "preset" ELSE "zero"
        BY <1>3, <3>0, <3>3, <4>3
      <4> QED  BY <1>2, <1>3, <3>3, <4>4, <4>5, <4>6 DEF Prefix, m, s
    <3>4. CASE next \in m + 3 .. m + m + 2
      <4>1. w = [block |-> next - 2, what |-> "zero"]   BY <1>4, <3>4
      <4>2. /\ dev'[next - 2] = "zero"
            /\ \A b \in Nat : b # next - 2 => dev'[b] = dev[b]
        BY <1>5, <2>1, <4>1 DEF After
      <4>3. next' = next + 1   BY <1>3, <2>2, <3>4
      <4>4. dev'[0] = "super"   BY <1>3, <3>0, <3>4, <4>2
      <4>5. \A b \in 1 .. m : dev'[b] = IF b = 1 THEN "preset" ELSE "zero"
        BY <1>3, <3>0, <3>4, <4>2
      <4>6. ASSUME NEW b \in m + 1 .. m + m, b + 2 < next + 1 PROVE dev'[b] = "zero"
        <5>1. CASE b = next - 2   BY <4>2, <5>1
        <5>2. CASE b # next - 2
          BY <1>3, <1>5, <3>0, <3>4, <4>2, <4>6, <5>2
        <5> QED  BY <5>1, <5>2
      <4> QED  BY <1>2, <1>3, <3>4, <4>3, <4>4, <4>5, <4>6 DEF Prefix, m, s
    <3>5. CASE next = m + m + 3
      <4>1. w = [block |-> m + m + 1, what |-> "root"]   BY <1>4, <3>5
      <4>2. /\ dev'[m + m + 1] = "root"
            /\ \A b \in Nat : b # m + m + 1 => dev'[b] = dev[b]
        BY <1>5, <2>1, <4>1 DEF After
      <4>3. dev'[0] = "super"   BY <1>3, <3>0, <3>5, <4>2
      <4>4. \A b \in 1 .. m : dev'[b] = IF b = 1 THEN "preset" ELSE "zero"
        BY <1>3, <3>0, <3>5, <4>2
      <4>5. \A b \in m + 1 .. m + m : dev'[b] = "zero"
        BY <1>3, <3>0, <3>5, <4>2
      <4>6. Formatted'
        BY <1>2, <1>3, <1>6, <2>4, <4>2, <4>3, <4>4, <4>5 DEF Formatted, m, s
      <4> QED  BY <1>3, <3>5, <4>6
    <3> QED  BY <1>3, <1>5, <2>1, <3>1, <3>2, <3>3, <3>4, <3>5
  <2> QED  BY <1>2, <1>3, <1>5, <2>1, <2>2, <2>3, <2>4 DEF MkfsInv, SaidIsFormatted
<1> QED  BY <1>7, <1>8, <1>9 DEF MkfsNext

LEMMA MkfsStutter_Inv == MkfsInv /\ UNCHANGED mkfs => MkfsInv'
  BY DEF mkfs, MkfsInv, MkfsTypeOK, Block, Writes, SbInfo, Usable, Prefix, SaidIsFormatted,
         Formatted

-----------------------------------------------------------------------------
(* The driver. *)

\* What yaf_fill_super() holds at each of its labels.
Stages ==
  /\ pc \in {"bread", "magic", "kzalloc", "iget", "make_root"} => ret = "0"
  /\ pc \in {"iput_root", "free_ysi"} => ret # "0"
  /\ pc \in {"bread", "out"} => ~bh
  /\ pc \in {"bread", "magic", "kzalloc"} => ysi = "null"
  /\ pc \in {"iget", "make_root", "iput_root", "free_ysi"} => ysi = "live"
  /\ pc \in {"release_bh", "out"} => (ysi = "live") = (ret = "0")
  /\ pc \in {"none", "bread", "magic", "kzalloc", "iget", "iput_root"} =>
       obj[ROOT_INO] = "none"
  /\ pc = "make_root" => obj[ROOT_INO] = "live"
  /\ pc = "free_ysi" => obj[ROOT_INO] \in {"none", "stuck"}
  /\ pc \in {"release_bh", "out"} =>
       obj[ROOT_INO] \in IF ret = "0" THEN {"live"} ELSE {"none", "stuck"}
  /\ pc # "active" => \A i \in Inodes \ {ROOT_INO} : obj[i] = "none"

\* A struct inode that nobody can put comes from an inode that was not read.
Leaks == /\ \A i \in Inodes : obj[i] \in {"stuck", "held"} => ioerr
         /\ orphans => ioerr

SuperInv == /\ MkfsInv
            /\ TypeOK
            /\ CacheOutlives
            /\ Stages
            /\ Leaks

LEMMA SuperInit_Inv == Init => SuperInv
<1> SUFFICES ASSUME Init PROVE SuperInv   OBVIOUS
<1>1. MkfsInv   BY MkfsInit_Inv DEF Init
<1>2. TypeOK
  <2>1. /\ obj \in [Inodes -> {"none", "live", "held", "stuck"}]
        /\ bad \subseteq Block
        /\ look \in Inodes \cup {None}
    BY DEF Init
  <2>2. /\ cache \in BOOLEAN /\ bh \in BOOLEAN /\ orphans \in BOOLEAN
        /\ ioerr \in BOOLEAN /\ panic \in BOOLEAN
    BY DEF Init
  <2> QED  BY <1>1, <2>1, <2>2 DEF Init, TypeOK, MkfsInv
<1>3. CacheOutlives /\ Leaks   BY DEF Init, CacheOutlives, Leaks
<1>4. Stages   BY SuperAssumption DEF Init, Stages
<1> QED  BY <1>1, <1>2, <1>3, <1>4 DEF SuperInv

\* Only mkfs writes the device, and its size never changes.
LEMMA Next_Mkfs == SuperInv /\ Next => MkfsInv' /\ bnr' = bnr /\ Block' = Block
<1> SUFFICES ASSUME SuperInv, Next PROVE MkfsInv' /\ bnr' = bnr /\ Block' = Block
  OBVIOUS
<1>1. CASE Format
  <2>1. MkfsInv /\ MkfsNext   BY <1>1 DEF Format, SuperInv
  <2>2. bnr' = bnr
    BY <2>1 DEF MkfsNext, MkfsStart, MkfsWrite, MkfsFails, MkfsKilled
  <2> QED  BY <2>1, <2>2, MkfsNext_Inv DEF Block
<1>2. CASE ~Format
  <2>1. UNCHANGED mkfs
    BY <1>2 DEF Next, InitCache, Register, Exit, Mount, FillSuper, ReadSuper, CheckMagic,
      AllocYsi, GetRoot, MakeRoot, IputRoot, FreeYsi, ReleaseBh, FillSuperReturns,
      Umount, InodeStep, LookupCall, LookupGet, Evict, Fault
  <2> QED  BY <2>1, MkfsStutter_Inv DEF SuperInv, mkfs, Block
<1> QED  BY <1>1, <1>2

LEMMA Next_CacheOutlives == SuperInv /\ Next => CacheOutlives'
<1> SUFFICES ASSUME SuperInv, Next PROVE CacheOutlives'   OBVIOUS
<1> USE DEF CacheOutlives
<1>0. TypeOK /\ CacheOutlives   BY DEF SuperInv
<1>1. CASE InitCache   BY <1>0, <1>1 DEF InitCache, mount
<1>2. CASE Register    BY <1>0, <1>2 DEF Register, Undo, mount
<1>3. CASE Exit        BY <1>0, <1>3 DEF Exit, mount
<1>4. CASE Mount       BY <1>0, <1>4 DEF Mount, Goto
<1>5. CASE FillSuper
  <2>1. pc # "none" /\ UNCHANGED <<module, cache>>
    BY <1>5 DEF FillSuper, ReadSuper, CheckMagic, AllocYsi, GetRoot, MakeRoot, IputRoot,
      FreeYsi, ReleaseBh, FillSuperReturns
  <2> QED  BY <1>0, <2>1
<1>6. CASE Umount      BY <1>0, <1>6 DEF Umount, Goto, Running
<1>7. CASE Format \/ (\E i \in Inodes : InodeStep(i)) \/ \E b \in Block : Fault(b)
  <2>1. UNCHANGED <<module, cache, pc>>
    BY <1>7 DEF Format, InodeStep, LookupCall, LookupGet, Evict,
      Fault, mount
  <2> QED  BY <1>0, <2>1
<1> QED  BY <1>1, <1>2, <1>3, <1>4, <1>5, <1>6, <1>7 DEF Next

\* yaf_iget() of a number that has no struct inode, and of one that has.
LEMMA IgetFacts ==
  ASSUME TypeOK, NEW i \in Inodes, IgetOk(i) \/ IgetEio(i) \/ IgetEinval(i) \/ IgetPanics(i)
  PROVE  /\ obj' \in [Inodes -> {"none", "live", "held", "stuck"}]
         /\ \A j \in Inodes \ {i} : obj'[j] = obj[j]
         /\ obj[i] # "none" => obj'[i] # "none"
         /\ obj'[i] \in {"stuck", "held"} => obj'[i] = obj[i] \/ ioerr'
         /\ ioerr => ioerr'
         /\ ioerr' \in BOOLEAN /\ panic' \in BOOLEAN
  BY DEF TypeOK, IgetOk, IgetEio, IgetEinval, IgetPanics, Got

LEMMA Next_TypeOK == SuperInv /\ Next => TypeOK'
<1> SUFFICES ASSUME SuperInv, Next PROVE TypeOK'   OBVIOUS
<1>0. TypeOK /\ MkfsTypeOK' /\ Block' = Block
  BY Next_Mkfs DEF SuperInv, MkfsInv
<1> USE <1>0 DEF TypeOK
<1>1. CASE Format       BY <1>1 DEF Format, mount, inode
<1>2. CASE InitCache    BY <1>2 DEF InitCache, mount, inode
<1>3. CASE Register
  <2>1. cache' \in BOOLEAN /\ module' \in {"out", "in"}   BY <1>3 DEF Register, Undo
  <2> QED  BY <1>3, <2>1 DEF Register, mount, inode
<1>4. CASE Exit         BY <1>4 DEF Exit, mount, inode
<1>5. CASE Mount        BY <1>5 DEF Mount, Goto, inode
<1>6. CASE ReadSuper    BY <1>6 DEF ReadSuper, Goto, inode
<1>7. CASE CheckMagic   BY <1>7 DEF CheckMagic, Goto, inode
<1>8. CASE AllocYsi     BY <1>8 DEF AllocYsi, Goto, inode
<1>9. CASE GetRoot
  <2>1. /\ obj' \in [Inodes -> {"none", "live", "held", "stuck"}]
        /\ ioerr' \in BOOLEAN /\ panic' \in BOOLEAN
    BY <1>9, IgetFacts, SuperAssumption DEF GetRoot
  <2>2. pc' \in {"iget", "make_root", "free_ysi"} /\ ret' \in {ret, "EIO", "EINVAL"}
    BY <1>9 DEF GetRoot, Goto, RootFails
  <2> QED  BY <1>9, <2>1, <2>2 DEF GetRoot
<1>10. CASE MakeRoot
  <2>1. obj' \in [Inodes -> {"none", "live", "held", "stuck"}]   BY <1>10 DEF MakeRoot
  <2> QED  BY <1>10, <2>1 DEF MakeRoot, Goto
<1>11. CASE IputRoot
  <2>1. panic' \in BOOLEAN   BY <1>11 DEF IputRoot
  <2> QED  BY <1>11, <2>1 DEF IputRoot, Goto, inode
<1>12. CASE FreeYsi      BY <1>12 DEF FreeYsi, Goto, inode
<1>13. CASE ReleaseBh    BY <1>13 DEF ReleaseBh, Goto, inode
<1>14. CASE FillSuperReturns
  <2>1. /\ obj' \in [Inodes -> {"none", "live", "held", "stuck"}]
        /\ orphans' \in BOOLEAN
    BY <1>14 DEF FillSuperReturns
  <2> QED  BY <1>14, <2>1 DEF FillSuperReturns, Goto
<1>15. CASE Umount
  <2>1. /\ obj' \in [Inodes -> {"none", "live", "held", "stuck"}]
        /\ orphans' \in BOOLEAN
    BY <1>15 DEF Umount
  <2> QED  BY <1>15, <2>1 DEF Umount, Goto
<1>16. ASSUME NEW i \in Inodes, InodeStep(i) PROVE TypeOK'
  <2>1. CASE LookupCall(i)   BY <2>1 DEF LookupCall, mount, inode
  <2>2. CASE LookupGet(i)
    <3>1. /\ obj' \in [Inodes -> {"none", "live", "held", "stuck"}]
          /\ ioerr' \in BOOLEAN /\ panic' \in BOOLEAN
      BY <2>2, IgetFacts DEF LookupGet
    <3>2. look' \in Inodes \cup {None}   BY <2>2 DEF LookupGet
    <3> QED  BY <2>2, <3>1, <3>2 DEF LookupGet, mount
  <2>3. CASE Evict(i)
    <3>1. obj' \in [Inodes -> {"none", "live", "held", "stuck"}]   BY <2>3 DEF Evict
    <3> QED  BY <2>3, <3>1 DEF Evict, mount
  <2> QED  BY <1>16, <2>1, <2>2, <2>3 DEF InodeStep
<1>17. ASSUME NEW b \in Block, Fault(b) PROVE TypeOK'
  <2>1. bad' \subseteq Block   BY <1>17 DEF Fault
  <2> QED  BY <1>17, <2>1 DEF Fault, mount, inode
<1> QED
  BY <1>1, <1>2, <1>3, <1>4, <1>5, <1>6, <1>7, <1>8, <1>9, <1>10, <1>11, <1>12, <1>13,
     <1>14, <1>15, <1>16, <1>17 DEF Next, FillSuper

LEMMA Next_Stages == SuperInv /\ Next => Stages'
<1> SUFFICES ASSUME SuperInv, Next PROVE Stages'   OBVIOUS
<1>0. TypeOK /\ Stages /\ CacheOutlives /\ ROOT_INO \in Inodes
  BY SuperAssumption DEF SuperInv
<1> USE <1>0 DEF Stages
<1>1. CASE Format \/ InitCache \/ Register \/ Exit \/ \E b \in Block : Fault(b)
  <2>1. UNCHANGED <<pc, ret, bh, ysi, obj>>
    BY <1>1 DEF Format, InitCache, Register, Exit, Fault, mount, inode
  <2> QED  BY <2>1
<1>2. CASE Mount        BY <1>2 DEF Mount, Goto, inode
<1>3. CASE ReadSuper    BY <1>3 DEF ReadSuper, Goto, inode
<1>4. CASE CheckMagic   BY <1>4 DEF CheckMagic, Goto, inode
<1>5. CASE AllocYsi     BY <1>5 DEF AllocYsi, Goto, inode
<1>6. CASE GetRoot
  <2>1. /\ pc = "iget" /\ ret = "0" /\ ysi = "live" /\ obj[ROOT_INO] = "none"
        /\ UNCHANGED <<bh, ysi>>
    BY <1>6 DEF GetRoot
  <2>2. \A i \in Inodes \ {ROOT_INO} : obj'[i] = obj[i]
    BY <1>6, IgetFacts DEF GetRoot
  <2>3. CASE IgetOk(ROOT_INO) /\ pc' = "make_root" /\ ret' = ret
    <3>1. obj'[ROOT_INO] = "live"   BY <2>1, <2>3 DEF IgetOk, Got, TypeOK
    <3> QED  BY <2>1, <2>2, <2>3, <3>1
  <2>4. CASE IgetEio(ROOT_INO) /\ pc' = "free_ysi" /\ ret' = "EIO"
    <3>1. obj'[ROOT_INO] = "stuck"   BY <2>1, <2>4 DEF IgetEio, TypeOK
    <3> QED  BY <2>1, <2>2, <2>4, <3>1
  <2>5. CASE IgetEinval(ROOT_INO) /\ pc' = "free_ysi" /\ ret' = "EINVAL"
    BY <2>1, <2>2, <2>5 DEF IgetEinval
  <2>6. CASE IgetPanics(ROOT_INO) /\ UNCHANGED <<pc, ret>>
    BY <2>1, <2>2, <2>6 DEF IgetPanics
  <2> QED  BY <1>6, <2>3, <2>4, <2>5, <2>6 DEF GetRoot, Goto, RootFails
<1>7. CASE MakeRoot
  <2>1. \/ pc' = "release_bh" /\ UNCHANGED <<ret, obj>>
        \/ /\ pc' = "iput_root" /\ ret' = "ENOMEM" /\ obj'[ROOT_INO] = "none"
           /\ \A i \in Inodes \ {ROOT_INO} : obj'[i] = obj[i]
    BY <1>7 DEF MakeRoot, Goto, TypeOK
  <2> QED  BY <1>7, <2>1 DEF MakeRoot
<1>8. CASE IputRoot     BY <1>8 DEF IputRoot, Goto, inode
<1>9. CASE FreeYsi      BY <1>9 DEF FreeYsi, Goto, inode
<1>10. CASE ReleaseBh   BY <1>10 DEF ReleaseBh, Goto, inode
<1>11. CASE FillSuperReturns
  <2>1. CASE ret # "0"
    BY <1>11, <2>1 DEF FillSuperReturns, Goto
  <2>2. CASE ret = "0"
    BY <1>11, <2>2 DEF FillSuperReturns, Goto
  <2> QED  BY <2>1, <2>2
<1>12. CASE Umount      BY <1>12 DEF Umount, Goto
<1>13. CASE \E i \in Inodes : InodeStep(i)
  <2>1. pc = "active" /\ pc' = "active"
    BY <1>13 DEF InodeStep, LookupCall, LookupGet, Evict, Running, mount
  <2> QED  BY <2>1
<1> QED
  BY <1>1, <1>2, <1>3, <1>4, <1>5, <1>6, <1>7, <1>8, <1>9, <1>10, <1>11, <1>12, <1>13
     DEF Next, FillSuper

LEMMA Next_Leaks == SuperInv /\ Next => Leaks'
<1> SUFFICES ASSUME SuperInv, Next PROVE Leaks'   OBVIOUS
<1>0. TypeOK /\ Stages /\ Leaks /\ ROOT_INO \in Inodes
  BY SuperAssumption DEF SuperInv
<1> USE <1>0 DEF Leaks
<1>1. CASE \/ Format \/ InitCache \/ Register \/ Exit \/ Mount \/ ReadSuper \/ CheckMagic
           \/ AllocYsi \/ IputRoot \/ FreeYsi \/ ReleaseBh \/ \E b \in Block : Fault(b)
  <2>1. UNCHANGED <<obj, orphans, ioerr>>
    BY <1>1 DEF Format, InitCache, Register, Exit, Mount, ReadSuper, CheckMagic, AllocYsi,
      IputRoot, FreeYsi, ReleaseBh, Fault, inode
  <2> QED  BY <2>1
<1>2. ASSUME NEW i \in Inodes, orphans' = orphans,
             IgetOk(i) \/ IgetEio(i) \/ IgetEinval(i) \/ IgetPanics(i)
      PROVE  Leaks'
  <2>1. /\ \A j \in Inodes \ {i} : obj'[j] = obj[j]
        /\ obj'[i] \in {"stuck", "held"} => obj'[i] = obj[i] \/ ioerr'
        /\ ioerr => ioerr'
    BY <1>2, IgetFacts
  <2> QED  BY <1>2, <2>1
<1>3. CASE GetRoot   BY <1>2, <1>3 DEF GetRoot
<1>4. CASE MakeRoot
  <2>1. /\ \A i \in Inodes : obj'[i] = obj[i] \/ obj'[i] = "none"
        /\ orphans' = orphans /\ ioerr' = ioerr
    BY <1>4 DEF MakeRoot, TypeOK
  <2> QED  BY <2>1
<1>5. CASE FillSuperReturns
  <2>1. pc = "out" /\ ioerr' = ioerr   BY <1>5 DEF FillSuperReturns
  <2>2. CASE ret = "0"
    BY <1>5, <2>2 DEF FillSuperReturns
  <2>3. CASE ret # "0"
    <3>1. \A i \in Inodes : obj[i] # "none" => ioerr
      BY <2>1, <2>3 DEF Stages
    <3>2. /\ orphans' = (orphans \/ \E i \in Inodes : obj[i] # "none")
          /\ obj' = [i \in Inodes |-> "none"]
      BY <1>5, <2>3 DEF FillSuperReturns
    <3>3. orphans' => ioerr'   BY <2>1, <3>1, <3>2, Zenon
    <3>4. \A i \in Inodes : obj'[i] = "none"   BY <3>2
    <3> QED  BY <3>3, <3>4
  <2> QED  BY <2>2, <2>3
<1>6. CASE Umount    BY <1>6 DEF Umount
<1>7. ASSUME NEW i \in Inodes, InodeStep(i) PROVE Leaks'
  <2>1. CASE LookupGet(i)   BY <1>2, <2>1 DEF LookupGet
  <2>2. CASE Evict(i)
    <3>1. /\ \A j \in Inodes : obj'[j] = obj[j] \/ obj'[j] = "none"
          /\ orphans' = orphans /\ ioerr' = ioerr
      BY <2>2 DEF Evict, TypeOK
    <3> QED  BY <3>1
  <2>3. CASE LookupCall(i)   BY <2>3 DEF LookupCall, inode
  <2> QED  BY <1>7, <2>1, <2>2, <2>3 DEF InodeStep
<1> QED  BY <1>1, <1>3, <1>4, <1>5, <1>6, <1>7 DEF Next, FillSuper

-----------------------------------------------------------------------------
(* The theorems. *)

LEMMA SuperStutter_Inv == SuperInv /\ UNCHANGED vars => SuperInv'
<1> SUFFICES ASSUME SuperInv, UNCHANGED vars PROVE SuperInv'   OBVIOUS
<1>1. MkfsInv' /\ Block' = Block
  BY MkfsStutter_Inv DEF SuperInv, vars, mkfs, Block
<1>2. TypeOK'
  BY <1>1 DEF SuperInv, MkfsInv, TypeOK, vars, mount, inode
<1>3. CacheOutlives' /\ Stages' /\ Leaks'
  BY DEF SuperInv, CacheOutlives, Stages, Leaks, vars, mount, inode
<1> QED  BY <1>1, <1>2, <1>3 DEF SuperInv

\* The invariant that the theorems rest on: what mkfs has written at each of
\* its writes, and what yaf_fill_super() holds at each of its labels.
THEOREM SuperInvariant == Spec => []SuperInv
<1>1. Init => SuperInv   BY SuperInit_Inv
<1>2. SuperInv /\ [Next]_vars => SuperInv'
  <2>1. SuperInv /\ Next => SuperInv'
    BY Next_Mkfs, Next_TypeOK, Next_CacheOutlives, Next_Stages, Next_Leaks
       DEF SuperInv
  <2> QED  BY <2>1, SuperStutter_Inv
<1> QED  BY <1>1, <1>2, PTL DEF Spec

\* Types, of mkfs and of the driver.
THEOREM SuperTypes == Spec => []TypeOK
<1>1. SuperInv => TypeOK   BY DEF SuperInv
<1> QED  BY <1>1, SuperInvariant, PTL

\* When mkfs says that it formatted a device, of whatever size, holding
\* whatever it held, and wherever earlier mkfs stopped, every section is as
\* the driver expects (mkfs.c:343).
THEOREM FormattedWhenSaid == Spec => []SaidIsFormatted
<1>1. SuperInv => SaidIsFormatted   BY DEF SuperInv, MkfsInv
<1> QED  BY <1>1, SuperInvariant, PTL

\* Every return of yaf_fill_super() has released what it took, but for a root
\* inode that could not be read, which stays locked; a crash is not a return.
THEOREM MountsBalance == Spec => []MountBalanced
<1>1. SuperInv => MountBalanced   BY DEF SuperInv, Stages, MountBalanced
<1> QED  BY <1>1, SuperInvariant, PTL

\* The slab cache is there exactly from yaf_init() to yaf_exit(), around every
\* mount.
THEOREM CacheOutlivesMounts == Spec => []CacheOutlives
<1>1. SuperInv => CacheOutlives   BY DEF SuperInv
<1> QED  BY <1>1, SuperInvariant, PTL

\* A failed mount and an umount leave no struct inode behind, unless an inode
\* could not be read.
THEOREM LeaksAreErrors == Spec => []OnlyErrorsLeak
<1>1. SuperInv => OnlyErrorsLeak   BY DEF SuperInv, Leaks, OnlyErrorsLeak
<1> QED  BY <1>1, SuperInvariant, PTL

\* The root inode of a formatted device is in its bounds and on the device.
LEMMA RootPlace ==
  ASSUME bnr \in Nat, Usable(bnr) > 0
  PROVE  0 \in Block /\ INO2BID(Sb, ROOT_INO) \in Block /\ ROOT_INO < Sb.nr_i * INODES_PER_BLOCK
<1> DEFINE s == SbInfo(bnr)
<1>1. /\ s.nr_i \in Nat \ {0} /\ s.nr_d \in Nat /\ s.nr_ibp \in Nat /\ s.nr_dbp \in Nat
  BY Counts
<1>2. Usable(bnr) \in Nat /\ Usable(bnr) <= bnr   BY UsableBlocks
<1>3. 4 <= s.nr_i * INODES_PER_BLOCK /\ s.nr_i * INODES_PER_BLOCK \in Nat
  <2>1. INODES_PER_BLOCK * 1 <= INODES_PER_BLOCK * s.nr_i
    BY <1>1, LayoutAssumption, Product
  <2> QED  BY <1>1, <2>1, LayoutAssumption
<1>4. ROOT_INO \in 0 .. s.nr_i * INODES_PER_BLOCK - 1
  BY <1>3 DEF ROOT_INO
<1>5. /\ INO2BID(s, ROOT_INO) \in BID_I_MIN(s) .. BID_D_MIN(s) - 1
      /\ BID_D_MIN(s) <= BID_D_MAX(s) + 1
      /\ BID_D_MAX(s) = Usable(bnr) - 1
  BY <1>4, InodePlaces, SectionsFit
<1>6. BID_I_MIN(s) \in Nat /\ BID_D_MIN(s) \in Nat /\ BID_D_MAX(s) \in Int
  BY <1>1 DEF BID_I_MIN, BID_D_MIN, BID_D_MAX, BID_DBP_MIN, BID_IBP_MIN
<1> HIDE DEF s
<1>7. /\ 0 <= INO2BID(s, ROOT_INO) /\ INO2BID(s, ROOT_INO) <= bnr - 1
      /\ INO2BID(s, ROOT_INO) \in Int
      /\ 0 <= bnr - 1
  BY <1>2, <1>5, <1>6
<1>8. ROOT_INO < s.nr_i * INODES_PER_BLOCK   BY <1>3, <1>4
<1> QED  BY <1>7, <1>8 DEF Block, Sb, s

\* A device that mkfs called formatted is refused only for want of memory or
\* for a block that cannot be read, whatever its size.
THEOREM FormattedDevicesMount == Spec => FormattedMounts
<1> DEFINE A == said /\ Usable(bnr) > 0 /\ ret' # ret =>
                  \/ ret' \in {"0", "ENOMEM"}
                  \/ ret' = "EIO" /\ bad # {}
<1>1. SuperInv /\ [Next]_vars => [A]_vars
  <2> SUFFICES ASSUME SuperInv, Next, said, Usable(bnr) > 0, ret' # ret
               PROVE  \/ ret' \in {"0", "ENOMEM"}
                      \/ ret' = "EIO" /\ bad # {}
    OBVIOUS
  <2>1. bnr \in Nat   BY MkfsAssumption DEF SuperInv, MkfsInv, MkfsTypeOK
  <2>2. 0 \in Block /\ INO2BID(Sb, ROOT_INO) \in Block
        /\ ROOT_INO < Sb.nr_i * INODES_PER_BLOCK
    BY <2>1, RootPlace
  <2>3. dev[0] = "super"   BY DEF SuperInv, MkfsInv, SaidIsFormatted, Formatted
  <2>4. Mount \/ ReadSuper \/ CheckMagic \/ AllocYsi \/ GetRoot \/ MakeRoot
    BY DEF Next, FillSuper, Format, InitCache, Register, Exit, IputRoot, FreeYsi, ReleaseBh,
      FillSuperReturns, Umount, InodeStep, LookupCall, LookupGet, Evict,
      Fault, mount
  <2>5. CASE Mount       BY <2>5 DEF Mount
  <2>6. CASE ReadSuper   BY <2>2, <2>6 DEF ReadSuper, Readable
  <2>7. CASE CheckMagic  BY <2>3, <2>7 DEF CheckMagic
  <2>8. CASE AllocYsi    BY <2>8 DEF AllocYsi
  <2>9. CASE GetRoot
    <3>1. ~IgetEinval(ROOT_INO)
      <4>1. ROOT_INO \in Nat /\ Sb.nr_i * INODES_PER_BLOCK \in Int
        BY <2>1, Counts, LayoutAssumption DEF Sb, ROOT_INO
      <4> QED  BY <2>2, <4>1 DEF IgetEinval
    <3> QED  BY <2>2, <2>9, <3>1 DEF GetRoot, IgetEio, Readable
  <2>10. CASE MakeRoot   BY <2>10 DEF MakeRoot
  <2> QED  BY <2>4, <2>5, <2>6, <2>7, <2>8, <2>9, <2>10
<1>2. Spec => [][Next]_vars   BY DEF Spec
<1> QED  BY <1>1, <1>2, SuperInvariant, PTL DEF FormattedMounts
=============================================================================
