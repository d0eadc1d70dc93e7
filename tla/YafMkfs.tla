------------------------------- MODULE YafMkfs -------------------------------
(***************************************************************************)
(* tool/mkfs.c: the writes that format a device, in their order.  A write  *)
(* may fail, mkfs may be killed, and it may be run again.                  *)
(***************************************************************************)
EXTENDS YafLayout, Sequences

CONSTANTS Sizes,    \* sizes of devices, in blocks
          MkfsEnv   \* "eio", "kill": what can happen to mkfs

ASSUME MkfsAssumption == Sizes \subseteq Nat

VARIABLES
  bnr,      \* the size of the device
  dev,      \* dev[b]: what block b holds
  next,     \* the next write of mkfs, 0 when it does not run
  said      \* the last mkfs said that it "successfully formatted" the device

mkfs == <<bnr, dev, next, said>>

\* "old" is anything from before, "zero" a cleared block, "preset" one with the
\* bits of RESERVED_INO and ROOT_INO set, "root" one with the root inode.
Content == {"old", "super", "zero", "preset", "root"}
Block == 0 .. bnr - 1

MkfsInit == /\ bnr \in Sizes
            /\ dev = [b \in Block |-> "old"]
            /\ next = 0
            /\ said = FALSE

Zeros(first, n) == [i \in 1 .. n |-> [block |-> first + i - 1, what |-> "zero"]]
To(block, what) == << [block |-> block, what |-> what] >>

\* Wrong: the byte is written before the section is cleared.
Writes_PresetFirst ==
  LET s == SbInfo(bnr) IN
  To(0, "super")
    \o To(IDXI2BID(s, RESERVED_INO), "preset") \o Zeros(BID_IBP_MIN(s), s.nr_ibp)
    \o Zeros(BID_DBP_MIN(s), s.nr_dbp)
    \o To(INO2BID(s, ROOT_INO), "root")

\* Wrong: the superblock without its magic.
Writes_NoMagic ==
  LET s == SbInfo(bnr) IN
  To(0, "zero")
    \o Zeros(BID_IBP_MIN(s), s.nr_ibp) \o To(IDXI2BID(s, RESERVED_INO), "preset")
    \o Zeros(BID_DBP_MIN(s), s.nr_dbp)
    \o To(INO2BID(s, ROOT_INO), "root")

\* write_superblock(), write_inode_bitmap(), write_data_bitmap(),
\* write_inode_blocks(); write_data_blocks() writes nothing.
Writes ==
  LET s == SbInfo(bnr) IN
  To(0, "super")
    \o Zeros(BID_IBP_MIN(s), s.nr_ibp) \o To(IDXI2BID(s, RESERVED_INO), "preset")
    \o Zeros(BID_DBP_MIN(s), s.nr_dbp)
    \o To(INO2BID(s, ROOT_INO), "root")

\* The two bits are one byte: the rest of the block stays what it was, so it
\* must be clear already.
After(old, what) == IF what = "preset" /\ old # "zero" THEN "old" ELSE what

MkfsStart ==
  /\ next = 0
  /\ next' = 1
  /\ said' = FALSE
  /\ UNCHANGED <<bnr, dev>>

\* Wrong: main() has no end.
NextWrite_PastEnd == next + 1

\* The write after this one, 0 after the last.
NextWrite == (next + 1) % (Len(Writes) + 1)

MkfsWrite ==
  /\ next # 0
  /\ LET w == Writes[next] IN
       /\ w.block \in Block
       /\ dev' = [dev EXCEPT ![w.block] = After(@, w.what)]
  /\ next' = NextWrite
  /\ said' = (next' = 0)
  /\ UNCHANGED bnr

\* A write fails, always if it is past the end of the device.
MkfsFails ==
  /\ next # 0
  /\ "eio" \in MkfsEnv \/ Writes[next].block \notin Block
  /\ next' = 0
  /\ UNCHANGED <<bnr, dev, said>>

MkfsKilled ==
  /\ "kill" \in MkfsEnv
  /\ next # 0
  /\ next' = 0
  /\ UNCHANGED <<bnr, dev, said>>

MkfsNext == MkfsStart \/ MkfsWrite \/ MkfsFails \/ MkfsKilled

-----------------------------------------------------------------------------
(* Properties. *)

MkfsTypeOK == /\ bnr \in Sizes /\ dev \in [Block -> Content]
              /\ next \in 0 .. Len(Writes) /\ said \in BOOLEAN

\* The disk the driver expects, the Init of YafBitmap and YafInode.
Formatted ==
  LET s == SbInfo(bnr) IN
  /\ dev[0] = "super"
  /\ dev[IDXI2BID(s, RESERVED_INO)] = "preset"
  /\ \A b \in BID_IBP_MIN(s) .. BID_DBP_MIN(s) - 1 :
       dev[b] = IF b = IDXI2BID(s, RESERVED_INO) THEN "preset" ELSE "zero"
  /\ \A b \in BID_DBP_MIN(s) .. BID_I_MIN(s) - 1 : dev[b] = "zero"
  /\ dev[INO2BID(s, ROOT_INO)] = "root"

\* "yaf filesystem has been successfully formatted on the device"
\* (mkfs.c:343): whatever was on the device, and wherever an earlier mkfs
\* stopped, all sections are as the driver expects.  A device of less than
\* INODES_PER_BLOCK blocks is excepted: mkfs says so of it as well, and no
\* section of it is.
SaidIsFormatted == said /\ Usable(bnr) > 0 => Formatted
==============================================================================
