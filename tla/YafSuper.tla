------------------------------- MODULE YafSuper ------------------------------
(***************************************************************************)
(* Loading the module, mounting a device, the life of its struct inodes,   *)
(* and unmounting: driver/fs.c, driver/super.c and yaf_iget of             *)
(* driver/inode.c, on a device that mkfs has written (YafMkfs).            *)
(*                                                                         *)
(* yaf_fill_super runs step by step, one step per call that can fail and   *)
(* one per label of its cleanup.  The VFS and the slab (external) do the   *)
(* rest.  Here an inode is in memory or not; what it holds, and what is    *)
(* written of it, is YafInode's.  A module that is in use is not unloaded. *)
(* Users do not format a device that is mounted, which mkfs.c does not     *)
(* prevent.                                                                *)
(***************************************************************************)
EXTENDS YafMkfs

CONSTANTS Inodes,   \* inode numbers that are looked up
          Env       \* "eio", "nomem", "dentry", "inode": what fails

ASSUME SuperAssumption == ROOT_INO \in Inodes /\ Inodes \subseteq Nat

None == -1

VARIABLES
  module,    \* "out", "register" within yaf_init, "in"
  cache,     \* yaf_inode_cachep exists
  pc,        \* where yaf_fill_super is; "none" without a super_block, "active"
             \* with one that is mounted
  ret,       \* ret of yaf_fill_super: "0" or what failed
  bh,        \* yaf_fill_super holds the superblock's buffer
  ysi,       \* sb->s_fs_info: "null", "live" or "freed"
  obj,       \* obj[i]: the struct inode i: "none", "live", "held" (with a
             \* reference nobody will put) or "stuck" (I_NEW for ever)
  orphans,   \* struct inodes are left of a super_block that is gone
  bad,       \* blocks that sb_bread() cannot read
  ioerr,     \* history: yaf_iget failed to read an inode
  look,      \* the number a lookup passed to yaf_iget, or None
  panic      \* the kernel crashed, or used an inode that was freed

mount == <<pc, ret, bh, ysi>>
inode == <<obj, orphans, ioerr>>
vars  == <<mkfs, module, cache, mount, inode, bad, look, panic>>

Init ==
  /\ MkfsInit
  /\ module = "out" /\ cache = FALSE
  /\ pc = "none" /\ ret = "0" /\ bh = FALSE /\ ysi = "null"
  /\ obj = [i \in Inodes |-> "none"] /\ orphans = FALSE
  /\ bad = {}
  /\ ioerr = FALSE
  /\ look = None
  /\ panic = FALSE

Sb == SbInfo(bnr)        \* what the superblock of a formatted device says
Readable(b) == b \in Block \ bad

-----------------------------------------------------------------------------
(* yaf_init(), yaf_exit(). *)

InitCache ==
  /\ module = "out"
  /\ module' = "register" /\ cache' = TRUE
  /\ UNCHANGED <<mkfs, mount, inode, bad, look, panic>>

\* Wrong: no fini_inode_cache label.
Undo_None == cache

\* What is left of the cache when the type cannot be registered.
Undo == FALSE

Register ==
  /\ module = "register"
  /\ \/ module' = "in" /\ UNCHANGED cache
     \/ module' = "out" /\ cache' = Undo
  /\ UNCHANGED <<mkfs, mount, inode, bad, look, panic>>

\* kmem_cache_destroy() with objects in it only complains.
Exit ==
  /\ module = "in" /\ pc = "none"
  /\ module' = "out" /\ cache' = FALSE
  /\ UNCHANGED <<mkfs, mount, inode, bad, look, panic>>

-----------------------------------------------------------------------------
(* yaf_iget(). *)

\* Wrong: no unlock_new_inode().
Got_Locked(i) == IF obj[i] = "none" THEN "stuck" ELSE obj[i]

\* The struct inode after yaf_iget() has read it.
Got(i) == IF obj[i] = "none" THEN "live" ELSE obj[i]

\* It is in bounds, and iget_locked() finds or makes it; one that is I_NEW is
\* waited for.
CanGet(i) == i < Sb.nr_i * INODES_PER_BLOCK /\ obj[i] # "stuck"

\* What the block says replaces what the struct inode held, also if that was in
\* memory already and newer: see Lookup of YafInode.
IgetOk(i)     == /\ CanGet(i) /\ Readable(INO2BID(Sb, i))
                 /\ obj' = [obj EXCEPT ![i] = Got(i)]
                 /\ UNCHANGED <<ioerr, panic>>

\* An inode that could not be read is neither unlocked nor put.
IgetEio(i)    == /\ CanGet(i) /\ ~Readable(INO2BID(Sb, i))
                 /\ obj' = [obj EXCEPT ![i] = IF @ = "none" THEN "stuck" ELSE "held"]
                 /\ ioerr' = TRUE
                 /\ UNCHANGED panic

IgetEinval(i) == /\ i >= Sb.nr_i * INODES_PER_BLOCK
                 /\ UNCHANGED <<obj, ioerr, panic>>

\* yaf_alloc_inode() returns ERR_PTR(-ENOMEM) ("inode"), and the VFS uses it.
IgetPanics(i) == /\ CanGet(i) /\ obj[i] = "none" /\ "inode" \in Env
                 /\ panic' = TRUE
                 /\ UNCHANGED <<obj, ioerr>>

-----------------------------------------------------------------------------
(* mount: yaf_fill_super(). *)

Goto(label) == pc' = label

Mount ==
  /\ module = "in" /\ pc = "none" /\ next = 0
  /\ Goto("bread")
  /\ ret' = "0" /\ bh' = FALSE /\ ysi' = "null"
  /\ UNCHANGED <<mkfs, module, cache, inode, bad, look, panic>>

ReadSuper ==
  /\ pc = "bread"
  /\ IF Readable(0) THEN Goto("magic") /\ bh' = TRUE /\ UNCHANGED ret
     ELSE Goto("out") /\ ret' = "EIO" /\ UNCHANGED bh
  /\ UNCHANGED <<mkfs, module, cache, ysi, inode, bad, look, panic>>

CheckMagic ==
  /\ pc = "magic"
  /\ IF dev[0] = "super" THEN Goto("kzalloc") /\ UNCHANGED ret
     ELSE Goto("release_bh") /\ ret' = "EINVAL"
  /\ UNCHANGED <<mkfs, module, cache, bh, ysi, inode, bad, look, panic>>

AllocYsi ==
  /\ pc = "kzalloc"
  /\ \/ Goto("iget") /\ ysi' = "live" /\ UNCHANGED ret
     \/ "nomem" \in Env /\ Goto("release_bh") /\ ret' = "ENOMEM" /\ UNCHANGED ysi
  /\ UNCHANGED <<mkfs, module, cache, bh, inode, bad, look, panic>>

\* Wrong: goto release_bh.
RootFails_Leak == "release_bh"

\* Where yaf_fill_super goes on when there is no root inode.
RootFails == "free_ysi"

GetRoot ==
  /\ pc = "iget"
  /\ \/ IgetOk(ROOT_INO) /\ Goto("make_root") /\ UNCHANGED ret
     \/ IgetEio(ROOT_INO) /\ Goto(RootFails) /\ ret' = "EIO"
     \/ IgetEinval(ROOT_INO) /\ Goto(RootFails) /\ ret' = "EINVAL"
     \/ IgetPanics(ROOT_INO) /\ UNCHANGED <<pc, ret>>
  /\ UNCHANGED <<mkfs, module, cache, bh, ysi, orphans, bad, look>>

\* d_make_root(): when it has no memory for the dentry ("dentry") it puts the
\* inode, which is freed as the super_block is not active yet.
MakeRoot ==
  /\ pc = "make_root"
  /\ \/ Goto("release_bh") /\ UNCHANGED <<ret, obj>>
     \/ /\ "dentry" \in Env
        /\ Goto("iput_root") /\ ret' = "ENOMEM"
        /\ obj' = [obj EXCEPT ![ROOT_INO] = "none"]
  /\ UNCHANGED <<mkfs, module, cache, bh, ysi, orphans, ioerr, bad, look, panic>>

\* iput() of the root inode, which d_make_root() has put already.
IputRoot ==
  /\ pc = "iput_root"
  /\ panic' = (obj[ROOT_INO] = "none")
  /\ Goto("free_ysi")
  /\ UNCHANGED <<mkfs, module, cache, ret, bh, ysi, inode, bad, look>>

FreeYsi ==
  /\ pc = "free_ysi"
  /\ ysi' = "freed"
  /\ Goto("release_bh")
  /\ UNCHANGED <<mkfs, module, cache, ret, bh, inode, bad, look, panic>>

ReleaseBh ==
  /\ pc = "release_bh"
  /\ bh' = FALSE
  /\ Goto("out")
  /\ UNCHANGED <<mkfs, module, cache, ret, ysi, inode, bad, look, panic>>

\* The super_block is active, or yaf_kill_sb() ends it: it has no root dentry,
\* so its inodes are not evicted.
FillSuperReturns ==
  /\ pc = "out"
  /\ IF ret # "0"
     THEN /\ Goto("none")
          /\ orphans' = (orphans \/ \E i \in Inodes : obj[i] # "none")
          /\ obj' = [i \in Inodes |-> "none"]
     ELSE Goto("active") /\ UNCHANGED <<orphans, obj>>
  /\ UNCHANGED <<mkfs, module, cache, ret, bh, ysi, ioerr, bad, look, panic>>

-----------------------------------------------------------------------------
(* While it is mounted. *)

Running == pc = "active"

\* A lookup finds the number in a directory, and yaf_iget() gets its inode.
LookupCall(i) ==
  /\ Running /\ look = None
  /\ look' = i
  /\ UNCHANGED <<mkfs, module, cache, mount, inode, bad, panic>>

LookupGet(i) ==
  /\ Running /\ look = i
  /\ IgetOk(i) \/ IgetEio(i) \/ IgetEinval(i) \/ IgetPanics(i)
  /\ look' = IF panic' THEN look ELSE None
  /\ UNCHANGED <<mkfs, module, cache, mount, orphans, bad>>

\* Memory pressure: an inode that is unused.
Evict(i) ==
  /\ Running /\ i # ROOT_INO /\ i # look
  /\ obj[i] = "live"
  /\ obj' = [obj EXCEPT ![i] = "none"]
  /\ UNCHANGED <<mkfs, module, cache, mount, orphans, ioerr, bad, look, panic>>

\* umount, yaf_kill_sb(): the inodes are evicted; those that are stuck or held
\* stay in the slab, and Yaf_Sb_Info is not freed.
Umount ==
  /\ Running /\ look = None
  /\ orphans' = (orphans \/ \E i \in Inodes : obj[i] \in {"stuck", "held"})
  /\ obj' = [i \in Inodes |-> "none"]
  /\ Goto("none")
  /\ UNCHANGED <<mkfs, module, cache, ret, bh, ysi, ioerr, bad, look, panic>>

\* A block goes bad, or can be read again ("eio").
Fault(b) ==
  /\ "eio" \in Env
  /\ bad' = IF b \in bad THEN bad \ {b} ELSE bad \cup {b}
  /\ UNCHANGED <<mkfs, module, cache, mount, inode, look, panic>>

\* mkfs, when the device is not in use.
Format ==
  /\ pc = "none"
  /\ MkfsNext
  /\ UNCHANGED <<module, cache, mount, inode, bad, look, panic>>

FillSuper == \/ ReadSuper \/ CheckMagic \/ AllocYsi \/ GetRoot \/ MakeRoot
             \/ IputRoot \/ FreeYsi \/ ReleaseBh \/ FillSuperReturns

InodeStep(i) == LookupCall(i) \/ LookupGet(i) \/ Evict(i)

Next == /\ ~panic
        /\ \/ Format
           \/ InitCache \/ Register \/ Exit
           \/ Mount \/ FillSuper \/ Umount
           \/ \E i \in Inodes : InodeStep(i)
           \/ \E b \in {0, INO2BID(Sb, ROOT_INO)} \cap Block : Fault(b)

Spec == Init /\ [][Next]_vars

\* A call that has begun goes on, unless it waits.
FairSpec == /\ Spec
            /\ WF_vars(~panic /\ FillSuper)
            /\ \A i \in Inodes : WF_vars(~panic /\ LookupGet(i))

-----------------------------------------------------------------------------
(* Properties. *)

TypeOK ==
  /\ MkfsTypeOK
  /\ module \in {"out", "register", "in"} /\ cache \in BOOLEAN
  /\ pc \in {"none", "bread", "magic", "kzalloc", "iget", "make_root", "iput_root",
            "free_ysi", "release_bh", "out", "active"}
  /\ ret \in {"0", "EIO", "EINVAL", "ENOMEM"}
  /\ bh \in BOOLEAN /\ ysi \in {"null", "live", "freed"}
  /\ obj \in [Inodes -> {"none", "live", "held", "stuck"}]
  /\ orphans \in BOOLEAN /\ ioerr \in BOOLEAN /\ panic \in BOOLEAN
  /\ bad \subseteq Block
  /\ look \in Inodes \cup {None}

\* yaf_fill_super() returns with the buffer put, and with Yaf_Sb_Info and the
\* root inode exactly if it did not fail.  A root inode that could not be read
\* stays stuck (inode.c:436), and a failed d_make_root() does not get here: the
\* kernel crashes at the second iput() (super.c:222).
MountBalanced ==
  pc = "out" => /\ ~bh
                /\ (ysi = "live") = (ret = "0")
                /\ obj[ROOT_INO] \in IF ret = "0" THEN {"live"} ELSE {"none", "stuck"}

\* The slab cache outlives every mount, and is gone when the module is: also
\* if the module was never loaded completely (fs.c:127).
CacheOutlives == /\ pc # "none" => module = "in"
                 /\ cache = (module # "out")

\* No inode is left behind by a super_block, for kmem_cache_destroy() to find,
\* unless an inode could not be read.
OnlyErrorsLeak == orphans => ioerr

\* A device that mkfs called formatted can be mounted, unless memory or the
\* device fails, for every size of at least INODES_PER_BLOCK blocks.
FormattedMounts ==
  [][said /\ Usable(bnr) > 0 /\ ret' # ret =>
       \/ ret' \in {"0", "ENOMEM"}
       \/ ret' = "EIO" /\ bad # {}]_vars

\* mount() and lookups return, unless an inode could not be read before: it is
\* left locked, and whoever looks it up waits for ever (inode.c:436).
CallsReturn ==
  /\ pc = "bread" ~> pc \in {"none", "active"} \/ panic
  /\ \A i \in Inodes : look = i ~> look # i \/ ioerr \/ panic
==============================================================================
