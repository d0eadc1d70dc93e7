# yaf in TLA+

yaf is a small file system for Linux: a kernel module (`driver/`), the tool
that formats a device (`tool/`), and the on-disk structures both share
(`include/`).  This directory holds a formal model of all three,
checked with TLC on small disks; its safety properties and its refinements are
proved with TLAPS for disks of every size.

## The system

| Part | State | Operations | What makes it correct |
|---|---|---|---|
| bitmap allocator, `driver/bitmap.c` | the bits of the inode and the data bitmap, in the buffer cache and on the device | `yaf_get_free_inode`, `yaf_get_free_dblock`, `yaf_put_inode`, `yaf_put_dblock` | a number has one owner; what is owned stays marked, also across writeback; every search ends |
| namespace, `driver/inode.c` | directory blocks, `struct inode` with `i_nlink`, `i_size`, `i_block` | `yaf_lookup`, `_yaf_create` (create, mkdir), `yaf_delete` (unlink, rmdir), `yaf_iget` | it is a tree; removed directories are empty; link counts, dcache and disk agree; blocks are neither shared nor lost; no assertion fails |
| files, `driver/file.c` | `i_block`, the page cache | `yaf_get_block`, `yaf_readahead`, `yaf_write_begin`, `yaf_write_end`, `yaf_writepage` | a file is the bytes that were written to it, whatever is dropped, read again or fails; `i_block`, `i_size` and what is dirty agree; it reaches the disk |
| directory reading, `driver/dir.c` | `ctx->pos` of the reader | `yaf_iterate_shared` | an entry that is there all the time is reported once, one that is not there never; a reading ends |
| superblock, `driver/super.c` | `Yaf_Sb_Info`, the inode slab | `yaf_fill_super`, `yaf_write_inode`, `yaf_alloc_inode`, `yaf_destroy_inode`, `yaf_kill_sb` | a failed mount leaves nothing behind; no inode is left behind by an umount; calls return |
| module, `driver/fs.c` | registration, slab cache | `yaf_init`, `yaf_exit`, `yaf_mount` | the cache outlives every mount, and no object outlives it |
| layout, `include/fs.h`, `include/bitmap.h`, `include/inode.h` | - | block of an inode, a data block, a bit | sections do not overlap and fit the device |
| mkfs, `tool/mkfs.c` | the device | writes the superblock, the bitmaps and the root inode | what it calls formatted can be mounted, for odd sizes too and after an earlier run was interrupted |

How they interact.  The VFS calls the operations of `inode.c`, `file.c` and
`dir.c` with the locks of the inodes they change held; these call the bitmap
functions without any lock of yaf's own, so threads in different directories
meet in the bitmap.  The operations change `struct inode`s and buffers in
memory and mark them dirty; the VFS later calls `yaf_write_inode`, and the
buffer cache writes buffers.  The VFS keeps names in the dcache and calls
`yaf_lookup` only for names it does not know.  Under memory pressure it drops
dentries, and later inodes.  Umount writes everything and drops everything.

What is hard.  Threads interleaving in the bitmap; a buffer or an inode that
leaves memory between two steps; the three counts that describe a file
(`i_size`, `i_block`, `i_nlink`) and code that relies on one for another; error
numbers carried in unsigned integers; blocks reused with old contents in them;
errors half way through an operation; a crash between two writebacks, which yaf
does nothing about.  `PROJECT.json` lists these under `hazards`, each at its
line, with the properties that watch it.

## Modules

| Module | What it is |
|---|---|
| `YafPool` | abstract: a pool of numbers that are taken and given back atomically |
| `YafBitmap` | `bitmap.c`, bit by bit, with several threads and the buffer cache; implements `YafPool` |
| `YafBitmap_proofs` | its theorems |
| `YafTree` | abstract: a tree of directories and files, changed by one entry at a time |
| `YafInode` | `inode.c`, block allocation of `file.c`, `yaf_write_inode`, mount and umount, with the dcache, the inode cache and memory pressure; implements `YafTree` in the environments of `inode_nest` and `inode_grow`, and not under memory pressure (`inode_pressure`) |
| `YafInode_proofs` | its theorems about types and dirty marks, for every environment |
| `YafNamespace_proofs` | its theorems about names, links, blocks and caches, and that it implements `YafTree` |
| `YafDir` | `dir.c`: a directory read by many calls while it changes |
| `YafDir_proofs` | its theorems |
| `YafBytes` | abstract: a file is the bytes written to it |
| `YafFile` | `file.c`: one file, its pages and its blocks; implements `YafBytes` |
| `YafFile_proofs` | its theorems, and that it implements `YafBytes` |
| `YafLayout` | the arithmetic of `include/` and of `write_superblock` in `mkfs.c` |
| `YafLayout_proofs` | its theorems |
| `YafMkfs` | `mkfs.c`, one write at a time, on a device laid out by `YafLayout` |
| `YafSuper` | `fs.c`, `super.c` and `yaf_iget`, composed with `YafMkfs`: the device it mounts is what mkfs left |
| `YafSuper_proofs` | theorems about `YafSuper` and `YafMkfs` |
| `YafNumbers` | lemmas about quotients, multiples and minima that the proofs share |
| `MCYafBitmap`, `MCYafInode`, `MCYafDir`, `MCYafFile`, `MCYafSuper` | values for TLC |

### YafBitmap

`cache` and `disk` are the sets of marked indices in the buffer cache and on
the device, `dirty` the blocks of the bitmap section marked dirty.  Each thread
is somewhere in a call (`pc`) and has a block (`blk`), the bit it looks at
(`nr`) and a result (`res`).  A step is what other threads and the buffer cache
can come between: reading the block, one `test_and_set_bit`,
`mark_buffer_dirty`, `brelse`, the return.  `yaf_get_free_inode` and
`yaf_get_free_dblock` are the same code except for constants: what they return
on an I/O error, what means "none", and the order of `brelse` and
`mark_buffer_dirty` (`ReleaseFirst`).  Numbers are `uint32_t`, taken modulo
`U32`; `-ENOENT` is `U32 - 2`.  `own[t]` is what the thread's caller believes
to own.  The buffer cache is external: `WriteBack` at any time, `Reclaim` of a
clean block nobody holds a reference to.

`sb_bread` of a number outside the bitmap is taken to fail: index 2^32-2 means
block 131071 of the section, past the end of a device below 512 MiB.

### YafInode

One step is one call of an operation; the VFS holds `i_rwsem` of the directory
and of the inode that is removed, and what the operation calls in the bitmap is
the atomic pool that `YafBitmap` implements.  `itable` is the on-disk inodes,
`icache` and `incore` the inodes in memory, `dirty` the ones marked dirty,
`blocks` the data blocks as dentries, `dcache` the names the VFS knows
(`RESERVED_INO` for a negative dentry, `Uncached` for none), `opens` files held
open.

A call may outlast its step.  unlink and rmdir hold a reference to the inode they
removed and let go of it (`Release`) after `yaf_delete` gave its number back:
unlink when the directory is unlocked already, rmdir before.  In between another
call may be given the number, and with it, through `iget_locked`, the same
`struct inode`.  `refs` are these references, each with the directory whose lock
its call still has.  `stuck` are the inodes that a failed `yaf_iget` left `I_NEW`
and locked; a lookup or a create that meets one waits for ever, and stays in
`refs` with the lock of its directory (`LookupHangs`, `CreateHangs`).

Abstractions: times, owners, modes but for the file type, and `d_name_len` are
left out; names longer than 24 bytes are refused before anything changes and
are not modelled; a directory's size is counted in dentries and a file's in the
same unit, whole blocks at a time; file data is one value, `FileData`, that
would read as a dentry of the root (the worst it can look like), and reaches
its block when it is written, not at writeback; truncate extends a file to
`YAF_IBLOCKS` blocks at most; a data block that does not exist cannot be read
(`Readable`).  A panic stops the machine.  An index out of `i_block` is counted
as a panic too (`NoSlot`): it reads past the inode.

`Env` says what users and the kernel do besides lookup, delete, write and mount:

| in `Env` | |
|---|---|
| "file", "dir" | users create files, directories |
| "umount" | the file system is unmounted, and mounted again |
| "writeback" | single inodes are written before that |
| "pressure" | dentries are dropped, and clean inodes |
| "open" | files are held open across unlink |
| "truncate" | `truncate()`, of which yaf knows nothing, changes `i_size` |
| "writefail" | a write fails after its blocks were allocated |
| "eio" | a block of a directory or of the inode bitmap cannot be read in `_yaf_create` and `yaf_delete`: a slot stays without an inode, nothing changes, or an assertion fails |
| "eio_iget" | a block of inodes cannot be read in `yaf_iget`: the inode is stuck |
| "eio_dbmap" | a block of the data bitmap cannot be read: `yaf_get_free_dblock` returns 0 and marks nothing, `yaf_put_dblock` fails its assertion |

Not in the model: two hard links (yaf has no link or rename); directories held
open or as a working directory while they are removed; a `yaf_write_inode` that
fails; what a `struct inode` that is handed out again keeps of its old life (its
pages, and `S_DEAD` of a removed directory); crashes.  Two over-approximations:
a lookup may enter a directory that a create which waits for ever has locked, if
what it waits for is a stuck inode, and one pair in `refs` stands for all calls
that hold that inode in that directory.

### YafDir

`slots` is the directory in dentries, with what earlier files left in the part
of the last block past `size`; `pos` is `ctx->pos` with `YAF_DENTRY_SIZE` as the
unit after the two dots.  `Read` is one `getdents` and the call of
`yaf_iterate_shared` in it: the VFS holds the directory's lock shared, create
and unlink hold it exclusively, so they meet only between calls.  The module
computes which entries the loop visits (`Visited`), what it finds there
(`EntryAt`: when a call resumes within a block, `yd` starts at the first dentry
of the block whatever `doff` is), which of them fit the user's buffer
(`Emitted`, `Taken`) and where `ctx->pos` ends (`NextPos`).  `Rooms` are the sizes of
the user's buffer; names take more or less room (`NameLen`).  `Env` is "create",
"delete", "eio", a block that cannot be read for a while, and "signal": with a
signal pending `dir_emit` takes nothing after the first entry of a call.  A reading that
ended starts again only by opening the directory: `yaf_dir_ops` has no `llseek`.

`stable` and `seen` are history: the entries that were there since the reading
began, and how often each was reported.  `lost` records the circumstances under
which the code does not keep the promise (a name that `dir_emit` refused because the
buffer was full or a signal pending, a failed call, a call that resumes within
a block); the properties except just these, and fail
without any one of the exceptions.  `EachOnce` has none, and `dir_resume` shows
it violated.

### YafBytes and YafFile

A block and a page hold `CELLS` cells; a cell contains the number of the
operation that wrote it, `Zero`, or `Old`, the contents of a block that was
allocated and not written.  `disk` is the file's blocks as the device holds
them, `page` the page cache (`Absent`, or `NotUptodate` for a page whose
contents are not valid), `dirty` the pages to be written, `wr` the write between
`yaf_write_begin` and `yaf_write_end`, `nb` the number of allocated entries of
`i_block`, `saved` what the disk's inode says.  Between the two halves of a
write, other pages are read, written back and dropped.

`Env`: writes that start past the end ("seek"), truncate that extends
("extend"), a full device ("full", "nospace"), a copy from user memory that stops
early ("short"), a block that cannot be read ("eio").  On a full device the
allocator returns 2^32-2 (`bitmap_full`), which `yaf_get_block` stores and maps
like any other number: `off` are the entries that are no block of the device
("full").  Such a block cannot be read, and writing its page back fails, after
which the page is clean; `disk` keeps what was to be written there, so that the
properties can speak of it.  "nospace" is the `-ENOSPC` of `yaf_get_block` for
`RESERVED_DNO`, which `bitmap.c:69` promises for a full bitmap: the path is in
`file.c:43-46`, and dead with the allocator as it is.  A page that is not up to
date is read through `read_folio`, which `yaf_as_ops` does not have; the model
stops there (`panic`).

The blocks of a file are taken to be its own: that no other inode has them is
`BlocksExclusive` of `YafInode`, and fails for the number of a full bitmap and
for block 0 after an I/O error.  Errors of the device on writing back a page of a
good block are not modelled.

`gaps` and `uneven` are history: the cells below `i_size` nobody wrote, where
yaf shows old contents, and that a write failed, ended early or was followed by
truncate, after which there may be blocks past `i_size`.

### YafLayout, YafMkfs and YafSuper

`YafLayout` has the counts mkfs computes in `uint32_t` from a device's size, and
where the sections, an inode, a data block and a bit are.

`YafMkfs` executes the list of writes in order; each can fail, mkfs can be
killed before each, and run again.  A device (`dev`) holds one of a few contents
per block.  mkfs makes the byte with the two preset bits from 0 and writes that
one byte (`mkfs.c:124-138`), so the rest of its block is what it was: if the block
was not cleared before, the result is `"old"`.  Blocks past the end of the
device cannot be written.

`YafSuper` runs `yaf_fill_super` with its labels as program counter, `ret`, `bh`
and `ysi` as in the code, and every allocation and read can fail (`Env`:
"nomem", "dentry" and "inode" for the three allocations, "eio").
`obj[i]` is the life of a `struct inode`: `"live"` with a balanced reference
count, `"held"` with a reference nobody puts, `"stuck"` still `I_NEW` and locked,
as `yaf_iget` leaves it after an I/O error.  `orphans` is history: a
`struct inode` outlived its `super_block`.  What an inode contains is in
`YafInode` and `YafFile`.  A lookup is two steps, the number and
`yaf_iget`; mkfs may run whenever nothing is mounted, and the module may be
unloaded and loaded again.

## Runs

Violation runs check one sentence of the source or its comments that the code
does not keep; each is a finding in `PROJECT.json`.

| Run | Instance | Shows |
|---|---|---|
| `bitmap_inode` | 2 threads, 2 blocks of 4 bits, I/O errors, reclaim, each thread owns at most 2 | `TypeOK`, `Exclusive`, `OwnedIsMarked`, `NoDoubleFree`, `CleanIsOnDisk`, implements `YafPool`, every get returns |
| `bitmap_data` | 2 threads, 2 blocks of 3 bits, the data block variant, no I/O errors, no reclaim | `Exclusive`, `NoDoubleFree` |
| `bitmap_full` | as `bitmap_inode`, 3 bits | a full block yields 2^32-2 |
| `inode_nest` | 1 name, 4 inodes, 1 dentry per block, 2 blocks per inode, files and directories, writeback, remounting | nested directories: `NlinkCounts`, `DcacheAgrees`, `NoLeak`, `FreedLeaves`, implements `YafTree` |
| `inode_grow` | files only, 2 names, 4 inodes, 2 dentries per block, 3 blocks per inode | two files beside each other in one block of the root, both growing: `BlocksExclusive`, `NoLeak`, `NoPanic`, `DcacheAgrees`, implements `YafTree` |
| `inode_hostile` | 1 name, 3 inodes, a bitmap larger than the device, all of `Env` but "dir" | `TypeOK`, `CleanMatchesDisk` |
| `inode_pressure` | 2 names, 3 inodes, files and directories, "pressure" | a lookup reads an old inode over a newer one |
| `inode_reuse` | 2 names, 3 inodes, files | a removed file's number, and with it its `struct inode`, is given to a new file before unlink lets go of it |
| `dir_calls` | 3 names, one of them long, 2 blocks of 2 dentries, a small and a medium buffer, all of `Env` | `TypeOK`, `NoneMissed`, `NoneTwice`, `NoGhost`, `ReadEnds` |
| `dir_resume` | the same directory, one large buffer, only creates | an entry is reported twice and another never |
| `file_bytes` | 2 blocks of 2 cells, 3 operations, all of `Env` | `TypeOK`, implements `YafBytes`, `BlocksMatchSize`, `DirtyIsMapped`, `InodeSaved`, `ReachesDisk` |
| `super_mount` | devices of 3, 4, 9, 20 and 70 blocks, 4 inodes per block, 8 bits per bitmap block, `uint32_t` of 6 bits, 2 inodes, all failures | `TypeOK`, `SaidIsFormatted`, `MountBalanced`, `CacheOutlives`, `OnlyErrorsLeak`, `FormattedMounts`, `CallsReturn` |

### More disagreements

The properties and the instances above leave out circumstances under which the
code does not do what one expects.  Each was seen by changing a constant, or by
dropping the exception from the property:

* `bitmap_data` with `Env = {"eio"}` violates `Exclusive`: `bitmap.c:77`
  returns `RESERVED_INO`, 0, for an I/O error where the comment says
  `RESERVED_DNO`, and 0 is a data block.  `inode_grow` with "eio_dbmap" in `Env`
  violates `BlocksExclusive` for the same reason.
* `bitmap_data` with `Env = {"reclaim"}` violates `Exclusive`: `brelse` at
  `bitmap.c:83` lets the block go before it is marked dirty.
* `inode_grow` with "truncate" in `Env` violates `NoPanic`: a file that
  `truncate` extended has no blocks for its `i_size`, and `inode.c:359` puts
  them back.
* `inode_grow` with `DATA_BITS = 3` violates `BlocksExclusive`: from a full
  bitmap every file gets the block 2^32-2 (`bitmap_full`).
* `inode_grow` with "truncate" or "writefail" in `Env` violates `NoLeak`: the
  blocks past `i_size` are never put back.
* `inode_grow` with "open" in `Env` violates `NoLeak` and `BlocksExclusive`: a
  file that was unlinked while it was open is written to, and its number goes to
  another file (`inode.c:358`, `inode.c:364`).
* `inode_grow` with `NR_INODES = 3` and `INODE_BITS = 3` violates `NoPanic`: with
  the inode bitmap full, `yaf_new_inode` puts back 2^32-2 (`inode.c:37`).
* `inode_grow` with `DEV_DBLOCKS = 1` and `DENTRYS_PER_BLOCK = 1` violates
  `NoPanic`: the data bitmap has bits for blocks past the device, and the
  assertion at `inode.c:115` meets one.
* `inode_grow` with `YAF_IBLOCKS = 1` and `DENTRYS_PER_BLOCK = 1` violates
  `NoPanic`: in a full directory the error number of `inode.c:98` is used as an
  offset (`inode.c:151`).
* `file_bytes` without the exception for `gaps` violates `BytesSpec`, with "seek"
  or "extend" alone: `file.c:56` maps a new block without `set_buffer_new`, so
  what was in it shows.  With `Env = {}` it holds without the exception.
* `file_bytes` with "full", "nospace", "short" or "eio" alone reaches `panic`: a page
  that is not up to date stays behind, and there is no `read_folio`
  (`file.c:140`).  With "seek", "extend" or nothing it does not.
* `file_bytes` without the exception for `uneven` violates `BlocksMatchSize`,
  also with `Env = {}`: truncate to a smaller size keeps the blocks, and unlink
  frees only those below `i_size` (`inode.c:359`).
* `dir_calls` without the exceptions violates `NoneMissed` (a full buffer or
  a signal, `dir.c:61`) and `NoneTwice` (`-EIO` and a resumption, `dir.c:53`, `dir.c:56`).
* `super_mount` reaches `panic` with "inode" or with "dentry" in `Env` alone:
  `yaf_alloc_inode` returns `ERR_PTR` where `NULL` is expected (`super.c:66`),
  and the root inode is put twice when `d_make_root` fails (`super.c:222`).
  With "eio" or "nomem" alone it does not.
* `super_mount` without the exceptions violates `OnlyErrorsLeak`,
  `MountBalanced` and `CallsReturn`: `inode.c:436` returns with the inode locked
  and `I_NEW`.
* `super_mount` without the exception violates `SaidIsFormatted`: mkfs calls a
  device of fewer than `INODES_PER_BLOCK` blocks formatted, with counts of 0 and
  an `nr_d` that wrapped around (`mkfs.c:43`).
* `super_mount` reaches a mounted file system after a killed mkfs: the magic is
  the first thing written, the bitmaps may be old (`mkfs.c:299`).
* After `Umount`, `ysi` is still `"live"`: nothing frees `s_fs_info`
  (`super.c:233`).

### Why the bounds are enough

In the bitmap two threads are all that can meet at a bit, and 4 bits of which 2
are preset leave fewer free bits than the threads want, so they contend, fill
the block and meet the end of it; the second block exists because numbers of it
must never be needed or touched by mistake.

In the namespace, interesting disks are the ones that are nearly full: 4 inodes
are the root and two more, side by side or one below the other; two names give
every order of taking and freeing two slots; one dentry per block makes every
entry a block boundary, two in a block shows the slot that allocation does not
initialise.  The inode bitmap has one bit more than there are inodes, as on a
real device, so `yaf_iget` also rejects numbers. 4 inodes and 2 names with both
files and directories is past a few minutes of TLC, so `inode_nest` has both
kinds and one name, and `inode_grow` files only.  In `inode_grow` the root's two
entries share a block, and a file has up to three, so that the loops over blocks
have a first, a middle and a last one; with one dentry and two blocks for each,
so that the root grows past a block too, the same properties and `NlinkCounts`
hold as well (5,301 states).  In `inode_hostile` one name and one block already
give more than 600,000 states with all of `Env`.  "dir" is left out of it: what
directories do under memory pressure is `inode_pressure`.

A directory of two blocks of two dentries has every kind of resumption: at the
start, at a block boundary, within the first and within the second block; a
buffer of 1 takes one dot or one short name, one of 4 the dots and two more, so
calls end everywhere.  Three names for four slots leave room for holes and for
an entry that moves to an earlier slot when it is removed and made again.

A file of two blocks of two cells has writes of a whole block, of its beginning
and of its end, and writes to the second block while the first is missing; three
operations are what it takes for one to damage what another wrote and a third to
show it.  `MaxOps` bounds the operations and the values they write.

Devices: 3 blocks are less than `INODES_PER_BLOCK`; 4 are the smallest that has
an inode block and no data blocks; 9 are not a multiple of 4, and need two
bitmap blocks of 8 bits only before rounding down; 20 need three bitmap blocks;
70 are more than `uint32_t` can say in 6 bits, and wrap around to 6.  Two inodes
are the root, which is never evicted, and one that is.

Integers are scaled: `U32` is 256 or 64, or 6 where the wrap of `i_nlink` must
happen, always above every number of the instance but the 70 blocks, as 2^32 is.

### Deadlock

It is checked in `inode_nest`, `inode_grow`, `dir_calls` and `dir_resume`.  The
others may stop: after a panic the machine stands still (`inode_hostile`,
`inode_pressure`, `inode_reuse`, `file_bytes`, `super_mount`), and in the bitmap
runs and in `file_bytes` the calls are bounded.

### Fairness

* `bitmap_inode`: weak fairness of each thread's steps inside a call, because
  the kernel schedules a thread that is running kernel code again and again, and
  nothing in `bitmap.c` blocks but `sb_bread`, which ends by success or failure.
  Whether a thread calls at all is not fair.
* `dir_calls`: weak fairness of `Getdents`: who lists a directory calls again
  until the call returns nothing or an error.  `ReadEnds` says that this ends
  although entries are made and removed meanwhile, if the device stops failing;
  opening the directory, creating, deleting and faults are not fair.
* `file_bytes`: weak fairness of writing back each page and the inode, which the
  flusher threads do periodically, and of ending a write that has begun.
* `super_mount`: weak fairness of the steps inside `yaf_fill_super` and of
  `yaf_iget` once a lookup has its number.  A lookup of a stuck inode is not
  enabled, so fairness does not help it: `CallsReturn` excepts this case only.

## Proofs

A theorem holds for every value of the constants that the module's assumption
admits; TLC evaluates these assumptions on every run.  They say that counts are
natural numbers, that a `uint32_t` is larger than every number of a disk, that
there is a name (`Names # {}`), that sizes of devices are natural numbers
(`MkfsAssumption`), and that the markers `Absent`, `NotUptodate` and `NoName` are
none of the contents or names they are told apart from.

An invariant to be proved is first an `INVARIANT` of TLC's; the inductive ones
below passed on the instances of the runs (`SuperInv` 31,324 states, `DirInv`
171,580, `FileInv` 228,118, `NsInv` 18,843 on the disk of `inode_grow`, 254,688 on
that of `inode_nest`, and 29,580 with one name and three inodes with I/O errors,
truncate and failing writes).  Each of them is a conjunction of named parts, and each
proof has one lemma per action or per part.

### The allocator: `YafBitmap_proofs`

For any number of threads, blocks, bits, and any `U32` larger than the bitmap by
three:

* `TypeCorrect`: `Spec => []TypeOK`, from `BitmapAssumption` alone.
* `MutualExclusion`, `OwnedStaysMarked`, `PutsFindTheirBit`: `Exclusive`,
  `OwnedIsMarked` and `NoDoubleFree`, assuming `Sound`: reclaim does not happen
  if `brelse` comes first, and I/O errors do not happen unless the number
  returned on them is the reserved one.  The two variations of `bitmap_data`
  above show that neither half can be dropped.
* `DurableBits`: `CleanIsOnDisk`, for `yaf_get_free_inode`.
* `ImplementsPool`: `Spec => PoolSpec`: each step is a `Take`, a `Give` or a
  stutter of the pool.

The inductive invariant has to say what `Exclusive` does not: that a bit set by
a thread on its way out of the search is marked though nobody owns it yet, that
a thread in the middle of a put still owns the number, that nothing in use can
be lost with a reclaimed buffer (a clean block nobody holds equals the device),
and that the preset bits are nobody's.  Each action then disturbs one or two
conjuncts.

### The namespace: `YafInode_proofs`, `YafNamespace_proofs`

For every disk, every `Env`, any number of names and inodes:

* `TypeCorrect`: `Spec => []TypeOK`.  More than bookkeeping: it needs that
  block numbers are used as an index only after they proved readable, that a
  directory's size never passes `MAX_DENTRYS`, that the entry found by a search
  lies in the directory, and that link counts wrap in a `uint32_t`.
* `CleanOnDisk`: `Spec => []CleanMatchesDisk`: no path of an operation changes
  an inode and leaves it clean.

For every disk and `Quiet` environments, those without "pressure", "open",
"eio_iget" and "eio_dbmap".  Of the errors of the device this leaves those of
directory blocks and of the inode bitmap ("eio"); umount, writeback, truncate,
failing writes and a full disk are in.

* `ImplementsTree`: `Spec => TreeSpec`.
* `DentriesAgree`: `DcacheAgrees`; `LinksAreCounted`: `NlinkCounts`.
* `FreedInodesLeave`: `FreedLeaves`: an inode in memory whose number is free is
  one that unlink or rmdir has not let go of.  That new numbers are never those
  of such inodes (`FreshIno`) is false, as `inode_reuse` shows; what is true is
  that the tree survives it, because by then the old inode has no name.
* `BlocksAreExclusive`: `BlocksExclusive` as long as `NoneRanOut`, that is, no
  file or directory has `-ENOENT` for a block, which is what all of them get
  from a full bitmap.  `Quiet` is needed for the other number that all of them
  get, 0 from a bitmap that cannot be read.
* `NoBlockIsLost`: `NoLeak`, if the environment is also `Steady`, without
  "truncate" and "writefail": yaf frees by `i_size`, and these two let blocks
  and `i_size` disagree.  Full devices are allowed, and a create that stops half
  way because a directory block or the inode bitmap cannot be read.
* `OnlyExhaustionPanics`: `Spec /\ []~Exhausted => []NoPanic`, in `Steady`
  environments without "eio".  `Exhausted` says that the inode bitmap is full,
  that a file got a block from a full data bitmap, or that a name that could be
  made next has no place in its directory or no block on the device.  The
  hypothesis is not empty: `Exhausted` is false in each of the 18,843 states of
  `inode_grow`, which uses all the blocks there are.

`Quiet` is not a convenience: `inode_pressure` is the counterexample to `TreeSpec`
without it, "open" and "eio_dbmap" break `BlocksExclusive`, a stuck inode is in
memory for no call's sake, and the list of
disagreements above has those to `NoLeak` and `NoPanic` without the other
conditions.  An I/O error alone makes `CreatePanics` and `DeletePanics` possible.

The invariant, `NsInv`, is about the inodes as the file system sees them (`View`,
the struct inode if there is one).  None of its parts is inductive alone:

* `Shape`: a directory has blocks on the device up to its size and none beyond.
  So a search can read every entry, and the block a directory grows by is not
  one it had.
* `Alone`: a block is in one place of one inode.  So writing to a file, or an
  entry to a directory, changes no other directory.
* `Listed`: an inode has one name, and a name is in a directory once.  So the
  search finds the only entry there is, and removing it makes the name vanish;
  and the inode that `yaf_delete` frees is named nowhere else.
* `Links`: `i_nlink` against the entries in use.  It makes `rmdir`'s test of the
  count a test for emptiness, and the link that `yaf_delete` drops the last one;
  `DeleteLinked` is never taken (`DeleteLinkedNever`).
* `Caches`, with `DcacheAgrees`: inodes in memory are those that have a dentry,
  and those without links that a call still holds.  So `yaf_lookup` never reads an
  on-disk inode over a newer one in memory (what goes wrong in `inode_pressure`),
  a `struct inode` that is handed out again belongs to no name and no file, only
  to a call about to let go of it, and a freed inode leaves memory.
* `Sized` and `Owned`, in `Steady` environments: blocks and `i_size` agree, and
  no block is lost.

A step either leaves the tree alone (`SameTree`), makes a name (`NewName`) or
removes one (`NameGone`); these are the stutter, `Make` and `Remove` of `YafTree`.

### Directory reading: `YafDir_proofs`

For any names with any lengths, buffers and blocks, with all errors and changes
between the calls: `DirTypes` (`TypeOK`), `ReadsMissNone` (`NoneMissed`),
`ReadsRepeatNone` (`NoneTwice`), `ReadsShowNoGhost` (`NoGhost`).

`DirInv` turns on `ctx->pos`: once it is past the dots, everything that was there
at open is behind it and was reported, so a call that goes on has only later
entries before it; until then nothing was reported, unless a call failed.  It
also needs that a name has one entry (`OneEach`), or else an entry that moves to
an earlier slot would count twice.

### Files: `YafFile_proofs`

For files of any number of blocks of any number of cells, on a full device too,
with blocks that cannot be read and copies that fail:
`FileTypes` (`TypeOK`), `SizeGivesBlocks` (`BlocksMatchSize`),
`WritebackAllocatesNothing` (`DirtyIsMapped`), `CleanInodesAreSaved`
(`InodeSaved`) and `ImplementsBytes` (`Spec => BytesSpec`).
`WritebackAllocatesNothing` does not say that writeback succeeds: the entry it
finds may be the number of a full bitmap, whose writing fails.

`FileInv` adds to them that what was written has a block (`Mapped`), that a page
that is not dirty shows what is in its block (`Clean`), and what holds of the
page between `yaf_write_begin` and `yaf_write_end` (`Writing`): it is there, its
block is allocated, and unless the whole block is to be written it is up to
date.  So dropping a page, reading it again and writing it back show the same
bytes.

### mkfs, mount and the inode cache: `YafLayout_proofs`, `YafSuper_proofs`

For devices of every size of at least `INODES_PER_BLOCK` blocks after it was
taken as `uint32_t`, from `LayoutAssumption` (at least 4 inodes per block, at
least as many bits, and a `uint32_t` that is larger):

* `SectionsFit`: superblock, inode bitmap, data bitmap, inodes and data follow
  each other without a gap or an overlap, and the last ends with the last usable
  block, which is on the device.
* `InodePlaces`: each number below `nr_i * INODES_PER_BLOCK` has its block among
  the inode blocks and its bit in the inode bitmap.
* `DataPlaces`: each number below `nr_d` has its block on the device and its bit
  in the data bitmap.

The heart is `Counts`: the usable blocks are a multiple of `INODES_PER_BLOCK`, so
there are as many inodes as blocks; the bitmaps have at most as many blocks as
the inode section; so what is subtracted from the number of blocks is at most
that number, and `nr_d` does not wrap around.  Smaller devices are the exception
`super_mount` meets with 3 blocks, and four inodes per block are what the
subtraction needs.

On these rest the theorems of `YafSuper_proofs`, for any list of device sizes,
any old contents, all failures and mkfs killed and repeated at any point:
`SuperTypes` (`TypeOK`), `FormattedWhenSaid` (`SaidIsFormatted`),
`FormattedDevicesMount` (`FormattedMounts`), `MountsBalance` (`MountBalanced`),
`CacheOutlivesMounts` (`CacheOutlives`) and `LeaksAreErrors` (`OnlyErrorsLeak`).
`MountsBalance` is about returns: a root inode that could not be read stays
locked in memory, and after a failed `d_make_root` the kernel crashes before
`yaf_fill_super` returns.

`SuperInv` has three arguments in it.  `Prefix`: when mkfs is at write `n`, the
writes before `n` are on the device, and none of them undoes another, because the
sections do not overlap; `WritesAt` says which write is which for any number of
bitmap blocks.  `Stages`: at each label of `yaf_fill_super`, which of the buffer,
`ysi` and the root inode it holds, and whether `ret` is an error.  `Leaks`:
a `struct inode` that is stuck or held comes from an inode that could not be
read.

### Not proved

Out of the prover's reach: `GetReturns`, `ReadEnds`, `ReachesDisk` and
`CallsReturn`, which are liveness under fairness.  `NoPanic` is proved only up to
exhaustion, and no condition on the constants would do instead: mkfs makes one
inode for each usable block of a device, so no device has blocks for all its
inodes, and users have more names than a directory has slots.  That a disk with
enough of everything is never exhausted stays with `inode_grow`.  What the
theorems except (`Sound`, `Quiet`, `Steady`, `NoneRanOut`) is what the code does
not keep, as the violation runs and the variations show.

## Not modelled

* A crash of the driver between two writebacks (`inode.c:181`): yaf has no
  journal and no fsck, and promises nothing; the unmount in `YafInode` writes
  everything.  mkfs being killed is modelled.
* Path walk under RCU, which may read an inode that `yaf_destroy_inode` freed
  (`super.c:84`): the readers are the VFS's, and their protocol is not visible in
  yaf.
* Errors of the device on writing back a page, a buffer or an inode
  (`super.c:98`).  The VFS and the buffer cache do not repeat such a write, so the
  change is lost when the page or inode is dropped, whatever yaf does.  Pages of
  blocks that are not on the device are modelled (`off` in `YafFile`).
* Command line arguments of mkfs and its exit status, build files, `test.py`,
  logging, interface headers without code.
* Times, owners and permissions.

## Plan

Done: all modules above; every safety property of the passing runs and the three
refinements are proved, under the conditions above.  Next, in this order:

1. What survives memory pressure: which parts of `NsInv` hold with "pressure" if
   a dirty inode keeps its dentries, to show that this alone is what is missing.
2. A crash between the writeback of bitmap, inode and directory blocks: which
   of them can disagree after the next mount.
