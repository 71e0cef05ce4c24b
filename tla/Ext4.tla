-------------------------------- MODULE Ext4 --------------------------------
(***************************************************************************)
(* The read-only ext4 file system (fs/ext4.c) on the block driver: mount,  *)
(* which lists the root directory, and the reads of fs.c through open      *)
(* descriptors.  All calls share block_buf, and a call sleeps in blk_read. *)
(*                                                                         *)
(* Sizes are counted in sectors.  A sector of the disk is what its bytes   *)
(* mean to each of the structures the code overlays on it.  inode_size is  *)
(* a power of two, so no inode crosses two blocks; sums fit 32 bits.       *)
(***************************************************************************)
EXTENDS VirtioBlk

CONSTANTS
  Disk,               \* the contents of each sector
  Blank,              \* the contents of a buffer that was never filled
  SECTORS,            \* sectors of a block
  InodesPerGroup, InodesPerSector, GdsPerSector,
  EXT4_MAX_ROOT_ENTRIES,
  Length,             \* lengths of reads
  Files,              \* what the disk was made from: the sectors of each file
  RootNames           \* and the names in its root directory, in order

ASSUME Ext4Assumption ==
  /\ {SECTORS, InodesPerGroup, InodesPerSector, GdsPerSector, EXT4_MAX_ROOT_ENTRIES}
       \subseteq Nat \ {0}
  /\ DOMAIN Disk = Sector
  /\ Length \subseteq Nat

VARIABLES
  mounted, root_files,
  fd,          \* the ext4 file each caller has open, and its offset
  call         \* the locals of each caller's call

ext4_vars == <<blkVars, mounted, root_files, fd, call>>

ROOT_INODE == 2

Part == 0 .. SECTORS - 1

NoInode == [size |-> 0, high |-> FALSE, node |-> Blank.node]

(* What a call knows: what it is, what it reads (step, block and part),    *)
(* the inode and its number, the range of inode_read_data, what it has     *)
(* copied, its result n, and whether other calls came in between (alone)   *)
(* or a sector could not be read (failed).                                 *)
NoCall == [op |-> "none", step |-> "none", block |-> 0, part |-> 0, inum |-> 0, ino |-> NoInode,
           off |-> 0, remaining |-> 0, done |-> 0, out |-> <<>>, files |-> <<>>, n |-> 0,
           len |-> 0, alone |-> TRUE, failed |-> FALSE]

NoFile == [file |-> 0, offset |-> 0]

Ext4Init ==
  /\ BlkInit([b \in {"block_buf", "sbraw"} |-> [i \in Part |-> NoSector]])
  /\ mounted = FALSE /\ root_files = <<>>
  /\ fd = [c \in Caller |-> NoFile]
  /\ call = [c \in Caller |-> NoCall]

(* Part i of a buffer, as the structures that are overlaid on it.          *)
At(buf, i) == IF memory[buf][i] \in Sector THEN Disk[memory[buf][i]] ELSE Blank

----------------------------------------------------------------------------
(* The steps of a call: each operator takes the locals k and returns what  *)
(* they are when the next block is to be read, or when the call has ended. *)

End(k, n) == [k EXCEPT !.step = "end", !.n = n]

read_block(k, step, block) == [k EXCEPT !.step = step, !.block = block, !.part = 0]

(* read_inode fails.                                                       *)
NoSuchInode(k) == End(k, IF k.op = "mount" THEN 0 - 16 ELSE 0 - 1)

Group(k) == (k.inum - 1) \div InodesPerGroup
Local(k) == (k.inum - 1) % InodesPerGroup

(* The sectors of the descriptor and of the inode, in their tables.        *)
GdSector(k) == Group(k) \div GdsPerSector
InodeSector(k) == Local(k) \div InodesPerSector

load_group_desc(k) ==
  read_block(k, "gd", (IF SECTORS = 2 THEN 2 ELSE 1) + (GdSector(k) \div SECTORS))

read_inode(k) == IF k.inum = 0 THEN NoSuchInode(k) ELSE load_group_desc(k)

(* The extent of a leaf that covers lblock, the first if there are more.   *)
Covers_inclusive(e, lblock) == lblock >= e.block /\ lblock <= e.block + e.len

Covers(e, lblock) == lblock >= e.block /\ lblock < e.block + e.len

Fail == 0 - 1

LeafLookup(node, lblock) ==
  LET is == {i \in DOMAIN node.entries : Covers(node.entries[i], lblock)}
      e == node.entries[Min(is)]
  IN  IF is = {} THEN Fail ELSE IF e.hi THEN Fail ELSE e.start + (lblock - e.block)

(* The entry of an index node to follow: the last of those at the front    *)
(* that start at or before lblock.                                         *)
IndexLookup(node, lblock) ==
  LET is == {i \in DOMAIN node.entries : \A j \in 1 .. i : node.entries[j].block <= lblock}
      e == node.entries[Max(is)]
  IN  IF is = {} THEN Fail ELSE IF e.hi THEN Fail ELSE e.start

Lblock(k) == (k.off + k.done) \div SECTORS

(* The block the loop of inode_read_data needs next, or Fail to leave it.  *)
extent_find_physical(k) ==
  LET leaf == k.ino.node.magic /\ k.ino.node.depth = 0
      index == k.ino.node.magic /\ k.ino.node.depth = 1
  IN  IF k.done < k.remaining /\ leaf
      THEN [step |-> "data", block |-> LeafLookup(k.ino.node, Lblock(k))]
      ELSE IF k.done < k.remaining /\ index
      THEN [step |-> "leaf", block |-> IndexLookup(k.ino.node, Lblock(k))]
      ELSE [step |-> "data", block |-> Fail]

(* The range of inode_read_data for len sectors from off.                  *)
Chunks(k, off, len) ==
  [k EXCEPT !.off = off, !.done = 0, !.remaining = Min({len, k.ino.size - off})]

(* The sequences in ss one after the other.                                *)
Joined(ss) ==
  LET upto[n \in 0 .. Len(ss)] == IF n = 0 THEN <<>> ELSE upto[n - 1] \o ss[n]
  IN  upto[Len(ss)]

(* The entries of the directory block that was read: up to a record length *)
(* of 0, those that are in use and are not "." and "..".                   *)
Dirents_with_deleted(k) ==
  SelectSeq(Joined([i \in 1 .. k.done |-> At("block_buf", i - 1).dirents]),
            LAMBDA e : e.name \notin {"", ".", ".."})

Dirents(k) ==
  LET all == Joined([i \in 1 .. k.done |-> At("block_buf", i - 1).dirents])
      ends == {i \in DOMAIN all : all[i].rec_len = 0}
      valid == IF ends = {} THEN all ELSE SubSeq(all, 1, Min(ends) - 1)
  IN  SelectSeq(valid, LAMBDA e : e.inode # 0 /\ e.name \notin {"", ".", ".."})

AddFiles(k) ==
  LET files == k.files \o [i \in DOMAIN Dirents(k) |-> [name |-> Dirents(k)[i].name,
                                                       inode |-> Dirents(k)[i].inode]]
  IN  [k EXCEPT !.files = SubSeq(files, 1, Min({Len(files), EXT4_MAX_ROOT_ENTRIES}))]

(* scan_root_dir goes on at its next block, or ends.                       *)
scan_root_dir(k, off) ==
  LET next == Chunks(k, off, SECTORS)
      need == extent_find_physical(next)
  IN  IF off >= k.ino.size \/ Len(k.files) >= EXT4_MAX_ROOT_ENTRIES \/ need.block = Fail
      THEN End(k, 0) ELSE read_block(next, need.step, need.block)

(* inode_read_data returns k.done.                                         *)
Return(k) ==
  IF k.op = "read" THEN End(k, k.done)
  ELSE IF k.done = 0 THEN End(k, 0)
  ELSE scan_root_dir(AddFiles(k), k.off + SECTORS)

(* The loop of inode_read_data, where it is to go on.                      *)
inode_read_data(k) ==
  LET need == extent_find_physical(k)
  IN  IF k.step # "loop" THEN k
      ELSE IF need.block = Fail THEN Return(k)
      ELSE read_block(k, need.step, need.block)

----------------------------------------------------------------------------
(* What a call does with the block it has read.                            *)

(* The checks of the superblock: 0, or the code of the one that fails.     *)
AfterSuper(k) ==
  IF At("sbraw", 0).super # 0 THEN End(k, At("sbraw", 0).super)
  ELSE read_inode([k EXCEPT !.inum = ROOT_INODE])

AfterGroupDesc(k) ==
  LET gd == At("block_buf", GdSector(k) % SECTORS).gd[1 + (Group(k) % GdsPerSector)]
  IN  IF gd.hi THEN NoSuchInode(k)
      ELSE read_block(k, "inode", gd.lo + (InodeSector(k) \div SECTORS))

AfterInode(k) ==
  LET ino == At("block_buf", InodeSector(k) % SECTORS)
               .inodes[1 + (Local(k) % InodesPerSector)]
      with == [k EXCEPT !.ino = ino]
  IN  IF k.op = "mount"
      THEN IF ino.high THEN NoSuchInode(k) ELSE scan_root_dir(with, 0)
      ELSE IF ino.high THEN End(k, 0 - 1)
      ELSE IF k.off >= ino.size THEN End(k, 0)
      ELSE [Chunks(with, k.off, k.len) EXCEPT !.step = "loop"]

AfterLeaf(k) ==
  LET node == At("block_buf", 0).node
      block == LeafLookup(node, Lblock(k))
  IN  IF ~node.magic \/ node.depth # 0 THEN Return(k)
      ELSE IF block = Fail THEN Return(k)
      ELSE read_block(k, "data", block)

(* The memcpy of a directory block is onto itself.                         *)
AfterData(k) ==
  LET boff == (k.off + k.done) % SECTORS
      chunk == Min({SECTORS - boff, k.remaining - k.done})
      copied == [i \in 1 .. chunk |-> memory["block_buf"][boff + i - 1]]
  IN  [k EXCEPT !.step = "loop", !.done = @ + chunk,
                !.out = IF k.op = "read" THEN @ \o copied ELSE @]

After(k) ==
  CASE k.step = "super" -> AfterSuper(k)
    [] k.step = "gd"    -> AfterGroupDesc(k)
    [] k.step = "inode" -> AfterInode(k)
    [] k.step = "leaf"  -> AfterLeaf(k)
    [] k.step = "data"  -> AfterData(k)

(* blk_read failed.                                                        *)
AfterError(k) ==
  LET f == [k EXCEPT !.failed = TRUE]
  IN  CASE k.step = "super" -> End(f, IF k.part = 0 THEN 0 - 11 ELSE 0 - 12)
        [] k.step \in {"gd", "inode"} -> NoSuchInode(f)
        [] k.step \in {"leaf", "data"} -> Return(f)

(* The next sector of the block, or what follows the block.                *)
Step(k, ok) ==
  IF ~ok THEN AfterError(k)
  ELSE IF k.part + 1 < SECTORS THEN [k EXCEPT !.part = @ + 1]
  ELSE After(k)

----------------------------------------------------------------------------
(* The calls.                                                              *)

(* c goes on with the locals k: the next blk_read, or the end of the call. *)
(* runs is what blk_read made of run.                                      *)
Continue(c, k, runs, calls) ==
  /\ call' = [calls EXCEPT ![c] = k]
  /\ run' = [runs EXCEPT ![c] = "running"]
  /\ loop' = [loop EXCEPT ![c] = IF k.step = "end" THEN "none" ELSE "slot"]
  /\ request' = [request EXCEPT ![c] =
       IF k.step = "end" THEN NoRequest
       ELSE [sector |-> k.block * SECTORS + k.part,
             buf |-> IF k.step = "super" THEN "sbraw" ELSE "block_buf", part |-> k.part]]

Reads(c) ==
  /\ blk_read_return(c)
  /\ \E k \in {Step(call[c], ReadOk(c))} :
       \E next \in {inode_read_data(k)} : Continue(c, next, Woken, call)
  /\ UNCHANGED <<mounted, root_files, fd>>

(* A call starts; those that sleep in theirs are no longer alone.          *)
Busy == {c \in Caller : call[c].op # "none"}
Others(c) == [d \in Caller |-> IF d \in Busy THEN [call[d] EXCEPT !.alone = FALSE] ELSE call[d]]

Begins(c) == c \notin Busy /\ OnCpu(c)

(* The superblock is in sectors 2 and 3.  Nothing is open before.          *)
ext4_mount(c) ==
  /\ ~mounted /\ Busy = {}
  /\ blk_init
  /\ Continue(c, read_block([NoCall EXCEPT !.op = "mount"], "super", 2 \div SECTORS), run, call)
  /\ UNCHANGED <<slot_idx, memory, errors, mounted, root_files, fd>>

ext4_mount_returns(c) ==
  /\ call[c].op = "mount" /\ call[c].step = "end"
  /\ mounted' = (call[c].n = 0)
  /\ root_files' = call[c].files
  /\ call' = [call EXCEPT ![c] = NoCall]
  /\ run' = [run EXCEPT ![c] = "out"]
  /\ UNCHANGED <<blk_ready, blk_slots, desc, rings, blk_waitq, loop, request, slot_idx, memory, errors, fd>>

ext4_lookup(name) == {i \in DOMAIN root_files : root_files[i].name = name}

open_ext4_readonly(c, name) ==
  /\ mounted /\ Begins(c)
  /\ ext4_lookup(name) # {}
  /\ fd' = [fd EXCEPT ![c] = [file |-> Min(ext4_lookup(name)), offset |-> 0]]
  /\ UNCHANGED <<blkVars, mounted, root_files, call>>

(* fs_read of an ext4 descriptor, up to its first blk_read.                *)
ext4_read_file(c, len) ==
  /\ mounted /\ Begins(c)
  /\ fd[c].file # 0
  /\ Continue(c, read_inode([NoCall EXCEPT !.op = "read", !.inum = root_files[fd[c].file].inode,
                                           !.off = fd[c].offset, !.len = len, !.alone = (Busy = {})]),
              run, Others(c))
  /\ UNCHANGED <<blk_ready, blk_slots, desc, rings, blk_waitq, slot_idx, memory, errors, mounted, root_files, fd>>

fs_read_returns(c) ==
  /\ call[c].op = "read" /\ call[c].step = "end"
  /\ fd' = [fd EXCEPT ![c].offset = IF call[c].n > 0 THEN @ + call[c].n ELSE @]
  /\ call' = [call EXCEPT ![c] = NoCall]
  /\ run' = [run EXCEPT ![c] = "out"]
  /\ UNCHANGED <<blk_ready, blk_slots, desc, rings, blk_waitq, loop, request, slot_idx, memory, errors,
                 mounted, root_files>>

FsUnchanged == UNCHANGED <<mounted, root_files, fd, call>>

InKernel(c) ==
  \/ Reads(c) \/ ext4_mount_returns(c) \/ fs_read_returns(c)
  \/ (blk_read_slot(c) \/ blk_read_sleep(c)) /\ FsUnchanged

Ext4Next ==
  \/ \E c \in Caller :
       \/ InKernel(c)
       \/ ext4_mount(c)
       \/ \E name \in DOMAIN Files : open_ext4_readonly(c, name)
       \/ \E len \in Length : ext4_read_file(c, len)
  \/ (blk_handle_irq \/ Device) /\ FsUnchanged

Ext4Spec == Ext4Init /\ [][Ext4Next]_ext4_vars

(* The device works off its ring and interrupts, interrupts are taken, and *)
(* when processes can run in the kernel one of them does.                  *)
Fairness ==
  /\ WF_ext4_vars((blk_handle_irq \/ Device) /\ FsUnchanged)
  /\ WF_ext4_vars(\E c \in Caller : InKernel(c))

Ext4FairSpec == Ext4Spec /\ Fairness

----------------------------------------------------------------------------
(* Properties.                                                             *)

(* A slot that is in use belongs to exactly one caller of blk_read that    *)
(* waits for its answer, and a request that the device still holds, or has *)
(* completed unseen, is that of a slot in use, once: what the device       *)
(* writes never lands in the buffer of a call that has returned.           *)
SlotOf(i, r) == \E c \in Caller : loop[c] = "answer" /\ slot_idx[c] = i /\ request[c] = r

SlotsAreOwned ==
  /\ \A i \in BlkSlot :
       blk_slots[i].in_use <=> \E c \in Caller : loop[c] = "answer" /\ slot_idx[c] = i
  /\ \A c, d \in Caller :
       c # d /\ loop[c] = "answer" /\ loop[d] = "answer" => slot_idx[c] # slot_idx[d]
  /\ IsInjective(avail) /\ IsInjective(used)
  /\ Range(avail) \cap taken = {} /\ Range(avail) \cap Range(used) = {}
  /\ taken \cap Range(used) = {}
  /\ \A i \in Range(avail) \cup taken \cup Range(used) :
       blk_slots[i].in_use /\ ~blk_slots[i].done /\ SlotOf(i, desc[i])

(* The sectors of a file from off on, up to a hole.                        *)
Expected(file, off, len) ==
  LET last == Min({Len(file), off + len})
      holes == {i \in off + 1 .. last : file[i] = NoSector}
  IN  SubSeq(file, off + 1, IF holes = {} THEN last ELSE Min(holes) - 1)

IsStart(s, t) == Len(s) <= Len(t) /\ s = SubSeq(t, 1, Len(s))

(* A read that no other ext4 call came in between returns what is in the   *)
(* file at its offset, as much as there is up to a hole; if a sector could *)
(* not be read, it returns the part before it, or an error.                *)
ReadAloneIsExact ==
  \A c \in Caller :
    call[c].op = "read" /\ call[c].step = "end" /\ call[c].alone =>
      LET right == Expected(Files[root_files[fd[c].file].name], fd[c].offset, call[c].len)
      IN  IF call[c].failed THEN IsStart(call[c].out, right)
          ELSE call[c].out = right /\ call[c].n = Len(right)

(* After a mount the listed files are the first of the directory, and all  *)
(* that fit unless a sector of the directory could not be read.            *)
MountedIsListed ==
  \A c \in Caller :
    call[c].op = "mount" /\ call[c].step = "end" =>
      LET names == [i \in DOMAIN call[c].files |-> call[c].files[i].name]
      IN  /\ IsStart(names, RootNames)
          /\ ~call[c].failed => Len(names) = Min({Len(RootNames), EXT4_MAX_ROOT_ENTRIES})

(* Calls come to an end: as long as calls wait, for slots or for the disk, *)
(* one of them returns, and no completion and no freed slot goes unnoticed *)
(* by all.  (A caller that frees its slot may take it again before those   *)
(* it woke: which call returns is not said.)                               *)
CallsReturn == []<>(Busy = {} \/ \E c \in Caller : call[c].step = "end")
=============================================================================
