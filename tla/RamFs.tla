------------------------------- MODULE RamFs -------------------------------
(***************************************************************************)
(* The RAM file system (fs/fs.c): a table of inodes with a fixed data area *)
(* each, and a table of file descriptors per process.  fork copies the     *)
(* descriptors and proc_exit closes them.                                  *)
(*                                                                         *)
(* System calls run to completion, and so do the calls of kernel programs: *)
(* no interrupt handler touches a file.  ext4 is never mounted (fs_init    *)
(* sets ext4_ready to false), so a name is looked up in the table alone.   *)
(***************************************************************************)
EXTENDS Integers, Sequences

CONSTANTS
  PROC_MAX, FD_MAX, RAMFS_MAX_FILES,
  RAMFS_DATA_MAX,  \* bytes of a file
  Name,            \* names that normalize_name returns
  Data,            \* bytes that are written; 0 is what memset leaves
  README,          \* the name of the file fs_init makes
  OpenFlags,       \* flags open is called with
  MaxLen           \* longest read or write

ASSUME RamFsAssumption ==
  /\ {PROC_MAX, FD_MAX, RAMFS_MAX_FILES, RAMFS_DATA_MAX} \subseteq Nat \ {0}
  /\ README \in Name
  /\ Data \subseteq Nat \ {0} /\ Data # {}
  /\ OpenFlags \subseteq [mode : {"r", "w", "rw"}, creat : BOOLEAN, trunc : BOOLEAN, append : BOOLEAN]
  /\ MaxLen \in Nat

Proc  == 1 .. PROC_MAX
Fd    == 0 .. FD_MAX - 1
Inode == 0 .. RAMFS_MAX_FILES - 1
Byte  == Data \cup {0}
Pos   == 1 .. RAMFS_DATA_MAX

Mode == {"r", "w", "rw"}

NoName == "none"

NoDesc  == [used |-> FALSE, inode |-> 0, offset |-> 0, mode |-> "r", append |-> FALSE]
NoInode == [used |-> FALSE, name |-> NoName, data |-> [i \in Pos |-> 0], size |-> 0]

VARIABLES
  inodes,    \* the table of inodes
  fds,       \* the descriptors of each process
  alive,     \* the processes that run
  got        \* what the last read put into the buffer

fs_vars == <<inodes, fds, alive, got>>

----------------------------------------------------------------------------
(* Tables.  The empty set is -1.                                           *)

find_inode_by_name(name) == {i \in Inode : inodes[i].used /\ inodes[i].name = name}

alloc_inode == {i \in Inode : ~inodes[i].used /\ \A j \in Inode : j < i => inodes[j].used}

alloc_fd(p) == {d \in Fd : ~fds[p][d].used /\ \A e \in Fd : e < d => fds[p][e].used}

get_open_fd(p) == {d \in Fd : fds[p][d].used}

(* fs_init.  One byte stands for the text of README.                       *)
FsInit ==
  /\ \E b \in Data : inodes = [i \in Inode |->
       IF i = 0 THEN [used |-> TRUE, name |-> README, data |-> [NoInode.data EXCEPT ![1] = b], size |-> 1]
                ELSE NoInode]
  /\ fds = [p \in Proc |-> [d \in Fd |-> NoDesc]]
  /\ alive = {1}
  /\ got = <<>>

----------------------------------------------------------------------------
(* System calls.  A call that fails changes nothing but got.               *)

Fails == got' = <<>> /\ UNCHANGED <<inodes, fds, alive>>

install_fd(p, fd) ==
  IF alloc_fd(p) = {} THEN UNCHANGED fds
  ELSE \E d \in alloc_fd(p) : fds' = [fds EXCEPT ![p][d] = fd]

ensure_ramfs_inode(name, creat) ==
  IF find_inode_by_name(name) # {} THEN find_inode_by_name(name)
  ELSE IF creat THEN alloc_inode ELSE {}

(* The file stays created and truncated when there is no descriptor left.  *)
fs_open(p, name, flags) ==
  \/ ensure_ramfs_inode(name, flags.creat) = {} /\ Fails
  \/ \E i \in ensure_ramfs_inode(name, flags.creat) :
       LET found == IF inodes[i].used THEN inodes[i] ELSE [NoInode EXCEPT !.used = TRUE, !.name = name]
           inode == IF flags.trunc THEN [found EXCEPT !.size = 0] ELSE found
       IN  /\ inodes' = [inodes EXCEPT ![i] = inode]
           /\ install_fd(p, [used |-> TRUE, inode |-> i, mode |-> flags.mode, append |-> flags.append,
                             offset |-> IF flags.append THEN inode.size ELSE 0])
           /\ got' = <<>>
           /\ UNCHANGED alive

fs_close(p, d) ==
  /\ d \in get_open_fd(p)
  /\ fds' = [fds EXCEPT ![p][d] = NoDesc]
  /\ got' = <<>>
  /\ UNCHANGED <<inodes, alive>>

Lower(a, b) == IF a < b THEN a ELSE b

(* Mutant: a read is bounded by the data area instead of the file.         *)
Readable_whole_area(fd, len) == Lower(len, RAMFS_DATA_MAX - fd.offset)

Readable(fd, len) ==
  IF fd.offset >= inodes[fd.inode].size THEN 0
  ELSE Lower(len, inodes[fd.inode].size - fd.offset)

fs_read(p, d, len) ==
  LET fd == fds[p][d]
      n == Readable(fd, len)
  IN  /\ d \in get_open_fd(p)
      /\ fd.mode # "w"
      /\ got' = [k \in 1 .. n |-> inodes[fd.inode].data[fd.offset + k]]
      /\ fds' = [fds EXCEPT ![p][d].offset = @ + n]
      /\ UNCHANGED <<inodes, alive>>

WriteOffset(fd) == IF fd.append THEN inodes[fd.inode].size ELSE fd.offset

Writable(offset, len) ==
  IF offset >= RAMFS_DATA_MAX THEN 0 ELSE Lower(len, RAMFS_DATA_MAX - offset)

fs_write(p, d, bytes) ==
  LET fd == fds[p][d]
      offset == WriteOffset(fd)
      n == Writable(offset, Len(bytes))
      inode == inodes[fd.inode]
  IN  /\ d \in get_open_fd(p)
      /\ fd.mode # "r"
      /\ inodes' = [inodes EXCEPT ![fd.inode] =
           [inode EXCEPT !.data = [k \in Pos |-> IF k \in offset + 1 .. offset + n
                                                 THEN bytes[k - offset] ELSE inode.data[k]],
                         !.size = IF offset < RAMFS_DATA_MAX /\ offset + n > @ THEN offset + n ELSE @]]
      /\ fds' = [fds EXCEPT ![p][d].offset = offset + n]
      /\ got' = <<>>
      /\ UNCHANGED alive

(* Mutant: only the caller's descriptors are ended.                        *)
EndedFd_own(p, q, i) == {d \in get_open_fd(q) : q = p /\ fds[q][d].inode = i}

EndedFd(p, q, i) == {d \in get_open_fd(q) : fds[q][d].inode = i}

(* The descriptors of all processes are ended.                             *)
fs_unlink(p, name) ==
  \E i \in find_inode_by_name(name) :
    /\ fds' = [q \in Proc |-> [d \in Fd |->
         IF d \in EndedFd(p, q, i) THEN [fds[q][d] EXCEPT !.used = FALSE] ELSE fds[q][d]]]
    /\ inodes' = [inodes EXCEPT ![i] = NoInode]
    /\ got' = <<>>
    /\ UNCHANGED alive

(* Mutant: the new name may be taken.                                      *)
MayRename_over(new) == TRUE

MayRename(new) == find_inode_by_name(new) = {}

fs_rename(old, new) ==
  /\ old # new
  /\ MayRename(new)
  /\ \E i \in find_inode_by_name(old) : inodes' = [inodes EXCEPT ![i].name = new]
  /\ got' = <<>>
  /\ UNCHANGED <<fds, alive>>

----------------------------------------------------------------------------
(* Processes: init_process_common clears the descriptors, proc_fork copies *)
(* them, proc_exit closes them.                                            *)
create_process(p) ==
  /\ p \notin alive
  /\ alive' = alive \cup {p}
  /\ fds' = [fds EXCEPT ![p] = [d \in Fd |-> NoDesc]]
  /\ UNCHANGED <<inodes, got>>

proc_fork(p, c) ==
  /\ c \notin alive
  /\ alive' = alive \cup {c}
  /\ fds' = [fds EXCEPT ![c] = fds[p]]
  /\ UNCHANGED <<inodes, got>>

proc_exit(p) ==
  /\ alive' = alive \ {p}
  /\ fds' = [fds EXCEPT ![p] = [d \in Fd |-> IF fds[p][d].used THEN NoDesc ELSE fds[p][d]]]
  /\ UNCHANGED <<inodes, got>>

Bytes == UNION {[1 .. k -> Data] : k \in 0 .. MaxLen}

FsNext ==
  \/ \E p \in alive, name \in Name, flags \in OpenFlags : fs_open(p, name, flags)
  \/ \E p \in alive, d \in Fd : fs_close(p, d)
  \/ \E p \in alive, d \in Fd, len \in 0 .. MaxLen : fs_read(p, d, len)
  \/ \E p \in alive, d \in Fd, bytes \in Bytes : fs_write(p, d, bytes)
  \/ \E p \in alive, name \in Name : fs_unlink(p, name)
  \/ \E old, new \in Name : alive # {} /\ fs_rename(old, new)
  \/ \E p \in Proc : create_process(p)
  \/ \E p \in alive, c \in Proc : proc_fork(p, c)
  \/ \E p \in alive : proc_exit(p)

FsSpec == FsInit /\ [][FsNext]_fs_vars

----------------------------------------------------------------------------
FsTypeOK ==
  /\ inodes \in [Inode -> [used : BOOLEAN, name : Name \cup {NoName},
                           data : [Pos -> Byte], size : 0 .. RAMFS_DATA_MAX]]
  /\ fds \in [Proc -> [Fd -> [used : BOOLEAN, inode : Inode, offset : 0 .. RAMFS_DATA_MAX,
                              mode : Mode, append : BOOLEAN]]]
  /\ alive \subseteq Proc
  /\ got \in UNION {[1 .. n -> Byte] : n \in 0 .. RAMFS_DATA_MAX}

(* No two files have one name: create and rename never make a second one,  *)
(* so find_inode_by_name has one answer.                                   *)
NamesAreUnique ==
  \A i, j \in Inode :
    inodes[i].used /\ inodes[j].used /\ inodes[i].name = inodes[j].name => i = j

(* An open descriptor names a file that exists: unlink, in whichever       *)
(* process and after whatever forks, leaves none to the freed inode, which *)
(* the next create reuses.                                                 *)
DescriptorsAreLive ==
  \A p \in Proc, d \in Fd :
    fds[p][d].used => p \in alive /\ inodes[fds[p][d].inode].used

(* Files as sequences and descriptors as handles, without tables.          *)
Live == {i \in Inode : inodes[i].used}

Contents(i) == [k \in 1 .. inodes[i].size |-> inodes[i].data[k]]

Files == [n \in {inodes[i].name : i \in Live} |->
            Contents(CHOOSE i \in Live : inodes[i].name = n)]

Handles(p) == [d \in get_open_fd(p) |->
  [file |-> inodes[fds[p][d].inode].name, pos |-> fds[p][d].offset,
   mode |-> fds[p][d].mode, append |-> fds[p][d].append]]

Store == INSTANCE FileStore
  WITH files <- Files, handles <- [p \in Proc |-> Handles(p)], Capacity <- RAMFS_DATA_MAX

(* Tables, slots and reuse are invisible: open, read, write, unlink,       *)
(* rename and fork act on files and handles as FileStore promises.  A read *)
(* returns what is in the named file, never what another file left.        *)
ImplementsFileStore == Store!Spec
=============================================================================
