----------------------------- MODULE FileStore -----------------------------
(***************************************************************************)
(* What programs are promised of files: a file is a sequence of bytes with *)
(* a name, a handle is a file and a position of its own, fork copies the   *)
(* handles, and unlink ends all handles of a file.                         *)
(***************************************************************************)
EXTENDS Naturals, Sequences

CONSTANTS Proc, Fd, Name, Byte, Capacity

VARIABLES
  files,     \* the files: a partial function from names to sequences
  handles,   \* the open handles of each process: partial functions from Fd
  got        \* the bytes the last call returned

vars == <<files, handles, got>>

Least(a, b) == IF a < b THEN a ELSE b

Without(f, S) == [x \in DOMAIN f \ S |-> f[x]]

With(f, x, v) == [y \in DOMAIN f \cup {x} |-> IF y = x THEN v ELSE f[y]]

Init ==
  /\ \E n \in Name, bytes \in Byte : files = [m \in {n} |-> <<bytes>>]
  /\ handles = [p \in Proc |-> <<>>]
  /\ got = <<>>

(* A file is found or made, and may be cleared; the handle may fail.       *)
Open(p, n) ==
  \E content \in {<<>>} \cup {files[m] : m \in {n} \cap DOMAIN files} :
    /\ files' = With(files, n, content)
    /\ got' = <<>>
    /\ \/ UNCHANGED handles
       \/ \E fd \in Fd \ DOMAIN handles[p], pos \in {0, Len(content)}, h \in {"r", "w", "rw"}, a \in BOOLEAN :
            handles' = [handles EXCEPT ![p] =
              With(@, fd, [file |-> n, pos |-> pos, mode |-> h, append |-> a])]

Close(p, fd) ==
  /\ handles' = [handles EXCEPT ![p] = Without(@, {fd})]
  /\ got' = <<>>
  /\ UNCHANGED files

Read(p, fd, len) ==
  LET h == handles[p][fd]
      last == Least(h.pos + len, Len(files[h.file]))
  IN  /\ h.mode # "w"
      /\ got' = SubSeq(files[h.file], h.pos + 1, last)
      /\ handles' = [handles EXCEPT ![p][fd].pos = h.pos + Len(got')]
      /\ UNCHANGED files

(* What a write past the end leaves in between is not promised.            *)
Write(p, fd, bytes) ==
  LET h == handles[p][fd]
      old == files[h.file]
      pos == IF h.append THEN Len(old) ELSE h.pos
      n == Least(Len(bytes), Capacity - pos)
  IN  /\ h.mode # "r"
      /\ pos < Capacity
      /\ files' \in [DOMAIN files -> Seq(Byte)]
      /\ \A m \in DOMAIN files \ {h.file} : files'[m] = files[m]
      /\ Len(files'[h.file]) = IF pos + n > Len(old) THEN pos + n ELSE Len(old)
      /\ \A i \in 1 .. Len(files'[h.file]) :
           IF i \in pos + 1 .. pos + n THEN files'[h.file][i] = bytes[i - pos]
           ELSE i <= Len(old) => files'[h.file][i] = old[i]
      /\ handles' = [handles EXCEPT ![p][fd].pos = pos + n]
      /\ got' = <<>>

(* A write to a full file moves the position of an append handle only.     *)
WriteNothing(p, fd) ==
  LET h == handles[p][fd]
  IN  /\ h.append
      /\ handles' = [handles EXCEPT ![p][fd].pos = Len(files[h.file])]
      /\ got' = <<>>
      /\ UNCHANGED files

Unlink(n) ==
  /\ files' = Without(files, {n})
  /\ handles' = [p \in Proc |->
       Without(handles[p], {fd \in DOMAIN handles[p] : handles[p][fd].file = n})]
  /\ got' = <<>>

Rename(o, n) ==
  /\ files' = With(Without(files, {o}), n, files[o])
  /\ handles' = [p \in Proc |-> [fd \in DOMAIN handles[p] |->
       IF handles[p][fd].file = o THEN [handles[p][fd] EXCEPT !.file = n] ELSE handles[p][fd]]]
  /\ got' = <<>>

Fork(p, c) ==
  /\ handles[c] = <<>>
  /\ handles' = [handles EXCEPT ![c] = handles[p]]
  /\ UNCHANGED <<files, got>>

Exit(p) ==
  /\ handles' = [handles EXCEPT ![p] = <<>>]
  /\ UNCHANGED <<files, got>>

(* A call that fails or returns no bytes.                                  *)
Nothing == got' = <<>> /\ UNCHANGED <<files, handles>>

Next ==
  \/ \E p \in Proc, n \in Name : Open(p, n)
  \/ \E p \in Proc : \E fd \in DOMAIN handles[p] :
       \/ Close(p, fd)
       \/ \E len \in 0 .. Capacity : Read(p, fd, len)
       \/ \E bytes \in UNION {[1 .. k -> Byte] : k \in 0 .. Capacity} : Write(p, fd, bytes)
       \/ WriteNothing(p, fd)
  \/ \E n \in DOMAIN files : Unlink(n)
  \/ \E o \in DOMAIN files, n \in Name \ DOMAIN files : Rename(o, n)
  \/ \E p, c \in Proc : Fork(p, c)
  \/ \E p \in Proc : Exit(p)
  \/ Nothing

Spec == Init /\ [][Next]_vars
=============================================================================
