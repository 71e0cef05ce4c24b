--------------------------- MODULE PrivateMemory ---------------------------
(***************************************************************************)
(* What user processes are promised of their memory: each has pages of its *)
(* own, a new page reads as zero, fork gives the child a copy, and nothing *)
(* a process does changes the memory of another one.                       *)
(***************************************************************************)
EXTENDS Integers

CONSTANTS
  Proc,      \* process slots
  Va,        \* virtual pages
  Value      \* contents of a page; 0 is a page of zeros

VARIABLE mem \* what each process finds in each page, or Absent

Absent == -1

Empty == [va \in Va |-> Absent]

Init == mem = [p \in Proc |-> Empty]

Store(p, va, v) ==
  /\ mem[p][va] # Absent
  /\ mem' = [mem EXCEPT ![p][va] = v]

(* Pages come, as zeros, and go: mmap, munmap, exec, creation and death.   *)
Remap(p) ==
  /\ \A va \in Va : mem'[p][va] \in {mem[p][va], 0, Absent}
  /\ \A q \in Proc \ {p} : mem'[q] = mem[q]
  /\ mem' \in [Proc -> [Va -> Value \cup {Absent}]]

Fork(p, c) ==
  /\ mem[c] = Empty
  /\ mem' = [mem EXCEPT ![c] = mem[p]]

Next ==
  \/ \E p \in Proc : Remap(p)
  \/ \E p \in Proc, va \in Va, v \in Value : Store(p, va, v)
  \/ \E p, c \in Proc : p # c /\ Fork(p, c)

Spec == Init /\ [][Next]_mem
=============================================================================
