------------------------------ MODULE MCRamFs ------------------------------
(* A small RAM file system for model checking.                             *)
EXTENDS RamFs, TLC

CONSTANTS a, b, c

ThreeNames == {a, b, c}

(* README is a.                                                            *)
NameSymmetry == Permutations({b, c})

Flags(mode, creat, trunc, append) ==
  [mode |-> mode, creat |-> creat, trunc |-> trunc, append |-> append]

(* Read, create or update, create or append, truncate.                     *)
FourFlags == {Flags("r", FALSE, FALSE, FALSE), Flags("rw", TRUE, FALSE, FALSE),
              Flags("w", TRUE, FALSE, TRUE), Flags("rw", FALSE, TRUE, FALSE)}

(* What is left in an unused descriptor is never read: install_fd sets all *)
(* of it.                                                                  *)
WithoutUnused ==
  <<inodes, alive, got, [p \in Proc |-> [d \in get_open_fd(p) |-> fds[p][d]]]>>
=============================================================================
