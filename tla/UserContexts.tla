---------------------------- MODULE UserContexts ----------------------------
(***************************************************************************)
(* What traps promise to user programs: each process has registers of its  *)
(* own.  They change by its own instructions and by the results of its own *)
(* system calls, and by nothing else that happens in the kernel.           *)
(***************************************************************************)
EXTENDS Integers

CONSTANTS
  Users,    \* process slots
  Word,     \* register contents that are told apart
  Zero,     \* a stack pointer of 0
  Address   \* stack pointers

VARIABLE ctx \* the registers of each process, or None

None == [pc |-> -1, a0 |-> -1, x |-> -1, sp |-> Zero]

Context == [pc : 0 .. 1, a0 : Word, x : Word, sp : Address]

Init == ctx = [p \in Users |-> None]

Live(p) == ctx[p] # None

Becomes(p, c) == ctx' = [ctx EXCEPT ![p] = c]

(* Execution starts: a new process, or exec of a new program.              *)
Start(p) == \E c \in Context : c.pc = 0 /\ c.x = 0 /\ Becomes(p, c)

End(p) == Live(p) /\ Becomes(p, None)

(* Instructions that do not enter the kernel.                              *)
Compute(p) == Live(p) /\ \E v \in Word, s \in Address : Becomes(p, [ctx[p] EXCEPT !.x = v, !.sp = s])

(* The program counter passes the ecall; later its result is in a0.        *)
Ecall(p) == Live(p) /\ Becomes(p, [ctx[p] EXCEPT !.pc = 1 - @])

Result(p) == Live(p) /\ \E v \in Word : Becomes(p, [ctx[p] EXCEPT !.a0 = v])

(* The child goes on where its parent does, with result 0.                 *)
Fork(p, c) ==
  /\ Live(p) /\ ~Live(c)
  /\ \E v \in Word :
       ctx' = [ctx EXCEPT ![p].a0 = v, ![c] = [ctx[p] EXCEPT !.a0 = 0]]

(* A stack pointer of 0 does not survive a trap: kernel_entry takes it for *)
(* the mark of a trap from the kernel.                                     *)
LoseZeroSp(p) ==
  /\ Live(p) /\ ctx[p].sp = Zero
  /\ \E s \in Address, pc \in 0 .. 1 : Becomes(p, [ctx[p] EXCEPT !.sp = s, !.pc = pc])

Next ==
  \/ \E p \in Users : Start(p) \/ End(p) \/ Compute(p) \/ Ecall(p) \/ Result(p) \/ LoseZeroSp(p)
  \/ \E p, c \in Users : Fork(p, c)

Spec == Init /\ [][Next]_ctx
=============================================================================
