------------------------------ MODULE PagePool ------------------------------
(***************************************************************************)
(* What the page allocator promises its users: references to pages.  An    *)
(* allocation hands out adjacent pages nobody refers to, and no operation  *)
(* changes the references to any other page.                               *)
(***************************************************************************)
EXTENDS Integers

CONSTANT Page      \* the managed pages, an interval of integers

VARIABLE refs      \* how many references to each page its users hold

Init == refs = [p \in Page |-> 0]

Allocate(p, n) ==
  /\ p .. p + n - 1 \subseteq Page
  /\ \A q \in p .. p + n - 1 : refs[q] = 0
  /\ refs' = [q \in Page |-> IF q \in p .. p + n - 1 THEN 1 ELSE refs[q]]

Share(p) ==
  /\ refs[p] > 0
  /\ refs' = [refs EXCEPT ![p] = @ + 1]

Release(p) ==
  /\ refs[p] > 0
  /\ refs' = [refs EXCEPT ![p] = @ - 1]

Next ==
  \/ \E p, q \in Page : p <= q /\ Allocate(p, q - p + 1)
  \/ \E p \in Page : Share(p) \/ Release(p)

Spec == Init /\ [][Next]_refs
=============================================================================
