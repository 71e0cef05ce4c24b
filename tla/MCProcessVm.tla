---------------------------- MODULE MCProcessVm ----------------------------
(* Small process memories for model checking.                              *)
EXTENDS ProcessVm

ReadOnlyOrWritable == {{"R"}, {"R", "W"}}

JustWritable == {{"R", "W"}}

(* Which frame holds a page does not matter, only who shares it; what is   *)
(* in a free frame is never read: alloc_pages_try clears it.               *)
PageView(p, va) ==
  LET pte == pt[p][va]
  IN  IF pte = NoPte THEN <<>>
      ELSE <<pte.prot, content[pte.pa], refcnt[pte.pa],
             {<<q, w>> \in Proc \X Va : pt[q][w].pa = pte.pa}>>

UpToFrames ==
  <<state, cur, vmas, l0, tables, Room, tlb, [p \in Proc |-> [va \in Va |-> PageView(p, va)]]>>
=============================================================================
