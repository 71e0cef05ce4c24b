-------------------------- MODULE ProcessVmProofs --------------------------
(***************************************************************************)
(* The memory of user processes is accounted for and kept apart, for any   *)
(* number of processes, pages, frames and VMAs: the counts of the frames   *)
(* are the mappings there are, a shared frame is writable nowhere, a page  *)
(* is mapped only inside a VMA, and munmap is exact.                       *)
(*                                                                         *)
(* The proof counts the processes that hold a frame, not the page table    *)
(* entries that map it: no process maps a frame twice, so the numbers are  *)
(* the same, and a step that changes one page table adds or removes one.   *)
(***************************************************************************)
EXTENDS ProcessVm, FiniteSetTheorems, WellFoundedInduction, TLAPS

(* Every mmap asks for a readable page.  PROT_WRITE alone is accepted by   *)
(* the code, and fork then leaves an entry without rights: its frame is    *)
(* lost.                                                                   *)
ReadableProtections == \A prot \in Protections : "R" \in prot

Vma == [start : Nat, end : Nat, prot : SUBSET Prot]

(* A VMA of the mmap area, or the stack's.                                 *)
VmaFits(v) ==
  /\ v.start < v.end
  /\ "R" \in v.prot
  /\ v.end <= MMAP_END \/ v = [start |-> StackVa, end |-> StackVa + 1, prot |-> RW]

Apart(v, w) == v.end <= w.start \/ w.end <= v.start

VmasOK(V) ==
  /\ V \in [VmaIdx -> Vma]
  /\ \A i \in Used(V) : VmaFits(V[i])
  /\ \A i, j \in Used(V) : i # j => Apart(V[i], V[j])

Covered(V, t) ==
  \A va \in Mapped(t) : \E i \in proc_find_vma_index(V, va) : t[va].prot \subseteq V[i].prot

(* No two pages of a process are in one frame.                             *)
Injective(t) == \A va, wa \in Mapped(t) : t[va].pa = t[wa].pa => va = wa

Holds(t, f) == \E va \in Mapped(t) : t[va].pa = f

Holders(P, f) == {p \in Proc : Holds(P[p], f)}

Counted(P, counts) == \A f \in Frame : counts[f] = Cardinality(Holders(P, f))

(* A frame that is writable in one process is held by no other.            *)
Exclusive(P) ==
  \A p, q \in Proc : \A va \in Mapped(P[p]) :
    p # q /\ "W" \in P[p][va].prot => ~Holds(P[q], P[p][va].pa)

Types ==
  /\ state \in [Proc -> {"unused", "live", "zombie"}]
  /\ cur \in Proc \cup {Idle}
  /\ vmas \in [Proc -> [VmaIdx -> Vma]]
  /\ pt \in [Proc -> [Va -> Pte]]
  /\ refcnt \in [Frame -> Nat]
  /\ tables \in Nat

(* A process that exists has a stack, a slot that is free has no memory.   *)
Lives(p) ==
  IF state[p] = "unused" THEN Mapped(pt[p]) = {} ELSE StackVa \in Mapped(pt[p])

ProcOK(p) ==
  /\ VmasOK(vmas[p])
  /\ Covered(vmas[p], pt[p])
  /\ Injective(pt[p])
  /\ Lives(p)

IInv ==
  /\ ReadableProtections
  /\ Types
  /\ cur # Idle => state[cur] = "live"
  /\ \A p \in Proc : ProcOK(p)
  /\ Counted(pt, refcnt)
  /\ Exclusive(pt)

----------------------------------------------------------------------------
(* Page tables and the frames they hold.                                   *)

(* An entry with rights maps a frame of the allocator.                     *)
LEMMA MappedFrame ==
  ASSUME NEW t \in [Va -> Pte], NEW va \in Mapped(t)
  PROVE  va \in Va /\ t[va].pa \in Frame
  BY DEF Mapped, Pte, NoPte

(* The processes that hold a frame are finitely many.                      *)
LEMMA HoldersFinite ==
  ASSUME NEW P, NEW f
  PROVE  IsFiniteSet(Holders(P, f)) /\ Cardinality(Holders(P, f)) \in Nat
  <1>1. IsFiniteSet(Proc)
    BY FS_Interval, ProcessVmAssumption DEF Proc
  <1>2. Holders(P, f) \in SUBSET Proc
    BY DEF Holders
  <1>3. IsFiniteSet(Holders(P, f))
    BY <1>1, <1>2, FS_Subset
  <1> QED BY <1>3, FS_CardinalityType

LEMMA CountedNat ==
  ASSUME NEW P, NEW c, Counted(P, c)
  PROVE  \A f \in Frame : c[f] \in Nat
  BY HoldersFinite DEF Counted

One(b) == IF b THEN 1 ELSE 0

(* The counts new follow from old when the table t replaces u.             *)
Recount(old, new, u, t) ==
  \A f \in Frame : new[f] = old[f] + One(Holds(t, f)) - One(Holds(u, f))

(* A step that replaces the page table of one process keeps the counts     *)
(* right if it counts the frames that process gains and loses.             *)
LEMMA CountedStep ==
  ASSUME NEW P \in [Proc -> [Va -> Pte]], NEW p \in Proc, NEW t \in [Va -> Pte],
         NEW old \in [Frame -> Nat], NEW new, Counted(P, old),
         Recount(old, new, P[p], t)
  PROVE  Counted([P EXCEPT ![p] = t], new)
  <1> DEFINE Q == [P EXCEPT ![p] = t]
  <1> SUFFICES ASSUME NEW f \in Frame
               PROVE  new[f] = Cardinality(Holders(Q, f))
    BY Zenon DEF Counted
  <1> DEFINE H == Holders(P, f)
             K == Holders(Q, f)
  <1>2. IsFiniteSet(H) /\ Cardinality(H) \in Nat /\ old[f] = Cardinality(H)
    BY HoldersFinite DEF Counted
  <1>3. p \in H <=> Holds(P[p], f)
    BY DEF Holders
  <1>4. p \in K <=> Holds(t, f)
    BY DEF Holders
  <1>5. \A q : q # p => (q \in K <=> q \in H)
    BY DEF Holders
  <1>6. new[f] = Cardinality(H) + One(p \in K) - One(p \in H)
    BY <1>2, <1>3, <1>4 DEF One, Holds, Recount
  <1> HIDE DEF H, K, Q
  <1>7. CASE p \in K /\ p \notin H
    <2>1. K = H \cup {p}
      BY <1>5, <1>7
    <2>2. Cardinality(H \cup {p}) = Cardinality(H) + 1
      BY <1>2, <1>7, FS_AddElement, Zenon
    <2> QED BY <2>1, <2>2, <1>6, <1>7 DEF One, K
  <1>8. CASE p \notin K /\ p \in H
    <2>1. K = H \ {p}
      BY <1>5, <1>8
    <2>2. Cardinality(H \ {p}) = Cardinality(H) - 1
      BY <1>2, <1>8, FS_RemoveElement, Zenon
    <2> QED BY <2>1, <2>2, <1>2, <1>6, <1>8 DEF One, K
  <1>9. CASE p \in K <=> p \in H
    <2>1. \A q : q \in K <=> q \in H
      BY <1>5, <1>9
    <2>2. K = H
      BY <2>1, Zenon
    <2> QED BY <2>2, <1>2, <1>6 DEF One, K
  <1> QED BY <1>7, <1>8, <1>9

(* A set of numbers has a least one.                                       *)
LEMMA LeastNat ==
  ASSUME NEW S, S \subseteq Nat, S # {}
  PROVE  \E m \in S : \A n \in S : m <= n
  <1> DEFINE R == OpToRel(<, Nat)
  <1>1. IsWellFoundedOn(R, Nat)
    BY NatLessThanWellFounded, Zenon
  <1>2. \A x, y \in Nat : x < y => <<x, y>> \in R
    BY DEF OpToRel
  <1> HIDE DEF R
  <1>3. PICK m \in S : \A n \in S : ~ (<<n, m>> \in R)
    BY <1>1, WFMin, Zenon
  <1>4. ASSUME NEW n \in S PROVE m <= n
    <2>1. m \in Nat /\ n \in Nat /\ ~ (<<n, m>> \in R)
      BY <1>3
    <2>2. ~ (n < m)
      BY <1>2, <2>1
    <2> QED BY <2>2
  <1> QED BY <1>4

(* A frame the allocator hands out is held by no process.                  *)
LEMMA AllocatedIsFree ==
  ASSUME Types, Counted(pt, refcnt), NEW f \in alloc_pages_try
  PROVE  f \in Frame /\ refcnt[f] = 0 /\ \A p \in Proc : ~Holds(pt[p], f)
  <1> DEFINE used == {g \in Frame : refcnt[g] > 0}
             free == {g \in Frame : refcnt[g] = 0}
  <1>1. Room > 0 /\ f = CHOOSE g \in free : \A h \in free : g <= h
    BY DEF alloc_pages_try
  <1>2. IsFiniteSet(Frame) /\ Cardinality(Frame) = RAM
    BY FS_Interval, ProcessVmAssumption DEF Frame
  <1>4. used # Frame
    <2>1. Room = RAM - tables - Cardinality(used)
      BY DEF Room
    <2>2. Cardinality(used) = RAM => ~ (Room > 0)
      BY <2>1, ProcessVmAssumption DEF Types
    <2> QED BY <2>2, <1>1, <1>2
  <1>5. PICK g \in Frame : g \in free
    BY <1>4 DEF Types
  <1>6. \E m \in free : \A h \in free : m <= h
    <2>1. free \subseteq Nat /\ free # {}
      BY <1>5 DEF Frame
    <2> QED BY <2>1, LeastNat, Zenon
  <1>7. f \in free
    BY <1>1, <1>6
  <1>8. f \in Frame /\ refcnt[f] = 0
    BY <1>7
  <1>9. Holders(pt, f) = {}
    BY <1>8, HoldersFinite, FS_EmptySet DEF Counted
  <1> QED BY <1>8, <1>9 DEF Holders

(* What replaces a page table must respect the writers of the others, and  *)
(* its writable frames must be its own.                                    *)
LEMMA ExclusiveStep ==
  ASSUME NEW P \in [Proc -> [Va -> Pte]], NEW p \in Proc, NEW t \in [Va -> Pte],
         Exclusive(P),
         \A va \in Mapped(t) : \A q \in Proc :
           q # p /\ "W" \in t[va].prot => ~Holds(P[q], t[va].pa),
         \A q \in Proc : \A va \in Mapped(P[q]) :
           q # p /\ "W" \in P[q][va].prot => ~Holds(t, P[q][va].pa)
  PROVE  Exclusive([P EXCEPT ![p] = t])
  <1> DEFINE Q == [P EXCEPT ![p] = t]
  <1>1. Q[p] = t /\ \A q \in Proc : q # p => Q[q] = P[q]
    OBVIOUS
  <1> HIDE DEF Q
  <1> SUFFICES ASSUME NEW a \in Proc, NEW b \in Proc, NEW va \in Mapped(Q[a]),
                      a # b, "W" \in Q[a][va].prot
               PROVE  ~Holds(Q[b], Q[a][va].pa)
    BY DEF Exclusive, Q
  <1>2. CASE a = p
    BY <1>1, <1>2
  <1>3. CASE a # p /\ b = p
    BY <1>1, <1>3
  <1>4. CASE a # p /\ b # p
    BY <1>1 DEF Exclusive
  <1> QED BY <1>2, <1>3, <1>4

(* A table with no other frames than u's and no other writable ones.       *)
Shrinks(t, u) ==
  \A va \in Mapped(t) :
    va \in Mapped(u) /\ t[va].pa = u[va].pa /\ ("W" \in t[va].prot => "W" \in u[va].prot)

LEMMA ShrinkStep ==
  ASSUME NEW P \in [Proc -> [Va -> Pte]], NEW p \in Proc, NEW t \in [Va -> Pte],
         Exclusive(P), Injective(P[p]), Shrinks(t, P[p])
  PROVE  Exclusive([P EXCEPT ![p] = t]) /\ Injective(t)
  <1>1. Injective(t)
    BY DEF Injective, Shrinks
  <1>2. \A f : Holds(t, f) => Holds(P[p], f)
    BY DEF Holds, Shrinks
  <1>3. \A va \in Mapped(t) : \A q \in Proc :
          q # p /\ "W" \in t[va].prot => ~Holds(P[q], t[va].pa)
    BY DEF Exclusive, Shrinks
  <1>4. \A q \in Proc : \A va \in Mapped(P[q]) :
          q # p /\ "W" \in P[q][va].prot => ~Holds(t, P[q][va].pa)
    BY <1>2 DEF Exclusive
  <1>5. Exclusive([P EXCEPT ![p] = t])
    BY <1>3, <1>4, ExclusiveStep, Zenon
  <1> QED BY <1>1, <1>5

(* The table t maps what u maps but for the pages vas.                     *)
Without(t, u, vas) ==
  /\ t \in [Va -> Pte]
  /\ Mapped(t) = Mapped(u) \ vas
  /\ \A va \in Mapped(t) : t[va] = u[va]

LEMMA UnmapWithout ==
  ASSUME NEW u \in [Va -> Pte], NEW vas
  PROVE  Without(Unmap(u, vas), u, vas)
  <1> DEFINE t == Unmap(u, vas)
  <1>1. t \in [Va -> Pte]
    BY DEF Unmap, Pte
  <1>2. \A va \in Va : t[va] = IF va \in vas THEN NoPte ELSE u[va]
    BY DEF Unmap
  <1>3. NoPte.prot = {}
    BY DEF NoPte
  <1>4. Mapped(t) = Mapped(u) \ vas /\ \A va \in Mapped(t) : t[va] = u[va]
    BY <1>2, <1>3 DEF Mapped
  <1> QED BY <1>1, <1>4 DEF Without

(* Unmapping pages and freeing their frames, in munmap, exec and release.  *)
LEMMA UnmapStep ==
  ASSUME Types, Counted(pt, refcnt), Exclusive(pt), NEW p \in Proc, Injective(pt[p]),
         NEW vas, vas \subseteq Mapped(pt[p]), NEW t, Without(t, pt[p], vas)
  PROVE  LET c == Freed(refcnt, FramesAt(pt[p], vas))
         IN  /\ Injective(t)
             /\ c \in [Frame -> Nat]
             /\ Counted([pt EXCEPT ![p] = t], c)
             /\ Exclusive([pt EXCEPT ![p] = t])
  <1> DEFINE u == pt[p]
             c == Freed(refcnt, FramesAt(u, vas))
             Q == [pt EXCEPT ![p] = t]
  <1>1. u \in [Va -> Pte] /\ pt \in [Proc -> [Va -> Pte]] /\ refcnt \in [Frame -> Nat]
    BY DEF Types
  <1>2. t \in [Va -> Pte]
    BY DEF Without
  <1>5. Mapped(t) = Mapped(u) \ vas /\ \A va \in Mapped(t) : t[va] = u[va]
    BY DEF Without
  <1>6. Shrinks(t, u)
    BY <1>5 DEF Shrinks
  <1>7. c = [f \in Frame |-> IF f \in FramesAt(u, vas) THEN refcnt[f] - 1 ELSE refcnt[f]]
    BY DEF Freed
  <1>8. vas \subseteq Mapped(u) /\ Injective(u)
    OBVIOUS
  <1> HIDE DEF u, c
  <1>9. Exclusive(Q) /\ Injective(t)
    BY <1>1, <1>2, <1>6, ShrinkStep, Zenon DEF u
  <1>10. ASSUME NEW f \in Frame
         PROVE  c[f] = refcnt[f] + One(Holds(t, f)) - One(Holds(u, f))
    <2>1. CASE f \in FramesAt(u, vas)
      <3>1. PICK va \in vas : u[va].pa = f
        BY <2>1 DEF FramesAt
      <3>2. Holds(u, f)
        BY <3>1, <1>8 DEF Holds
      <3>3. ~Holds(t, f)
        BY <3>1, <1>5, <1>8 DEF Holds, Injective
      <3> QED BY <1>1, <1>7, <2>1, <3>2, <3>3 DEF One
    <2>2. CASE f \notin FramesAt(u, vas)
      <3>1. Holds(t, f) = Holds(u, f)
        BY <2>2, <1>5 DEF Holds, FramesAt
      <3> QED BY <1>1, <1>7, <2>2, <3>1 DEF One, Holds
    <2> QED BY <2>1, <2>2
  <1>11. Counted(Q, c)
    <2>1. Recount(refcnt, c, pt[p], t)
      BY <1>10 DEF u, Recount
    <2>2. Counted(pt, refcnt)
      OBVIOUS
    <2> QED BY ONLY <1>1, <1>2, <2>1, <2>2, CountedStep, Zenon
  <1>12. \A f \in Frame : c[f] \in Nat
    BY ONLY <1>11, CountedNat
  <1>13. c \in [Frame -> Nat]
    BY <1>7, <1>12
  <1> QED BY <1>9, <1>11, <1>13 DEF u, c

----------------------------------------------------------------------------
(* VMAs.                                                                   *)

LEMMA VaNat == Va \subseteq Nat /\ StackVa \in Nat /\ StackVa \in Va
  BY ProcessVmAssumption DEF Va, MmapVa, StackVa

(* The VMA of an unused slot covers nothing.                               *)
LEMMA UnusedCoversNothing ==
  Unused \in Vma /\ \A va \in Nat : ~Covers(Unused, va)
  BY DEF Unused, Vma, Covers

LEMMA VmasFacts ==
  ASSUME NEW V, VmasOK(V), NEW va \in Nat
  PROVE  /\ proc_find_vma_index(V, va) = {i \in VmaIdx : Covers(V[i], va)}
         /\ \A x : x \in Protection(V, va) <=> \E i \in VmaIdx : Covers(V[i], va) /\ x = V[i].prot
  <1>1. \A i \in VmaIdx : Covers(V[i], va) => V[i] # Unused
    BY UnusedCoversNothing
  <1>2. proc_find_vma_index(V, va) = {i \in VmaIdx : Covers(V[i], va)}
    BY <1>1 DEF proc_find_vma_index, Used
  <1> QED BY <1>2 DEF Protection

(* Only what the VMAs allow at each page matters to the page table.        *)
LEMMA CoveredByProtection ==
  ASSUME NEW V, NEW W, NEW t, NEW u, Covered(V, u),
         \A va \in Mapped(t) : /\ va \in Mapped(u)
                               /\ t[va].prot \subseteq u[va].prot
                               /\ Protection(V, va) \subseteq Protection(W, va)
  PROVE  Covered(W, t)
  BY DEF Covered, Protection

(* What munmap makes of one VMA.                                           *)
LEMMA CutVmaFacts ==
  ASSUME NEW v \in Vma, v # Unused => VmaFits(v),
         NEW s \in Nat, NEW e \in Nat, s < e, e <= MMAP_END
  PROVE  LET w == CutVma(v, s, e)
         IN  /\ w \in Vma
             /\ w # Unused => /\ v # Unused /\ VmaFits(w)
                              /\ v.start <= w.start /\ w.end <= v.end
             /\ \A va \in Nat : Covers(w, va) => Covers(v, va) /\ w.prot = v.prot
             /\ ~(v.start < s /\ e < v.end) =>
                  \A va \in Nat : Covers(w, va) <=> Covers(v, va) /\ (va < s \/ e <= va)
             /\ v.start < s /\ e < v.end =>
                  /\ w.end = s /\ w.start = v.start /\ w.prot = v.prot
                  /\ \A va \in Nat : Covers(w, va) <=> Covers(v, va) /\ va < s
  <1> DEFINE w == CutVma(v, s, e)
  <1>1. v.start \in Nat /\ v.end \in Nat /\ v.prot \in SUBSET Prot
    BY DEF Vma
  <1>2. MMAP_END \in Nat /\ StackVa = MMAP_END + 1
    BY ProcessVmAssumption DEF StackVa
  <1>3. CASE v = Unused
    <2>1. w = Unused
      BY <1>3 DEF CutVma
    <2>2. ~(v.start < s /\ e < v.end)
      BY <1>3 DEF Unused
    <2> QED BY <1>3, <2>1, <2>2, UnusedCoversNothing
  <1>4. CASE v # Unused /\ (v.end <= s \/ v.start >= e)
    <2>1. w = v
      BY <1>4 DEF CutVma
    <2> QED BY <1>1, <1>4, <2>1 DEF Covers
  <1>5. CASE v # Unused /\ ~(v.end <= s \/ v.start >= e)
    <2>1. v.end <= MMAP_END /\ v.start < v.end /\ "R" \in v.prot
      BY <1>2, <1>5 DEF VmaFits
    <2>2. CASE s <= v.start /\ v.end <= e
      <3>1. w = Unused
        BY <1>5, <2>2 DEF CutVma
      <3> QED BY <1>1, <2>2, <3>1, UnusedCoversNothing DEF Covers
    <2>3. CASE s <= v.start /\ ~(v.end <= e)
      <3>1. w = [v EXCEPT !.start = e]
        BY <1>5, <2>3 DEF CutVma
      <3>2. w \in Vma /\ w.start = e /\ w.end = v.end /\ w.prot = v.prot
        BY <3>1 DEF Vma
      <3>3. VmaFits(w)
        BY <1>1, <2>1, <2>3, <3>2 DEF VmaFits
      <3> HIDE DEF w
      <3> QED BY <1>1, <1>5, <2>3, <3>2, <3>3 DEF Covers, w
    <2>4. CASE ~(s <= v.start)
      <3>1. w = [v EXCEPT !.end = s]
        BY <1>5, <2>4 DEF CutVma
      <3>2. w \in Vma /\ w.start = v.start /\ w.end = s /\ w.prot = v.prot
        BY <3>1 DEF Vma
      <3>3. VmaFits(w)
        BY <1>1, <1>2, <2>1, <2>4, <3>2 DEF VmaFits
      <3> HIDE DEF w
      <3> QED BY <1>1, <1>5, <2>4, <3>2, <3>3 DEF Covers, w
    <2> QED BY <2>2, <2>3, <2>4
  <1> QED BY <1>3, <1>4, <1>5

(* What munmap makes of all VMAs: they stay in order, lose what is in the  *)
(* range and keep the rest with its rights.                                *)
LEMMA CutVmasFacts ==
  ASSUME NEW V, VmasOK(V), NEW s \in Nat, NEW e \in Nat, s < e, e <= MMAP_END,
         NEW W \in CutVmas(V, s, e)
  PROVE  /\ VmasOK(W)
         /\ \A va \in Nat : Protection(W, va) =
              IF s <= va /\ va < e THEN {} ELSE Protection(V, va)
  <1> DEFINE cut == [i \in VmaIdx |-> CutVma(V[i], s, e)]
             Keep(va) == va < s \/ e <= va
  <1>1. \A i \in VmaIdx : V[i] \in Vma /\ (V[i] # Unused => VmaFits(V[i]))
    BY DEF VmasOK, Used
  <1>2. \A i, j \in VmaIdx : V[i] # Unused /\ V[j] # Unused /\ i # j => Apart(V[i], V[j])
    BY DEF VmasOK, Used
  <1>3. ASSUME NEW i \in VmaIdx
        PROVE  /\ cut[i] \in Vma
               /\ cut[i] # Unused => /\ V[i] # Unused /\ VmaFits(cut[i])
                                     /\ V[i].start <= cut[i].start /\ cut[i].end <= V[i].end
               /\ \A va \in Nat : Covers(cut[i], va) => Covers(V[i], va) /\ cut[i].prot = V[i].prot
               /\ ~(V[i].start < s /\ e < V[i].end) =>
                    \A va \in Nat : Covers(cut[i], va) <=> Covers(V[i], va) /\ Keep(va)
               /\ V[i].start < s /\ e < V[i].end =>
                    /\ cut[i].end = s /\ cut[i].start = V[i].start /\ cut[i].prot = V[i].prot
                    /\ \A va \in Nat : Covers(cut[i], va) <=> Covers(V[i], va) /\ va < s
    <2>1. V[i] \in Vma /\ (V[i] # Unused => VmaFits(V[i]))
      BY <1>1
    <2>2. cut[i] = CutVma(V[i], s, e)
      OBVIOUS
    <2> HIDE DEF cut
    <2> QED BY <2>1, <2>2, CutVmaFacts
  <1>4. cut \in [VmaIdx -> Vma]
    BY <1>3
  <1>5. \A i, j \in VmaIdx : cut[i] # Unused /\ cut[j] # Unused /\ i # j => Apart(cut[i], cut[j])
    <2> SUFFICES ASSUME NEW i \in VmaIdx, NEW j \in VmaIdx,
                        cut[i] # Unused, cut[j] # Unused, i # j
                 PROVE  Apart(cut[i], cut[j])
      OBVIOUS
    <2>1. Apart(V[i], V[j])
      BY <1>2, <1>3
    <2>2. /\ V[i].start <= cut[i].start /\ cut[i].end <= V[i].end
          /\ V[j].start <= cut[j].start /\ cut[j].end <= V[j].end
      BY <1>3
    <2>3. /\ V[i].start \in Nat /\ V[i].end \in Nat /\ V[j].start \in Nat /\ V[j].end \in Nat
          /\ cut[i].start \in Nat /\ cut[i].end \in Nat /\ cut[j].start \in Nat /\ cut[j].end \in Nat
      BY <1>1, <1>3 DEF Vma
    <2> HIDE DEF cut
    <2> QED BY <2>1, <2>2, <2>3 DEF Apart
  <1>6. CASE Split(V, s, e) = {}
    <2>1. W = cut
      BY <1>6 DEF CutVmas
    <2>2. \A i \in VmaIdx : ~(V[i].start < s /\ e < V[i].end)
      <3> SUFFICES ASSUME NEW i \in VmaIdx, V[i].start < s, e < V[i].end PROVE FALSE
        OBVIOUS
      <3>1. V[i] = Unused
        BY <1>6 DEF Split, Used
      <3> QED BY <3>1 DEF Unused
    <2> HIDE DEF cut
    <2>3. VmasOK(W)
      BY <2>1, <1>3, <1>4, <1>5 DEF VmasOK, Used
    <2>4. \A va \in Nat : \A i \in VmaIdx :
            /\ Covers(W[i], va) <=> Covers(V[i], va) /\ Keep(va)
            /\ Covers(W[i], va) => W[i].prot = V[i].prot
      BY <2>1, <2>2, <1>3
    <2>5. ASSUME NEW va \in Nat
          PROVE  Protection(W, va) = IF s <= va /\ va < e THEN {} ELSE Protection(V, va)
      <3>1. \A x : x \in Protection(V, va) <=> \E i \in VmaIdx : Covers(V[i], va) /\ x = V[i].prot
        BY VmasFacts
      <3>2. \A x : x \in Protection(W, va) <=> \E i \in VmaIdx : Covers(W[i], va) /\ x = W[i].prot
        BY VmasFacts, <2>3
      <3>3. CASE Keep(va)
        <4>1. \A x : x \in Protection(W, va) <=> x \in Protection(V, va)
          BY <3>1, <3>2, <3>3, <2>4
        <4> QED BY <4>1, <3>3
      <3>4. CASE ~Keep(va)
        <4>1. \A x : x \notin Protection(W, va)
          BY <3>2, <3>4, <2>4
        <4> QED BY <4>1, <3>4
      <3> QED BY <3>3, <3>4
    <2> QED BY <2>3, <2>5
  <1>7. CASE Split(V, s, e) # {}
    <2>1. PICK a \in Split(V, s, e), b \in proc_find_free_vma_slot(V) :
            W = [cut EXCEPT ![b] = [V[a] EXCEPT !.start = e]]
      BY <1>7 DEF CutVmas
    <2> DEFINE top == [V[a] EXCEPT !.start = e]
    <2>2. /\ a \in VmaIdx /\ V[a] # Unused /\ V[a].start < s /\ e < V[a].end
          /\ b \in VmaIdx /\ V[b] = Unused /\ a # b
      BY DEF Split, Used, proc_find_free_vma_slot
    <2>3. /\ V[a].start \in Nat /\ V[a].end \in Nat /\ V[a].prot \in SUBSET Prot
          /\ V[a].end <= MMAP_END /\ "R" \in V[a].prot
      <3>1. V[a] \in Vma /\ VmaFits(V[a])
        BY <1>1, <2>2
      <3> QED BY <2>2, <3>1 DEF Vma, VmaFits
    <2>4. top \in Vma /\ top.start = e /\ top.end = V[a].end /\ top.prot = V[a].prot
      BY <1>1, <2>2 DEF Vma
    <2>5. VmaFits(top) /\ top # Unused
      <3>1. Unused.end = 0
        BY DEF Unused
      <3> HIDE DEF top
      <3> QED BY <2>2, <2>3, <2>4, <3>1 DEF VmaFits
    <2>6. W[b] = top /\ W \in [VmaIdx -> Vma] /\ \A i \in VmaIdx : i # b => W[i] = cut[i]
      BY <2>1, <2>2, <2>4, <1>4
    <2> HIDE DEF cut, top
    <2>7. \A i \in VmaIdx : i # a => ~(V[i].start < s /\ e < V[i].end)
      <3> SUFFICES ASSUME NEW i \in VmaIdx, i # a, V[i].start < s, e < V[i].end PROVE FALSE
        OBVIOUS
      <3>1. V[i] # Unused
        BY DEF Unused
      <3>2. Apart(V[i], V[a])
        BY <1>2, <2>2, <3>1
      <3>3. V[i].start \in Nat /\ V[i].end \in Nat
        BY <1>1 DEF Vma
      <3> QED BY <2>2, <2>3, <3>2, <3>3 DEF Apart
    <2>9. ASSUME NEW i \in VmaIdx, i # b, cut[i] # Unused
          PROVE  Apart(cut[i], top) /\ Apart(top, cut[i])
      <3>1. cut[i] \in Vma /\ V[i] \in Vma
        BY <1>1, <1>3
      <3>2. cut[i].start \in Nat /\ cut[i].end \in Nat /\ V[i].start \in Nat /\ V[i].end \in Nat
        BY <3>1 DEF Vma
      <3>3. CASE i = a
        <4>1. cut[i].end = s
          BY <1>3, <2>2, <3>3
        <4> QED BY <4>1, <2>4 DEF Apart
      <3>4. CASE i # a
        <4>1. V[i] # Unused /\ V[i].start <= cut[i].start /\ cut[i].end <= V[i].end
          BY <1>3, <2>9
        <4>2. Apart(V[i], V[a])
          BY <1>2, <2>2, <3>4, <4>1
        <4> QED BY <4>1, <4>2, <3>2, <2>2, <2>3, <2>4 DEF Apart
      <3> QED BY <3>3, <3>4
    <2>10. VmasOK(W)
      <3>1. \A i \in VmaIdx : W[i] # Unused => VmaFits(W[i])
        BY <2>5, <2>6, <1>3
      <3>2. \A i, j \in VmaIdx : W[i] # Unused /\ W[j] # Unused /\ i # j => Apart(W[i], W[j])
        BY <2>6, <2>9, <1>5
      <3> QED BY <2>6, <3>1, <3>2 DEF VmasOK, Used
    <2>11. ASSUME NEW va \in Nat
           PROVE  Protection(W, va) = IF s <= va /\ va < e THEN {} ELSE Protection(V, va)
      <3>1. \A x : x \in Protection(V, va) <=> \E i \in VmaIdx : Covers(V[i], va) /\ x = V[i].prot
        BY VmasFacts
      <3>2. \A x : x \in Protection(W, va) <=> \E i \in VmaIdx : Covers(W[i], va) /\ x = W[i].prot
        BY VmasFacts, <2>10
      <3>3. \A i \in VmaIdx : i # a /\ i # b =>
              /\ Covers(W[i], va) <=> Covers(V[i], va) /\ Keep(va)
              /\ Covers(W[i], va) => W[i].prot = V[i].prot
        BY <2>6, <2>7, <1>3
      <3>4. (Covers(W[a], va) <=> Covers(V[a], va) /\ va < s) /\ W[a].prot = V[a].prot
        BY <2>2, <2>6, <1>3
      <3>5. (Covers(W[b], va) <=> Covers(V[a], va) /\ e <= va) /\ W[b].prot = V[a].prot
        BY <2>2, <2>3, <2>4, <2>6 DEF Covers
      <3>6. ~Covers(V[b], va)
        BY <2>2, UnusedCoversNothing
      <3>7. CASE Keep(va)
        <4>1. ASSUME NEW x, x \in Protection(W, va) PROVE x \in Protection(V, va)
          BY <4>1, <3>1, <3>2, <3>3, <3>4, <3>5, <2>2
        <4>2. ASSUME NEW x, x \in Protection(V, va) PROVE x \in Protection(W, va)
          <5>1. PICK i \in VmaIdx : Covers(V[i], va) /\ x = V[i].prot
            BY <4>2, <3>1
          <5>2. CASE i # a
            BY <5>1, <5>2, <3>2, <3>3, <3>6, <3>7
          <5>3. CASE i = a
            BY <5>1, <5>3, <3>2, <3>4, <3>5, <3>7, <2>2
          <5> QED BY <5>2, <5>3
        <4>3. \A x : x \in Protection(W, va) <=> x \in Protection(V, va)
          BY <4>1, <4>2
        <4>4. Protection(W, va) = Protection(V, va)
          BY <4>3
        <4> QED BY <4>4, <3>7
      <3>8. CASE ~Keep(va)
        <4>1. ASSUME NEW i \in VmaIdx PROVE ~Covers(W[i], va)
          <5>1. CASE i # a /\ i # b
            BY <5>1, <3>3, <3>8
          <5>2. CASE i = a
            BY <5>2, <3>4, <3>8
          <5>3. CASE i = b
            BY <5>3, <3>5, <3>8
          <5> QED BY <5>1, <5>2, <5>3
        <4>2. \A x : x \notin Protection(W, va)
          BY <3>2, <4>1
        <4> QED BY <4>2, <3>8
      <3> QED BY <3>7, <3>8
    <2> QED BY <2>10, <2>11
  <1> QED BY <1>6, <1>7

(* What mmap makes of the VMAs.                                            *)
LEMMA AddVmaFacts ==
  ASSUME NEW V, VmasOK(V), NEW s \in Nat, NEW e \in Nat, e <= MMAP_END,
         NEW prot \in SUBSET Prot, "R" \in prot, NEW W \in proc_add_vma(V, s, e, prot)
  PROVE  VmasOK(W) /\ \A va \in Nat : Protection(V, va) \subseteq Protection(W, va)
  <1> DEFINE new == [start |-> s, end |-> e, prot |-> prot]
  <1>1. PICK k \in VmaIdx : /\ V[k] = Unused /\ s < e
                            /\ ~proc_range_overlaps_any_vma(V, s, e)
                            /\ W = [V EXCEPT ![k] = new]
    BY DEF proc_add_vma, proc_find_free_vma_slot, Used
  <1>2. new \in Vma /\ VmaFits(new) /\ new.start = s /\ new.end = e
    BY <1>1 DEF Vma, VmaFits
  <1>3. V \in [VmaIdx -> Vma]
    BY DEF VmasOK
  <1>4. W[k] = new /\ W \in [VmaIdx -> Vma] /\ \A i \in VmaIdx : i # k => W[i] = V[i]
    BY <1>1, <1>2, <1>3
  <1> HIDE DEF new
  <1>5. \A i \in Used(V) : Apart(V[i], new) /\ Apart(new, V[i])
    <2> SUFFICES ASSUME NEW i \in Used(V) PROVE Apart(V[i], new) /\ Apart(new, V[i])
      OBVIOUS
    <2>1. V[i].start \in Nat /\ V[i].end \in Nat
      BY <1>3 DEF Used, Vma
    <2>2. ~(s < V[i].end /\ e > V[i].start)
      BY <1>1 DEF proc_range_overlaps_any_vma
    <2> QED BY <1>2, <2>1, <2>2 DEF Apart
  <1>6. VmasOK(W)
    BY <1>2, <1>4, <1>5 DEF VmasOK, Used
  <1>7. ASSUME NEW va \in Nat, NEW x, x \in Protection(V, va)
        PROVE  x \in Protection(W, va)
    <2>1. PICK i \in VmaIdx : Covers(V[i], va) /\ x = V[i].prot
      BY <1>7, VmasFacts
    <2>2. i # k
      BY <1>1, <2>1, UnusedCoversNothing
    <2> QED BY <1>4, <1>6, <2>1, <2>2, VmasFacts
  <1> QED BY <1>6, <1>7

(* The VMAs of a free slot and of a new program.                           *)
LEMMA InitialVmas ==
  /\ VmasOK(EmptyVmas)
  /\ VmasOK(proc_vm_init)
  /\ Protection(proc_vm_init, StackVa) = {RW}
  <1>1. 1 \in VmaIdx /\ MMAP_END \in Nat /\ StackVa \in Nat
    BY ProcessVmAssumption DEF VmaIdx, StackVa
  <1>2. VmasOK(EmptyVmas)
    BY UnusedCoversNothing DEF VmasOK, EmptyVmas, Used
  <1> DEFINE stack == [start |-> StackVa, end |-> StackVa + 1, prot |-> RW]
  <1>3. stack \in Vma /\ VmaFits(stack) /\ stack # Unused
    BY <1>1 DEF Vma, VmaFits, RW, Prot, Unused
  <1>4. /\ proc_vm_init \in [VmaIdx -> Vma] /\ proc_vm_init[1] = stack
        /\ \A i \in VmaIdx : i # 1 => proc_vm_init[i] = Unused
    BY <1>1, <1>3, UnusedCoversNothing DEF proc_vm_init, EmptyVmas
  <1>5. Covers(stack, StackVa) /\ stack.prot = RW
    BY <1>1 DEF Covers
  <1> HIDE DEF stack
  <1>6. VmasOK(proc_vm_init)
    BY <1>3, <1>4 DEF VmasOK, Used
  <1>7. \A x : x \in Protection(proc_vm_init, StackVa) <=> x = RW
    BY <1>1, <1>4, <1>5, <1>6, VmasFacts, UnusedCoversNothing
  <1>8. Protection(proc_vm_init, StackVa) = {RW}
    BY <1>7
  <1> QED BY <1>2, <1>6, <1>8

----------------------------------------------------------------------------
(* Steps.                                                                  *)

LEMMA RoomInt == Types => Room \in Int
  <1> SUFFICES ASSUME Types PROVE Room \in Int
    OBVIOUS
  <1> DEFINE used == {f \in Frame : refcnt[f] > 0}
  <1>3. Room = RAM - tables - Cardinality(used)
    BY DEF Room
  <1> QED BY <1>3 DEF Types

(* A step that leaves the memory of all processes alone.                   *)
LEMMA SameMemory ==
  ASSUME IInv, UNCHANGED <<vmas, pt, refcnt>>,
         state' \in [Proc -> {"unused", "live", "zombie"}],
         \A p \in Proc : state'[p] = "unused" <=> state[p] = "unused",
         cur' \in Proc \cup {Idle}, cur' # Idle => state'[cur'] = "live",
         tables' \in Nat
  PROVE  IInv'
  <1>1. Types' /\ ReadableProtections
    BY DEF IInv, Types
  <1>2. ASSUME NEW p \in Proc PROVE ProcOK(p)'
    <2>1. ProcOK(p)
      BY DEF IInv
    <2> QED BY <2>1 DEF ProcOK, Lives
  <1> QED BY <1>1, <1>2 DEF IInv, ReadableProtections

(* A step that changes the memory of one process.                          *)
LEMMA OneProcess ==
  ASSUME IInv, NEW p \in Proc, NEW t \in [Va -> Pte], NEW W,
         pt' = [pt EXCEPT ![p] = t], vmas' = [vmas EXCEPT ![p] = W],
         VmasOK(W), Covered(W, t), Injective(t),
         refcnt' \in [Frame -> Nat], Counted([pt EXCEPT ![p] = t], refcnt'),
         Exclusive([pt EXCEPT ![p] = t]),
         state' \in [Proc -> {"unused", "live", "zombie"}],
         \A q \in Proc : q # p => state'[q] = state[q],
         cur' \in Proc \cup {Idle}, cur' # Idle => state'[cur'] = "live",
         tables' \in Nat,
         IF state'[p] = "unused" THEN Mapped(t) = {} ELSE StackVa \in Mapped(t)
  PROVE  IInv'
  <1>1. pt' \in [Proc -> [Va -> Pte]] /\ vmas' \in [Proc -> [VmaIdx -> Vma]]
    BY DEF IInv, Types, VmasOK
  <1>2. /\ pt'[p] = t /\ vmas'[p] = W
        /\ \A q \in Proc : q # p => pt'[q] = pt[q] /\ vmas'[q] = vmas[q]
    BY DEF IInv, Types
  <1>3. ASSUME NEW q \in Proc PROVE ProcOK(q)'
    <2>1. CASE q = p
      BY <1>2, <2>1 DEF ProcOK, Lives
    <2>2. CASE q # p
      <3>1. ProcOK(q)
        BY DEF IInv
      <3> QED BY <3>1, <2>2 DEF ProcOK, Lives
    <2> QED BY <2>1, <2>2
  <1>4. Types'
    BY <1>1 DEF Types
  <1> QED BY <1>3, <1>4 DEF IInv, ReadableProtections

(* The table t is u but for the page va.                                   *)
Elsewhere(t, u, va) ==
  \A w \in Va : w # va => /\ w \in Mapped(t) <=> w \in Mapped(u)
                          /\ w \in Mapped(t) => t[w] = u[w]

(* The counts when the new frame f is mapped at va.                        *)
FreshCounts(u, va, f) ==
  IF va \in Mapped(u) THEN Freed([refcnt EXCEPT ![f] = 1], {u[va].pa})
  ELSE [refcnt EXCEPT ![f] = 1]

(* A new frame is mapped at va, instead of an old one or of none.          *)
LEMMA FreshStep ==
  ASSUME Types, Counted(pt, refcnt), Exclusive(pt), NEW p \in Proc, Injective(pt[p]),
         NEW va \in Va, NEW f \in alloc_pages_try, NEW t \in [Va -> Pte],
         t[va].pa = f, t[va].prot # {},
         Elsewhere(t, pt[p], va), NEW c, c = FreshCounts(pt[p], va, f)
  PROVE  /\ Mapped(t) = Mapped(pt[p]) \cup {va}
         /\ Injective(t)
         /\ c \in [Frame -> Nat]
         /\ Counted([pt EXCEPT ![p] = t], c)
         /\ Exclusive([pt EXCEPT ![p] = t])
  <1> DEFINE u == pt[p]
  <1>1. u \in [Va -> Pte] /\ pt \in [Proc -> [Va -> Pte]] /\ refcnt \in [Frame -> Nat]
    BY DEF Types
  <1>2. f \in Frame /\ refcnt[f] = 0 /\ \A q \in Proc : ~Holds(pt[q], f)
    BY AllocatedIsFree
  <1>3. Mapped(t) = Mapped(u) \cup {va}
    BY DEF Mapped, Elsewhere
  <1>4. \A w \in Mapped(t) : w # va => w \in Mapped(u) /\ t[w] = u[w]
    BY DEF Mapped, Elsewhere
  <1>5. ~Holds(u, f)
    BY <1>2
  <1>6. Injective(t)
    BY <1>4, <1>5 DEF Injective, Holds
  <1>7. Injective(u) /\ t[va].pa = f
    OBVIOUS
  <1> HIDE DEF u
  <1>8. ASSUME NEW g \in Frame
        PROVE  c[g] = refcnt[g] + One(Holds(t, g)) - One(Holds(u, g))
    <2>1. CASE g = f
      <3>1. Holds(t, g)
        BY <1>3, <2>1 DEF Holds
      <3>2. ~Holds(u, g)
        BY <1>5, <2>1
      <3>3. va \in Mapped(u) => u[va].pa # f
        BY <1>5 DEF Holds
      <3>4. c[g] = 1
        BY <1>1, <2>1, <3>3 DEF Freed, FreshCounts, u
      <3> QED BY <1>2, <2>1, <3>1, <3>2, <3>4 DEF One
    <2>2. CASE g # f /\ va \in Mapped(u) /\ g = u[va].pa
      <3>1. Holds(u, g)
        BY <2>2 DEF Holds
      <3>2. ~Holds(t, g)
        BY <2>2, <1>4, <1>7 DEF Holds, Injective
      <3>3. c[g] = refcnt[g] - 1
        BY <2>2 DEF Freed, FreshCounts, u
      <3> QED BY <1>1, <3>1, <3>2, <3>3 DEF One
    <2>3. CASE g # f /\ ~(va \in Mapped(u) /\ g = u[va].pa)
      <3>1. Holds(t, g) = Holds(u, g)
        BY <2>3, <1>3, <1>4 DEF Holds
      <3>2. c[g] = refcnt[g]
        BY <2>3 DEF Freed, FreshCounts, u
      <3> QED BY <1>1, <3>1, <3>2 DEF One, Holds
    <2> QED BY <2>1, <2>2, <2>3
  <1>9. Counted([pt EXCEPT ![p] = t], c)
    <2>1. Recount(refcnt, c, pt[p], t)
      BY <1>8 DEF u, Recount
    <2>2. Counted(pt, refcnt)
      OBVIOUS
    <2> QED BY ONLY <1>1, <2>1, <2>2, CountedStep, Zenon
  <1>10. \A g \in Frame : c[g] \in Nat
    BY ONLY <1>9, CountedNat
  <1>11. c \in [Frame -> Nat]
    <2>1. c = [g \in Frame |-> c[g]]
      BY <1>1, Zenon DEF Freed, FreshCounts
    <2> QED BY <1>10, <2>1
  <1>12. \A w \in Mapped(t) : \A q \in Proc :
           q # p /\ "W" \in t[w].prot => ~Holds(pt[q], t[w].pa)
    BY <1>2, <1>4 DEF Exclusive, u
  <1>13. \A q \in Proc : \A w \in Mapped(pt[q]) :
           q # p /\ "W" \in pt[q][w].prot => ~Holds(t, pt[q][w].pa)
    <2> SUFFICES ASSUME NEW q \in Proc, NEW w \in Mapped(pt[q]), q # p, "W" \in pt[q][w].prot,
                        Holds(t, pt[q][w].pa)
                 PROVE  FALSE
      OBVIOUS
    <2>1. PICK x \in Mapped(t) : t[x].pa = pt[q][w].pa
      BY DEF Holds
    <2>2. CASE x = va
      BY <1>2, <2>1, <2>2 DEF Holds
    <2>3. CASE x # va
      <3>1. x \in Mapped(pt[p]) /\ pt[p][x].pa = pt[q][w].pa
        BY <1>4, <2>1, <2>3 DEF u
      <3> QED BY <3>1 DEF Exclusive, Holds
    <2> QED BY <2>2, <2>3
  <1>14. Exclusive([pt EXCEPT ![p] = t])
    BY <1>1, <1>12, <1>13, ExclusiveStep, Zenon
  <1> QED BY <1>3, <1>6, <1>9, <1>11, <1>14 DEF u

LEMMA IInvFacts ==
  ASSUME IInv
  PROVE  /\ Types /\ Counted(pt, refcnt) /\ Exclusive(pt)
         /\ \A p \in Proc : /\ VmasOK(vmas[p]) /\ Covered(vmas[p], pt[p])
                            /\ Injective(pt[p]) /\ Lives(p)
         /\ Idle \notin Proc
         /\ cur # Idle => cur \in Proc /\ state[cur] = "live" /\ StackVa \in Mapped(pt[cur])
  BY DEF IInv, ProcOK, Lives, Types, Idle, Proc

----------------------------------------------------------------------------
(* Fork.                                                                   *)

(* What proc_vm_clone writes: the page stays where it is, readable and not *)
(* writable, within the rights of its VMA.                                 *)
LEMMA CowPteFacts ==
  ASSUME IInv, cur # Idle, NEW va \in Mapped(pt[cur])
  PROVE  /\ CowPte(va) \in Pte /\ CowPte(va).pa = pt[cur][va].pa
         /\ "R" \in CowPte(va).prot /\ "W" \notin CowPte(va).prot
         /\ \E i \in proc_find_vma_index(vmas[cur], va) : CowPte(va).prot \subseteq vmas[cur][i].prot
  <1>1. cur \in Proc /\ VmasOK(vmas[cur]) /\ Covered(vmas[cur], pt[cur])
    BY IInvFacts
  <1> DEFINE I == proc_find_vma_index(vmas[cur], va)
             i == CHOOSE j \in I : TRUE
  <1>2. I # {}
    BY <1>1 DEF Covered
  <1>3. i \in I
    BY <1>2
  <1>4. CowPte(va) = [pa |-> pt[cur][va].pa, prot |-> vmas[cur][i].prot \ {"W"}]
    BY DEF CowPte
  <1> HIDE DEF i
  <1>5. i \in Used(vmas[cur]) /\ i \in VmaIdx
    BY <1>3 DEF proc_find_vma_index, Used
  <1>6. vmas[cur][i].prot \in SUBSET Prot /\ "R" \in vmas[cur][i].prot
    BY <1>1, <1>5 DEF VmasOK, VmaFits, Vma
  <1>7. pt[cur][va].pa \in Frame
    BY MappedFrame DEF IInv, Types
  <1>8. CowPte(va) \in Pte
    BY <1>4, <1>6, <1>7 DEF Pte
  <1>9. CowPte(va).pa = pt[cur][va].pa /\ CowPte(va).prot = vmas[cur][i].prot \ {"W"}
    BY <1>4
  <1>10. "R" \in CowPte(va).prot /\ "W" \notin CowPte(va).prot
    BY <1>6, <1>9
  <1> HIDE DEF I
  <1> QED BY <1>3, <1>8, <1>9, <1>10 DEF I

(* The parent of a fork keeps its pages.                                   *)
LEMMA ParentPtFacts ==
  ASSUME IInv, cur # Idle, NEW vas, vas \subseteq Mapped(pt[cur])
  PROVE  LET t == ParentPt(vas)
         IN  /\ t \in [Va -> Pte]
             /\ Mapped(t) = Mapped(pt[cur])
             /\ \A va \in Mapped(t) : t[va].pa = pt[cur][va].pa
             /\ \A va \in vas : "W" \notin t[va].prot
             /\ Shrinks(t, pt[cur])
             /\ Covered(vmas[cur], t)
             /\ Counted([pt EXCEPT ![cur] = t], refcnt)
  <1> DEFINE t == ParentPt(vas)
             u == pt[cur]
  <1>1. u \in [Va -> Pte] /\ cur \in Proc /\ vas \subseteq Va
    BY IInvFacts DEF Types, Mapped
  <1>2. t = [va \in Va |-> IF va \in vas THEN CowPte(va) ELSE u[va]]
    BY DEF ParentPt
  <1>3. \A va \in vas : /\ CowPte(va) \in Pte /\ CowPte(va).pa = u[va].pa
                        /\ "R" \in CowPte(va).prot /\ "W" \notin CowPte(va).prot
    BY CowPteFacts
  <1>4. t \in [Va -> Pte]
    BY <1>1, <1>2, <1>3
  <1> HIDE DEF t
  <1>5. \A va \in vas : t[va] = CowPte(va)
    BY <1>1, <1>2
  <1>6. \A va \in Va \ vas : t[va] = u[va]
    BY <1>2
  <1>7. Mapped(t) = Mapped(u)
    BY <1>3, <1>5, <1>6 DEF Mapped
  <1>8. \A va \in Mapped(t) : t[va].pa = u[va].pa
    BY <1>3, <1>5, <1>6 DEF Mapped
  <1>9. \A va \in vas : "W" \notin t[va].prot
    BY <1>3, <1>5
  <1>10. Shrinks(t, u)
    BY <1>6, <1>8, <1>9 DEF Shrinks, Mapped
  <1>11. Covered(vmas[cur], t)
    <2> SUFFICES ASSUME NEW va \in Mapped(t)
                 PROVE  \E i \in proc_find_vma_index(vmas[cur], va) :
                          t[va].prot \subseteq vmas[cur][i].prot
      BY DEF Covered
    <2>1. CASE va \in vas
      BY <2>1, <1>5, CowPteFacts
    <2>2. CASE va \notin vas
      <3>1. Covered(vmas[cur], u) /\ va \in Mapped(u) /\ t[va] = u[va]
        BY <1>6, <2>2, IInvFacts DEF Mapped
      <3> QED BY <3>1 DEF Covered
    <2> QED BY <2>1, <2>2
  <1>12. Recount(refcnt, refcnt, pt[cur], t)
    <2> SUFFICES ASSUME NEW f \in Frame
                 PROVE  refcnt[f] = refcnt[f] + One(Holds(t, f)) - One(Holds(pt[cur], f))
      BY DEF Recount
    <2>1. Holds(t, f) = Holds(pt[cur], f)
      BY <1>7, <1>8 DEF Holds
    <2>2. refcnt[f] \in Nat
      BY DEF IInv, Types
    <2> QED BY <2>1, <2>2 DEF One, Holds
  <1>13. Counted([pt EXCEPT ![cur] = t], refcnt)
    <2>1. Counted(pt, refcnt) /\ pt \in [Proc -> [Va -> Pte]] /\ refcnt \in [Frame -> Nat]
      BY DEF IInv, Types
    <2> QED BY ONLY <2>1, <1>4, <1>12, CountedStep, Zenon
  <1> QED BY <1>4, <1>7, <1>8, <1>9, <1>10, <1>11, <1>13 DEF t

(* The stack is among the pages a fork shares.                             *)
LEMMA StackIsShared ==
  ASSUME IInv, cur # Idle
  PROVE  StackVa \in SharedVas /\ SharedVas \subseteq Mapped(pt[cur])
  <1>1. /\ cur \in Proc /\ StackVa \in Mapped(pt[cur])
        /\ VmasOK(vmas[cur]) /\ Covered(vmas[cur], pt[cur])
    BY IInvFacts
  <1>2. PICK i \in proc_find_vma_index(vmas[cur], StackVa) : TRUE
    BY <1>1 DEF Covered
  <1>3. i \in Used(vmas[cur]) /\ i \in VmaIdx /\ Covers(vmas[cur][i], StackVa)
    BY DEF proc_find_vma_index, Used
  <1>4. VmaFits(vmas[cur][i]) /\ vmas[cur][i] \in Vma
    BY <1>1, <1>3 DEF VmasOK
  <1>5. ~(vmas[cur][i].end <= MMAP_END)
    BY <1>3, <1>4, ProcessVmAssumption DEF Covers, Vma, StackVa
  <1>6. "W" \in vmas[cur][i].prot
    BY <1>4, <1>5 DEF VmaFits, RW
  <1> QED BY <1>1, <1>6 DEF SharedVas

LEMMA L0Card ==
  ASSUME NEW vas, vas \subseteq MmapVa
  PROVE  Cardinality(L0(vas)) \in Nat
  <1>1. IsFiniteSet(MmapVa)
    BY FS_Interval, ProcessVmAssumption DEF MmapVa
  <1>2. IsFiniteSet(vas)
    BY <1>1, FS_Subset
  <1> DEFINE f == [va \in vas |-> va \div TABLE_SPAN]
  <1>3. f \in Surjection(vas, L0(vas))
    BY DEF Surjection, L0
  <1>4. IsFiniteSet(L0(vas))
    BY <1>2, <1>3, FS_Surjection
  <1> QED BY <1>4, FS_CardinalityType

----------------------------------------------------------------------------
(* One lemma per action.                                                   *)

LEMMA BuildFailsStep == IInv /\ BuildFails => IInv'
  <1> SUFFICES ASSUME IInv, BuildFails PROVE IInv'
    OBVIOUS
  <1>1. Room \in Int /\ tables \in Nat
    BY RoomInt DEF IInv, Types
  <1>2. tables' \in Nat
    BY <1>1 DEF BuildFails
  <1>3. UNCHANGED <<state, cur, vmas, pt, refcnt>>
    BY DEF BuildFails
  <1> QED BY <1>2, <1>3, SameMemory DEF IInv, Types

LEMMA CreateStep == IInv /\ create_user_process => IInv'
  <1> SUFFICES ASSUME IInv, create_user_process PROVE IInv'
    OBVIOUS
  <1>1. CASE BuildFails
    BY <1>1, BuildFailsStep
  <1>2. CASE ~BuildFails
    <2>1. PICK p \in alloc_process_slot, f \in alloc_pages_try :
            /\ state' = [state EXCEPT ![p] = "live"]
            /\ vmas' = [vmas EXCEPT ![p] = proc_vm_init]
            /\ pt' = [pt EXCEPT ![p] = NewPt(f)]
            /\ refcnt' = [refcnt EXCEPT ![f] = 1]
            /\ tables' = tables + IMAGE_TABLES
      BY <1>2 DEF create_user_process
    <2>2. cur' = cur /\ cur = Idle
      BY <1>2 DEF create_user_process
    <2> DEFINE t == NewPt(f)
    <2>3. p \in Proc /\ state[p] = "unused" /\ Mapped(pt[p]) = {}
      BY IInvFacts DEF alloc_process_slot, Lives
    <2>4. f \in Frame
      BY AllocatedIsFree, IInvFacts
    <2>5. /\ t \in [Va -> Pte] /\ t[StackVa].pa = f /\ t[StackVa].prot = RW
          /\ \A w \in Va : w # StackVa => t[w] = NoPte
      BY <2>4, VaNat DEF NewPt, EmptyPt, Pte, RW, Prot
    <2>6. Elsewhere(t, pt[p], StackVa)
      BY <2>3, <2>5 DEF Mapped, NoPte, Elsewhere
    <2>7. RW # {} /\ StackVa \in Va /\ refcnt' = FreshCounts(pt[p], StackVa, f)
      BY <2>1, <2>3, VaNat DEF RW, FreshCounts
    <2> HIDE DEF t
    <2>8. /\ Mapped(t) = {StackVa}
          /\ Injective(t)
          /\ refcnt' \in [Frame -> Nat]
          /\ Counted([pt EXCEPT ![p] = t], refcnt')
          /\ Exclusive([pt EXCEPT ![p] = t])
      <3>1. Types /\ Counted(pt, refcnt) /\ Exclusive(pt) /\ Injective(pt[p]) /\ p \in Proc
        BY <2>3, IInvFacts
      <3>3. /\ Mapped(t) = Mapped(pt[p]) \cup {StackVa}
            /\ Injective(t)
            /\ refcnt' \in [Frame -> Nat]
            /\ Counted([pt EXCEPT ![p] = t], refcnt')
            /\ Exclusive([pt EXCEPT ![p] = t])
        BY ONLY <3>1, <2>5, <2>6, <2>7, FreshStep, Zenon
      <3> QED BY <2>3, <3>3
    <2>9. Covered(proc_vm_init, t)
      BY <2>5, <2>8, InitialVmas DEF Covered, Protection
    <2>10. VmasOK(proc_vm_init)
      BY InitialVmas
    <2>11. /\ state' \in [Proc -> {"unused", "live", "zombie"}]
           /\ state'[p] = "live" /\ \A q \in Proc : q # p => state'[q] = state[q]
           /\ cur' \in Proc \cup {Idle} /\ cur' = Idle
           /\ tables' \in Nat
      BY <2>1, <2>2, <2>3, ProcessVmAssumption DEF IInv, Types
    <2> QED BY <2>1, <2>3, <2>5, <2>8, <2>9, <2>10, <2>11, OneProcess, Zenon DEF t
  <1> QED BY <1>1, <1>2

LEMMA YieldStep == ASSUME NEW p PROVE IInv /\ yield(p) => IInv'
  <1> SUFFICES ASSUME IInv, yield(p) PROVE IInv'
    OBVIOUS
  <1> QED BY SameMemory DEF yield, IInv, Types

LEMMA ExitStep == IInv /\ cur # Idle /\ proc_exit => IInv'
  <1> SUFFICES ASSUME IInv, cur # Idle, proc_exit PROVE IInv'
    OBVIOUS
  <1>2. /\ state' = [state EXCEPT ![cur] = "zombie"] /\ cur' = Idle
        /\ UNCHANGED <<vmas, pt, refcnt, tables>>
    BY DEF proc_exit
  <1>3. /\ state' \in [Proc -> {"unused", "live", "zombie"}]
        /\ \A p \in Proc : state'[p] = "unused" <=> state[p] = "unused"
        /\ tables' \in Nat
    BY <1>2 DEF IInv, Types
  <1> QED BY <1>2, <1>3, SameMemory

LEMMA ReleaseStep == ASSUME NEW p \in Proc PROVE IInv /\ proc_vm_release(p) => IInv'
  <1> SUFFICES ASSUME IInv, proc_vm_release(p) PROVE IInv'
    OBVIOUS
  <1> DEFINE vas == ReleasedVas(p)
  <1>1. vas = Mapped(pt[p])
    <2>1. \A va \in Mapped(pt[p]) : va \in Va /\ proc_find_vma_index(vmas[p], va) # {}
      BY IInvFacts DEF Covered, Mapped
    <2> QED BY <2>1 DEF ReleasedVas, Va
  <1>2. /\ state[p] = "zombie"
        /\ state' = [state EXCEPT ![p] = "unused"]
        /\ vmas' = [vmas EXCEPT ![p] = EmptyVmas]
        /\ pt' = [pt EXCEPT ![p] = EmptyPt]
        /\ refcnt' = Freed(refcnt, FramesAt(pt[p], vas))
        /\ UNCHANGED <<cur, tables>>
    BY DEF proc_vm_release
  <1> HIDE DEF vas
  <1>3. Mapped(EmptyPt) = {} /\ EmptyPt \in [Va -> Pte]
    BY DEF EmptyPt, Mapped, NoPte, Pte
  <1>4. Without(EmptyPt, pt[p], vas)
    BY <1>1, <1>3 DEF Without
  <1>5. /\ Injective(EmptyPt) /\ refcnt' \in [Frame -> Nat]
        /\ Counted([pt EXCEPT ![p] = EmptyPt], refcnt')
        /\ Exclusive([pt EXCEPT ![p] = EmptyPt])
    BY <1>1, <1>2, <1>4, UnmapStep, IInvFacts, Zenon
  <1>6. VmasOK(EmptyVmas) /\ Covered(EmptyVmas, EmptyPt)
    BY <1>3, InitialVmas DEF Covered
  <1>7. /\ state' \in [Proc -> {"unused", "live", "zombie"}]
        /\ state'[p] = "unused" /\ \A q \in Proc : q # p => state'[q] = state[q]
        /\ cur' \in Proc \cup {Idle} /\ (cur' # Idle => state'[cur'] = "live")
        /\ tables' \in Nat
    BY <1>2 DEF IInv, Types
  <1> QED BY <1>2, <1>3, <1>5, <1>6, <1>7, OneProcess, Zenon

LEMMA CloneFailsStep == IInv /\ cur # Idle /\ CanBuild /\ CloneFails => IInv'
  <1> SUFFICES ASSUME IInv, cur # Idle, CanBuild, CloneFails PROVE IInv'
    OBVIOUS
  <1>1. PICK vas : /\ vas \subseteq SharedVas \cup {StackVa}
                   /\ pt' = [pt EXCEPT ![cur] = ParentPt(vas)]
    BY Zenon DEF CloneFails
  <1>2. /\ tables' = tables + IMAGE_TABLES + TableRoom
        /\ UNCHANGED <<state, cur, vmas, refcnt>>
    BY DEF CloneFails
  <1>3. tables' \in Nat
    BY <1>2, RoomInt, ProcessVmAssumption DEF CanBuild, TableRoom, IInv, Types
  <1>4. vas \subseteq Mapped(pt[cur])
    BY <1>1, StackIsShared
  <1> DEFINE t == ParentPt(vas)
  <1>5. /\ t \in [Va -> Pte] /\ Mapped(t) = Mapped(pt[cur])
        /\ Shrinks(t, pt[cur]) /\ Covered(vmas[cur], t)
        /\ Counted([pt EXCEPT ![cur] = t], refcnt)
    BY <1>4, ParentPtFacts
  <1> HIDE DEF t
  <1>6. /\ cur \in Proc /\ state[cur] = "live" /\ StackVa \in Mapped(pt[cur])
        /\ Exclusive(pt) /\ Injective(pt[cur]) /\ VmasOK(vmas[cur])
        /\ pt \in [Proc -> [Va -> Pte]]
    BY IInvFacts DEF Types
  <1>7. Exclusive([pt EXCEPT ![cur] = t]) /\ Injective(t)
    BY <1>5, <1>6, ShrinkStep, Zenon
  <1>8. /\ vmas' = [vmas EXCEPT ![cur] = vmas[cur]] /\ refcnt' \in [Frame -> Nat]
        /\ state' \in [Proc -> {"unused", "live", "zombie"}]
        /\ cur' \in Proc \cup {Idle} /\ state'[cur'] = "live" /\ state'[cur] = "live"
        /\ \A q \in Proc : state'[q] = state[q]
    BY <1>2 DEF IInv, Types
  <1>9. Counted([pt EXCEPT ![cur] = t], refcnt')
    BY <1>2, <1>5
  <1>10. pt' = [pt EXCEPT ![cur] = t]
    BY <1>1 DEF t
  <1> QED BY <1>3, <1>5, <1>6, <1>7, <1>8, <1>9, <1>10, OneProcess, Zenon

LEMMA CloneSucceedsStep ==
  ASSUME NEW child \in alloc_process_slot
  PROVE  IInv /\ cur # Idle /\ CloneSucceeds(child) => IInv'
  <1> SUFFICES ASSUME IInv, cur # Idle, CloneSucceeds(child) PROVE IInv'
    OBVIOUS
  <1> DEFINE A == ParentPt(SharedVas)
             B == ChildPt
             shared == FramesAt(pt[cur], SharedVas)
             P == [pt EXCEPT ![cur] = A]
             Q == [P EXCEPT ![child] = B]
  <1>1. /\ state' = [state EXCEPT ![child] = "live"]
        /\ vmas' = [vmas EXCEPT ![child] = vmas[cur]]
        /\ pt' = [pt EXCEPT ![cur] = A, ![child] = B]
        /\ refcnt' = [f \in Frame |-> IF f \in shared THEN refcnt[f] + 1 ELSE refcnt[f]]
        /\ tables' = tables + IMAGE_TABLES + Cardinality(L0(SharedVas \cap MmapVa))
        /\ cur' = cur
    BY DEF CloneSucceeds
  <1>2. /\ cur \in Proc /\ state[cur] = "live"
        /\ Exclusive(pt) /\ Injective(pt[cur]) /\ VmasOK(vmas[cur])
        /\ pt \in [Proc -> [Va -> Pte]] /\ refcnt \in [Frame -> Nat]
        /\ vmas \in [Proc -> [VmaIdx -> Vma]]
    BY IInvFacts DEF Types
  <1>3. child \in Proc /\ child # cur /\ Mapped(pt[child]) = {}
    BY IInvFacts DEF alloc_process_slot, Lives
  <1>4. StackVa \in SharedVas /\ SharedVas \subseteq Mapped(pt[cur])
    BY StackIsShared
  <1>5. /\ A \in [Va -> Pte] /\ Mapped(A) = Mapped(pt[cur])
        /\ \A va \in Mapped(A) : A[va].pa = pt[cur][va].pa
        /\ \A va \in SharedVas : "W" \notin A[va].prot
        /\ Shrinks(A, pt[cur]) /\ Covered(vmas[cur], A)
        /\ Counted(P, refcnt)
    BY <1>4, ParentPtFacts
  <1>6. Exclusive(P) /\ Injective(A)
    BY <1>2, <1>5, ShrinkStep, Zenon
  <1>7. \A va \in SharedVas : va \in Va /\ B[va] = A[va]
    BY <1>4 DEF ChildPt, ParentPt, Mapped
  <1>8. \A va \in Va \ SharedVas : B[va] = NoPte
    BY DEF ChildPt
  <1>9. B \in [Va -> Pte]
    <2>1. B = [va \in Va |-> B[va]]
      BY DEF ChildPt
    <2>2. \A va \in Va : B[va] \in Pte
      BY <1>5, <1>7, <1>8 DEF Pte
    <2> QED BY <2>1, <2>2
  <1>10. pt' = Q
    BY <1>1
  <1>11. /\ P \in [Proc -> [Va -> Pte]] /\ P[cur] = A /\ P[child] = pt[child]
         /\ \A q \in Proc : q # cur => P[q] = pt[q]
    BY <1>2, <1>3, <1>5, Zenon
  <1>12. /\ Q \in [Proc -> [Va -> Pte]] /\ Q[cur] = A /\ Q[child] = B
         /\ \A q \in Proc : q # cur /\ q # child => Q[q] = pt[q]
    BY <1>2, <1>3, <1>9, <1>11
  <1> HIDE DEF A, B, P, Q
  <1>13. Mapped(B) = SharedVas
    <2>1. NoPte.prot = {}
      BY DEF NoPte
    <2>2. \A va \in SharedVas : A[va].prot # {}
      BY <1>4, <1>5 DEF Mapped
    <2> QED BY <1>7, <1>8, <2>1, <2>2 DEF Mapped
  <1>14. Injective(B)
    BY <1>4, <1>5, <1>6, <1>7, <1>13 DEF Injective
  <1>15. Covered(vmas[cur], B)
    BY <1>4, <1>5, <1>7, <1>13 DEF Covered
  <1>16. \A f : Holds(B, f) <=> f \in shared
    BY <1>4, <1>5, <1>7, <1>13 DEF Holds, FramesAt
  <1>17. \A f : ~Holds(P[child], f)
    BY <1>3, <1>11 DEF Holds
  <1>18. Counted(Q, refcnt')
    <2>1. Recount(refcnt, refcnt', P[child], B)
      <3> SUFFICES ASSUME NEW f \in Frame
                   PROVE  refcnt'[f] = refcnt[f] + One(Holds(B, f)) - One(Holds(P[child], f))
        BY DEF Recount
      <3>1. refcnt'[f] = IF f \in shared THEN refcnt[f] + 1 ELSE refcnt[f]
        BY <1>1
      <3>2. refcnt[f] \in Nat
        BY <1>2
      <3>3. One(Holds(P[child], f)) = 0
        BY <1>17 DEF One
      <3>4. One(Holds(B, f)) = IF f \in shared THEN 1 ELSE 0
        BY <1>16 DEF One
      <3> QED BY <3>1, <3>2, <3>3, <3>4
    <2>2. Counted([P EXCEPT ![child] = B], refcnt')
      BY ONLY <2>1, <1>2, <1>3, <1>5, <1>9, <1>11, CountedStep, Zenon
    <2> QED BY <2>2 DEF Q
  <1>19. Exclusive(Q)
    <2>1. \A va \in Mapped(B) : \A q \in Proc :
            q # child /\ "W" \in B[va].prot => ~Holds(P[q], B[va].pa)
      BY <1>5, <1>7, <1>13
    <2>2. \A q \in Proc : \A va \in Mapped(P[q]) :
            q # child /\ "W" \in P[q][va].prot => ~Holds(B, P[q][va].pa)
      <3> SUFFICES ASSUME NEW q \in Proc, NEW va \in Mapped(P[q]), q # child,
                          "W" \in P[q][va].prot, Holds(B, P[q][va].pa)
                   PROVE  FALSE
        OBVIOUS
      <3>1. PICK wa \in SharedVas : B[wa].pa = P[q][va].pa
        BY <1>13 DEF Holds
      <3>2. wa \in Mapped(A) /\ A[wa].pa = P[q][va].pa
        BY <1>4, <1>5, <1>7, <3>1, Zenon
      <3>3. CASE q = cur
        <4>1. wa = va
          BY <1>6, <1>11, <3>2, <3>3 DEF Injective
        <4> QED BY <1>5, <1>11, <3>3, <4>1, Zenon
      <3>4. CASE q # cur
        <4>1. Holds(P[cur], P[q][va].pa)
          BY <1>11, <3>2 DEF Holds
        <4> QED BY <1>2, <1>6, <3>4, <4>1 DEF Exclusive
      <3> QED BY <3>3, <3>4
    <2>3. Exclusive([P EXCEPT ![child] = B])
      BY ONLY <2>1, <2>2, <1>6, <1>9, <1>11, ExclusiveStep, Zenon
    <2> QED BY <2>3 DEF Q
  <1>20. /\ state' \in [Proc -> {"unused", "live", "zombie"}]
         /\ state'[child] = "live" /\ state'[cur] = "live"
         /\ \A q \in Proc : q # child => state'[q] = state[q]
    BY <1>1, <1>3 DEF IInv, Types
  <1>21. tables' \in Nat
    <2>1. Cardinality(L0(SharedVas \cap MmapVa)) \in Nat
      BY L0Card
    <2> QED BY <2>1, <1>1, ProcessVmAssumption DEF IInv, Types
  <1>22. /\ vmas'[child] = vmas[cur] /\ \A q \in Proc : q # child => vmas'[q] = vmas[q]
         /\ vmas' \in [Proc -> [VmaIdx -> Vma]]
    BY <1>1, <1>2, <1>3
  <1>24. Types'
    BY <1>1, <1>2, <1>12, <1>20, <1>21 DEF Types
  <1>25. ASSUME NEW q \in Proc PROVE ProcOK(q)'
    <2>1. ProcOK(q)
      BY DEF IInv
    <2>2. CASE q = child
      <3>1. VmasOK(vmas'[q]) /\ Covered(vmas'[q], pt'[q]) /\ Injective(pt'[q])
        BY <1>2, <1>10, <1>12, <1>14, <1>15, <1>22, <2>2
      <3>2. Lives(q)'
        BY <1>4, <1>10, <1>12, <1>13, <1>20, <2>2, Zenon DEF Lives
      <3> QED BY <3>1, <3>2 DEF ProcOK
    <2>3. CASE q = cur
      <3>1. VmasOK(vmas'[q]) /\ Covered(vmas'[q], pt'[q]) /\ Injective(pt'[q])
        BY <1>2, <1>5, <1>6, <1>10, <1>12, <1>22, <2>3, Zenon
      <3>2. Lives(q)'
        BY <1>4, <1>5, <1>10, <1>12, <1>20, <2>3 DEF Lives
      <3> QED BY <3>1, <3>2 DEF ProcOK
    <2>4. CASE q # child /\ q # cur
      BY <1>10, <1>12, <1>20, <1>22, <2>1, <2>4 DEF ProcOK, Lives
    <2> QED BY <2>2, <2>3, <2>4
  <1>26. Counted(pt, refcnt)' /\ Exclusive(pt)'
    BY <1>10, <1>18, <1>19
  <1> QED BY <1>1, <1>24, <1>25, <1>26 DEF IInv, ReadableProtections

LEMMA ForkStep == IInv /\ proc_fork => IInv'
  <1> SUFFICES ASSUME IInv, proc_fork PROVE IInv'
    OBVIOUS
  <1>1. cur # Idle
    BY DEF proc_fork
  <1>2. CASE BuildFails
    BY <1>2, BuildFailsStep
  <1>3. CASE CanBuild /\ CloneFails
    BY <1>1, <1>3, CloneFailsStep
  <1>4. ASSUME NEW child \in alloc_process_slot, CloneSucceeds(child) PROVE IInv'
    BY <1>1, <1>4, CloneSucceedsStep
  <1>5. CASE BadStackPointer
    <2>1. tables' \in Nat /\ UNCHANGED <<state, cur, vmas, pt, refcnt>>
      BY <1>5, ProcessVmAssumption DEF BadStackPointer, IInv, Types
    <2> QED BY <2>1, SameMemory DEF IInv, Types
  <1> QED BY <1>2, <1>3, <1>4, <1>5 DEF proc_fork

(* munmap and MAP_FIXED: the pages of a range go, and the VMAs that are    *)
(* left allow what they allowed outside of it.                             *)
LEMMA RangeStep ==
  ASSUME IInv, cur # Idle, NEW s \in Nat, NEW e \in Nat, s < e, e <= MMAP_END,
         UnmapRange(vmas[cur], s, e), UNCHANGED <<state, cur, tables>>,
         NEW W, vmas' = [vmas EXCEPT ![cur] = W], VmasOK(W),
         \A va \in Nat : va < s \/ e <= va => Protection(vmas[cur], va) \subseteq Protection(W, va)
  PROVE  IInv'
  <1> DEFINE V == vmas[cur]
             u == pt[cur]
             vas == IF proc_range_overlaps_any_vma(V, s, e) THEN Mapped(u) \cap s .. e - 1 ELSE {}
             t == Unmap(u, vas)
  <1>1. /\ cur \in Proc /\ state[cur] = "live" /\ StackVa \in Mapped(u)
        /\ Types /\ Counted(pt, refcnt) /\ Exclusive(pt) /\ Injective(u)
        /\ VmasOK(V) /\ Covered(V, u) /\ u \in [Va -> Pte]
    BY IInvFacts, Zenon DEF Types
  <1>2. pt' = [pt EXCEPT ![cur] = t] /\ refcnt' = Freed(refcnt, FramesAt(u, vas))
    BY DEF UnmapRange, Types
  <1>3. vas \subseteq Mapped(u) /\ Without(t, u, vas)
    BY <1>1, UnmapWithout, Zenon
  <1>4. \A va \in Mapped(u) : s <= va /\ va < e => va \in vas
    <2> SUFFICES ASSUME NEW va \in Mapped(u), s <= va, va < e PROVE va \in vas
      OBVIOUS
    <2>1. va \in Nat
      BY VaNat DEF Mapped
    <2>2. PICK i \in Used(V) : Covers(V[i], va)
      BY <1>1, Zenon DEF Covered, proc_find_vma_index
    <2>3. V[i].start \in Nat /\ V[i].end \in Nat
      BY <1>1, Zenon DEF VmasOK, Vma, Used
    <2>4. s < V[i].end /\ e > V[i].start
      <3>1. V[i].start <= va /\ va < V[i].end
        BY <2>2 DEF Covers
      <3> HIDE DEF V
      <3> QED BY ONLY <2>1, <2>3, <3>1, s <= va, va < e
    <2>5. proc_range_overlaps_any_vma(V, s, e)
      BY <2>4 DEF proc_range_overlaps_any_vma
    <2>6. va \in s .. e - 1
      BY <2>1
    <2> QED BY <2>5, <2>6
  <1>5. StackVa \notin vas /\ StackVa \in Nat
    BY ProcessVmAssumption DEF StackVa
  <1> HIDE DEF vas, t, u, V
  <1>6. t \in [Va -> Pte] /\ Mapped(t) = Mapped(u) \ vas /\ \A va \in Mapped(t) : t[va] = u[va]
    BY <1>3 DEF Without
  <1>7. /\ Injective(t) /\ refcnt' \in [Frame -> Nat]
        /\ Counted([pt EXCEPT ![cur] = t], refcnt')
        /\ Exclusive([pt EXCEPT ![cur] = t])
    BY <1>1, <1>2, <1>3, UnmapStep, Zenon DEF u
  <1>8. Covered(W, t)
    <2>1. ASSUME NEW va \in Mapped(t)
          PROVE  /\ va \in Mapped(u)
                 /\ t[va].prot \subseteq u[va].prot
                 /\ Protection(V, va) \subseteq Protection(W, va)
      <3>1. va \in Mapped(u) /\ va \notin vas /\ t[va] = u[va]
        BY <1>6
      <3>2. va \in Nat
        BY VaNat, Zenon DEF Mapped
      <3>3. va < s \/ e <= va
        BY <1>4, <3>1, <3>2
      <3> QED BY <3>1, <3>2, <3>3 DEF V
    <2> QED BY <1>1, <2>1, CoveredByProtection, Zenon
  <1>9. StackVa \in Mapped(t)
    BY <1>1, <1>5, <1>6
  <1>10. /\ state' \in [Proc -> {"unused", "live", "zombie"}]
         /\ \A q \in Proc : state'[q] = state[q]
         /\ cur' \in Proc \cup {Idle} /\ state'[cur'] = "live" /\ state'[cur] = "live"
         /\ tables' \in Nat
    BY <1>1 DEF Types
  <1> QED BY <1>2, <1>6, <1>7, <1>8, <1>9, <1>10, OneProcess, Zenon

LEMMA MunmapStep ==
  ASSUME NEW s \in MmapVa, NEW e \in 1 .. MMAP_END
  PROVE  IInv /\ proc_munmap(s, e) => IInv'
  <1> SUFFICES ASSUME IInv, proc_munmap(s, e) PROVE IInv'
    OBVIOUS
  <1>1. /\ cur # Idle /\ s \in Nat /\ e \in Nat /\ s < e /\ e <= MMAP_END
        /\ UnmapRange(vmas[cur], s, e) /\ UNCHANGED <<state, cur, tables>>
    BY DEF proc_munmap, MmapVa
  <1>2. PICK W \in CutVmas(vmas[cur], s, e) : vmas' = [vmas EXCEPT ![cur] = W]
    BY Zenon DEF proc_munmap
  <1>3. VmasOK(vmas[cur])
    BY <1>1, IInvFacts, Zenon
  <1>4. VmasOK(W) /\ \A va \in Nat : Protection(W, va) =
                       IF s <= va /\ va < e THEN {} ELSE Protection(vmas[cur], va)
    BY <1>1, <1>3, CutVmasFacts
  <1>5. \A va \in Nat : va < s \/ e <= va => Protection(vmas[cur], va) \subseteq Protection(W, va)
    BY <1>1, <1>4
  <1> QED BY <1>1, <1>2, <1>4, <1>5, RangeStep, Zenon

LEMMA ReadableProt ==
  ASSUME IInv, NEW prot \in Protections
  PROVE  prot \in SUBSET Prot /\ "R" \in prot
  BY ProcessVmAssumption DEF IInv, ReadableProtections

LEMMA MmapFixedStep ==
  ASSUME NEW s \in MmapVa, NEW e \in 1 .. MMAP_END, NEW prot \in Protections
  PROVE  IInv /\ proc_mmap_fixed(s, e, prot) => IInv'
  <1> SUFFICES ASSUME IInv, proc_mmap_fixed(s, e, prot) PROVE IInv'
    OBVIOUS
  <1>1. /\ cur # Idle /\ s \in Nat /\ e \in Nat /\ s < e /\ e <= MMAP_END
        /\ UnmapRange(vmas[cur], s, e) /\ UNCHANGED <<state, cur, tables>>
    BY DEF proc_mmap_fixed, MmapVa
  <1>2. PICK V \in CutVmas(vmas[cur], s, e) :
          LET added == proc_add_vma(V, s, e, prot)
          IN  \E W \in IF added = {} THEN {V} ELSE added : vmas' = [vmas EXCEPT ![cur] = W]
    BY Zenon DEF proc_mmap_fixed
  <1>3. PICK W : /\ W = V \/ W \in proc_add_vma(V, s, e, prot)
                 /\ vmas' = [vmas EXCEPT ![cur] = W]
    BY <1>2, Zenon
  <1>4. VmasOK(vmas[cur])
    BY <1>1, IInvFacts, Zenon
  <1>5. VmasOK(V) /\ \A va \in Nat : Protection(V, va) =
                       IF s <= va /\ va < e THEN {} ELSE Protection(vmas[cur], va)
    BY <1>1, <1>4, CutVmasFacts
  <1>6. prot \in SUBSET Prot /\ "R" \in prot
    BY ReadableProt
  <1>7. VmasOK(W) /\ \A va \in Nat : Protection(V, va) \subseteq Protection(W, va)
    BY <1>1, <1>3, <1>5, <1>6, AddVmaFacts
  <1>8. \A va \in Nat : va < s \/ e <= va => Protection(vmas[cur], va) \subseteq Protection(W, va)
    BY <1>1, <1>5, <1>7
  <1> QED BY <1>1, <1>3, <1>7, <1>8, RangeStep, Zenon

LEMMA MmapStep ==
  ASSUME NEW h \in MmapVa, NEW len \in 1 .. MMAP_END, NEW prot \in Protections
  PROVE  IInv /\ proc_mmap(h, len, prot) => IInv'
  <1> SUFFICES ASSUME IInv, proc_mmap(h, len, prot) PROVE IInv'
    OBVIOUS
  <1>1. cur # Idle /\ UNCHANGED <<state, cur, pt, refcnt, tables>>
    BY DEF proc_mmap
  <1>2. PICK s \in MmapVa : /\ s + len <= MMAP_END
                            /\ \E W \in proc_add_vma(vmas[cur], s, s + len, prot) :
                                 vmas' = [vmas EXCEPT ![cur] = W]
    BY Zenon DEF proc_mmap, proc_find_free_mmap_range
  <1>3. PICK W \in proc_add_vma(vmas[cur], s, s + len, prot) : vmas' = [vmas EXCEPT ![cur] = W]
    BY <1>2, Zenon
  <1>4. /\ cur \in Proc /\ state[cur] = "live" /\ StackVa \in Mapped(pt[cur])
        /\ VmasOK(vmas[cur]) /\ Covered(vmas[cur], pt[cur]) /\ Injective(pt[cur])
        /\ pt \in [Proc -> [Va -> Pte]] /\ pt[cur] \in [Va -> Pte]
        /\ Counted(pt, refcnt) /\ Exclusive(pt) /\ refcnt \in [Frame -> Nat]
    BY <1>1, IInvFacts DEF Types
  <1>5. s \in Nat /\ s + len \in Nat /\ s + len <= MMAP_END
    BY <1>2 DEF MmapVa
  <1>6. prot \in SUBSET Prot /\ "R" \in prot
    BY ReadableProt
  <1>7. VmasOK(W) /\ \A va \in Nat : Protection(vmas[cur], va) \subseteq Protection(W, va)
    BY <1>4, <1>5, <1>6, AddVmaFacts, Zenon
  <1>8. Covered(W, pt[cur])
    <2>1. \A va \in Mapped(pt[cur]) : va \in Nat
      BY VaNat DEF Mapped
    <2> QED BY <1>4, <1>7, <2>1, CoveredByProtection, Zenon
  <1>9. pt' = [pt EXCEPT ![cur] = pt[cur]] /\ pt = [pt EXCEPT ![cur] = pt[cur]]
    BY <1>1, <1>4, Zenon
  <1>10. /\ refcnt' \in [Frame -> Nat]
         /\ Counted([pt EXCEPT ![cur] = pt[cur]], refcnt')
         /\ Exclusive([pt EXCEPT ![cur] = pt[cur]])
    BY <1>1, <1>4
  <1>11. /\ state' \in [Proc -> {"unused", "live", "zombie"}]
         /\ \A q \in Proc : state'[q] = state[q]
         /\ cur' \in Proc \cup {Idle} /\ state'[cur'] = "live" /\ state'[cur] = "live"
         /\ tables' \in Nat
    BY <1>1 DEF IInv, Types
  <1> QED BY <1>3, <1>4, <1>7, <1>8, <1>9, <1>10, <1>11, OneProcess, Zenon

LEMMA ExecStep == ASSUME NEW argv PROVE IInv /\ proc_exec(argv) => IInv'
  <1> SUFFICES ASSUME IInv, proc_exec(argv) PROVE IInv'
    OBVIOUS
  <1> DEFINE u == pt[cur]
             vas == {va \in Mapped(u) \cap MmapVa : proc_find_vma_index(vmas[cur], va) # {}}
             t == Unmap(u, vas)
  <1>1. cur # Idle /\ UNCHANGED <<state, cur, tables>>
    BY Zenon DEF proc_exec
  <1>2. /\ cur \in Proc /\ state[cur] = "live" /\ StackVa \in Mapped(u)
        /\ Types /\ Counted(pt, refcnt) /\ Exclusive(pt) /\ Injective(u)
        /\ Covered(vmas[cur], u) /\ u \in [Va -> Pte]
    BY <1>1, IInvFacts DEF Types
  <1>3. /\ pt' = [pt EXCEPT ![cur] = t] /\ refcnt' = Freed(refcnt, FramesAt(u, vas))
        /\ vmas' = [vmas EXCEPT ![cur] = proc_vm_init]
    BY Zenon DEF proc_exec, Types
  <1>4. vas \subseteq Mapped(u) /\ Without(t, u, vas)
    BY <1>2, UnmapWithout, Zenon
  <1>5. Mapped(u) \ vas = {StackVa}
    <2>1. StackVa \notin MmapVa
      BY ProcessVmAssumption DEF MmapVa, StackVa
    <2>2. \A va \in Mapped(u) : proc_find_vma_index(vmas[cur], va) # {} /\ va \in MmapVa \cup {StackVa}
      BY <1>2 DEF Covered, Mapped, Va
    <2> QED BY <1>2, <2>1, <2>2
  <1> HIDE DEF vas, t, u
  <1>6. t \in [Va -> Pte] /\ Mapped(t) = {StackVa} /\ t[StackVa] = u[StackVa]
    BY <1>4, <1>5 DEF Without
  <1>7. /\ Injective(t) /\ refcnt' \in [Frame -> Nat]
        /\ Counted([pt EXCEPT ![cur] = t], refcnt')
        /\ Exclusive([pt EXCEPT ![cur] = t])
    BY <1>2, <1>3, <1>4, UnmapStep, Zenon DEF u
  <1>8. VmasOK(proc_vm_init) /\ Covered(proc_vm_init, t)
    <2>1. t[StackVa].prot \subseteq RW
      BY <1>6, VaNat DEF Pte, NoPte, RW, Prot
    <2> QED BY <1>6, <2>1, InitialVmas DEF Covered, Protection
  <1>9. /\ state' \in [Proc -> {"unused", "live", "zombie"}]
        /\ \A q \in Proc : state'[q] = state[q]
        /\ cur' \in Proc \cup {Idle} /\ state'[cur'] = "live" /\ state'[cur] = "live"
        /\ tables' \in Nat
    BY <1>1, <1>2 DEF Types
  <1> QED BY <1>2, <1>3, <1>6, <1>7, <1>8, <1>9, OneProcess, Zenon

(* A page fault that maps a new frame with the rights of the VMA, for the  *)
(* first time or as a copy.                                                *)
LEMMA NewFrameStep ==
  ASSUME IInv, cur # Idle, NEW va \in Va, NEW i \in proc_find_vma_index(vmas[cur], va),
         NEW f \in alloc_pages_try,
         pt' = [pt EXCEPT ![cur][va] = [pa |-> f, prot |-> vmas[cur][i].prot]],
         refcnt' = FreshCounts(pt[cur], va, f),
         UNCHANGED <<state, cur, vmas>>, tables' \in Nat
  PROVE  IInv'
  <1> DEFINE u == pt[cur]
             pte == [pa |-> f, prot |-> vmas[cur][i].prot]
             t == [u EXCEPT ![va] = pte]
  <1>1. /\ cur \in Proc /\ state[cur] = "live" /\ StackVa \in Mapped(u)
        /\ Types /\ Counted(pt, refcnt) /\ Exclusive(pt) /\ Injective(u)
        /\ VmasOK(vmas[cur]) /\ Covered(vmas[cur], u) /\ u \in [Va -> Pte]
    BY IInvFacts DEF Types
  <1>2. i \in VmaIdx /\ "R" \in vmas[cur][i].prot /\ vmas[cur][i].prot \in SUBSET Prot
    BY <1>1 DEF proc_find_vma_index, Used, VmasOK, VmaFits, Vma
  <1>3. f \in Frame
    BY <1>1, AllocatedIsFree
  <1>4. pte \in Pte
    BY <1>2, <1>3 DEF Pte
  <1>5. t \in [Va -> Pte] /\ t[va] = pte /\ \A w \in Va : w # va => t[w] = u[w]
    BY <1>1, <1>4
  <1>6. pt' = [pt EXCEPT ![cur] = t]
    BY Zenon DEF Types
  <1>7. t[va].pa = f /\ t[va].prot = vmas[cur][i].prot /\ t[va].prot # {}
    BY <1>2, <1>5
  <1> HIDE DEF t, u, pte
  <1>8. Elsewhere(t, u, va)
    BY <1>5 DEF Elsewhere, Mapped
  <1>9. /\ Mapped(t) = Mapped(u) \cup {va} /\ Injective(t)
        /\ refcnt' \in [Frame -> Nat]
        /\ Counted([pt EXCEPT ![cur] = t], refcnt')
        /\ Exclusive([pt EXCEPT ![cur] = t])
    <2> DEFINE c == refcnt'
    <2>1. /\ Types /\ Counted(pt, refcnt) /\ Exclusive(pt) /\ cur \in Proc
          /\ Injective(pt[cur]) /\ va \in Va /\ f \in alloc_pages_try
          /\ t \in [Va -> Pte] /\ t[va].pa = f /\ t[va].prot # {}
          /\ Elsewhere(t, pt[cur], va) /\ c = FreshCounts(pt[cur], va, f)
      BY <1>1, <1>5, <1>7, <1>8 DEF u
    <2> HIDE DEF c
    <2>2. /\ Mapped(t) = Mapped(pt[cur]) \cup {va} /\ Injective(t)
          /\ c \in [Frame -> Nat]
          /\ Counted([pt EXCEPT ![cur] = t], c)
          /\ Exclusive([pt EXCEPT ![cur] = t])
      BY ONLY <2>1, FreshStep, Zenon
    <2> QED BY <2>2 DEF u, c
  <1>10. Covered(vmas[cur], t)
    <2> SUFFICES ASSUME NEW w \in Mapped(t)
                 PROVE  \E j \in proc_find_vma_index(vmas[cur], w) :
                          t[w].prot \subseteq vmas[cur][j].prot
      BY DEF Covered
    <2>1. CASE w = va
      BY <1>7, <2>1
    <2>2. CASE w # va
      <3>1. w \in Mapped(u) /\ t[w] = u[w]
        BY <1>5, <2>2 DEF Mapped
      <3> QED BY <1>1, <3>1 DEF Covered
    <2> QED BY <2>1, <2>2
  <1>11. /\ vmas' = [vmas EXCEPT ![cur] = vmas[cur]]
         /\ state' \in [Proc -> {"unused", "live", "zombie"}]
         /\ \A q \in Proc : state'[q] = state[q]
         /\ cur' \in Proc \cup {Idle} /\ state'[cur'] = "live" /\ state'[cur] = "live"
    BY <1>1, Zenon DEF Types
  <1> QED BY <1>1, <1>5, <1>6, <1>9, <1>10, <1>11, OneProcess, Zenon

LEMMA FaultStep ==
  ASSUME NEW va \in Va, NEW access \in Prot
  PROVE  IInv /\ proc_handle_user_page_fault(va, access) => IInv'
  <1> SUFFICES ASSUME IInv, proc_handle_user_page_fault(va, access) PROVE IInv'
    OBVIOUS
  <1>1. cur # Idle /\ tables \in Nat
    BY DEF proc_handle_user_page_fault, IInv, Types
  <1>2. CASE proc_exit
    BY <1>1, <1>2, ExitStep
  <1>3. ASSUME NEW i \in MayAccess(va, access), HandledFault(va, access, vmas[cur][i])
        PROVE  IInv'
    <2>1. i \in proc_find_vma_index(vmas[cur], va)
      BY DEF MayAccess
    <2>2. CASE DemandZero(va, vmas[cur][i])
      <3>1. PICK f \in alloc_pages_try :
              /\ refcnt' = [refcnt EXCEPT ![f] = 1]
              /\ pt' = [pt EXCEPT ![cur][va] = [pa |-> f, prot |-> vmas[cur][i].prot]]
        BY <2>2, Zenon DEF DemandZero
      <3>2. va \notin Mapped(pt[cur]) /\ UNCHANGED <<state, cur, vmas>>
        BY <2>2 DEF DemandZero
      <3>3. tables' \in Nat
        BY <1>1, <2>2 DEF DemandZero
      <3>4. refcnt' = FreshCounts(pt[cur], va, f)
        BY <3>1, <3>2 DEF FreshCounts
      <3> QED BY <1>1, <2>1, <3>1, <3>2, <3>3, <3>4, NewFrameStep, Zenon
    <2>3. CASE proc_try_cow_fault(va, vmas[cur][i])
      <3>1. PICK f \in alloc_pages_try :
              /\ refcnt' = Freed([refcnt EXCEPT ![f] = 1], {pt[cur][va].pa})
              /\ pt' = [pt EXCEPT ![cur][va] = [pa |-> f, prot |-> vmas[cur][i].prot]]
        BY <2>3, Zenon DEF proc_try_cow_fault
      <3>2. va \in Mapped(pt[cur]) /\ UNCHANGED <<state, cur, vmas, tables>>
        BY <2>3 DEF proc_try_cow_fault
      <3>3. refcnt' = FreshCounts(pt[cur], va, f)
        BY <3>1, <3>2 DEF FreshCounts
      <3> QED BY <1>1, <2>1, <3>1, <3>2, <3>3, NewFrameStep, Zenon
    <2>4. CASE UNCHANGED vars
      BY <2>4, SameMemory DEF vars, IInv, Types
    <2> QED BY <1>3, <2>2, <2>3, <2>4, Zenon DEF HandledFault
  <1> QED BY <1>2, <1>3 DEF proc_handle_user_page_fault

----------------------------------------------------------------------------
(* The invariant.                                                          *)

LEMMA InitInv == ReadableProtections /\ Init => IInv
  <1> SUFFICES ASSUME ReadableProtections, Init PROVE IInv
    OBVIOUS
  <1>1. EmptyPt \in [Va -> Pte] /\ Mapped(EmptyPt) = {}
    BY Zenon DEF EmptyPt, Pte, Mapped, NoPte
  <1>2. VmasOK(EmptyVmas) /\ EmptyVmas \in [VmaIdx -> Vma]
    BY InitialVmas DEF VmasOK
  <1>3. Types
    BY <1>1, <1>2 DEF Init, Types
  <1>4. \A p \in Proc : pt[p] = EmptyPt /\ vmas[p] = EmptyVmas /\ state[p] = "unused"
    BY DEF Init
  <1>5. \A p \in Proc : ProcOK(p)
    BY <1>1, <1>2, <1>4 DEF ProcOK, Covered, Injective, Lives
  <1>6. \A f : Holders(pt, f) = {}
    BY <1>1, <1>4 DEF Holders, Holds
  <1>7. Counted(pt, refcnt)
    BY <1>6, FS_EmptySet DEF Counted, Init
  <1>8. Exclusive(pt)
    BY <1>1, <1>4 DEF Exclusive
  <1> QED BY <1>3, <1>5, <1>7, <1>8 DEF IInv, Init

LEMMA NextInv == IInv /\ [Next]_vars => IInv'
  <1> SUFFICES ASSUME IInv, [Next]_vars PROVE IInv'
    OBVIOUS
  <1>1. CASE create_user_process
    BY <1>1, CreateStep
  <1>2. ASSUME NEW p \in Proc \cup {Idle}, yield(p) PROVE IInv'
    BY <1>2, YieldStep
  <1>3. CASE sys_exit
    BY <1>3, ExitStep DEF sys_exit
  <1>4. ASSUME NEW p \in Proc, proc_vm_release(p) PROVE IInv'
    BY <1>4, ReleaseStep
  <1>5. CASE proc_fork
    BY <1>5, ForkStep
  <1>6. ASSUME NEW s \in MmapVa, NEW e \in 1 .. MMAP_END, proc_munmap(s, e) PROVE IInv'
    BY <1>6, MunmapStep
  <1>7. ASSUME NEW s \in MmapVa, NEW e \in 1 .. MMAP_END, NEW prot \in Protections,
               proc_mmap_fixed(s, e, prot)
        PROVE  IInv'
    BY <1>7, MmapFixedStep
  <1>8. ASSUME NEW h \in MmapVa, NEW len \in 1 .. MMAP_END, NEW prot \in Protections,
               proc_mmap(h, len, prot)
        PROVE  IInv'
    BY <1>8, MmapStep
  <1>9. ASSUME NEW argv, proc_exec(argv) PROVE IInv'
    BY <1>9, ExecStep
  <1>10. ASSUME NEW va \in Va, load(va) PROVE IInv'
    BY <1>10, SameMemory DEF load, IInv, Types
  <1>11. ASSUME NEW va \in Va, NEW v \in Value, store(va, v) PROVE IInv'
    BY <1>11, SameMemory DEF store, IInv, Types
  <1>12. ASSUME NEW va \in Va, NEW access \in Prot, proc_handle_user_page_fault(va, access)
         PROVE  IInv'
    BY <1>12, FaultStep
  <1>13. CASE UNCHANGED vars
    BY <1>13, SameMemory DEF vars, IInv, Types
  <1> QED BY <1>1, <1>2, <1>3, <1>4, <1>5, <1>6, <1>7, <1>8, <1>9, <1>10, <1>11, <1>12, <1>13
          DEF Next

(* The inductive invariant of create, fork and its failures, mmap, munmap, *)
(* exec, page faults, exit and wait, when every mapping is readable.       *)
THEOREM ProcessVmInvariance == ReadableProtections /\ Spec => []IInv
  BY InitInv, NextInv, PTL DEF Spec

----------------------------------------------------------------------------
(* What follows from it.                                                   *)

(* Processes that hold a frame and page table entries that map it are the  *)
(* same in number.                                                         *)
LEMMA CountsFromHolders == IInv => CountsMatchMappings
  <1> SUFFICES ASSUME IInv, NEW f \in Frame PROVE refcnt[f] = Cardinality(Mappers(f))
    BY DEF CountsMatchMappings
  <1> DEFINE H == Holders(pt, f)
             At(p) == CHOOSE va \in Mapped(pt[p]) : pt[p][va].pa = f
             b == [p \in H |-> <<p, At(p)>>]
  <1>1. \A p \in H : p \in Proc /\ At(p) \in Mapped(pt[p]) /\ pt[p][At(p)].pa = f
    BY DEF Holders, Holds
  <1> HIDE DEF At
  <1>3. b \in [H -> Mappers(f)]
    BY <1>1 DEF Mappers, Mapped
  <1>4. \A p, q \in H : b[p] = b[q] => p = q
    OBVIOUS
  <1>5. ASSUME NEW m \in Mappers(f) PROVE \E p \in H : b[p] = m
    <2>1. /\ m \in Proc \X Va /\ m[1] \in Proc
          /\ m[2] \in Mapped(pt[m[1]]) /\ pt[m[1]][m[2]].pa = f
      BY DEF Mappers
    <2>2. m[1] \in H
      BY <2>1 DEF Holders, Holds
    <2>3. At(m[1]) = m[2]
      BY <1>1, <2>1, <2>2, IInvFacts, Zenon DEF Injective
    <2> QED BY <2>1, <2>2, <2>3
  <1> HIDE DEF b
  <1>6. b \in Bijection(H, Mappers(f))
    BY <1>3, <1>4, <1>5 DEF Bijection, Injection, Surjection, IsInjective
  <1>7. ExistsBijection(H, Mappers(f))
    BY <1>6 DEF ExistsBijection
  <1>8. IsFiniteSet(H)
    BY HoldersFinite
  <1>9. Cardinality(Mappers(f)) = Cardinality(H)
    BY <1>7, <1>8, FS_Bijection
  <1> QED BY <1>9, IInvFacts, Zenon DEF Counted

LEMMA SharedFromExclusive == IInv => SharedIsReadOnly
  <1> SUFFICES ASSUME IInv, NEW p \in Proc, NEW va \in Va, "W" \in pt[p][va].prot
               PROVE  Mappers(pt[p][va].pa) = {<<p, va>>}
    BY DEF SharedIsReadOnly
  <1>1. va \in Mapped(pt[p])
    BY DEF Mapped
  <1>2. <<p, va>> \in Mappers(pt[p][va].pa)
    BY <1>1 DEF Mappers
  <1>3. ASSUME NEW m \in Mappers(pt[p][va].pa) PROVE m = <<p, va>>
    <2>1. /\ m \in Proc \X Va /\ m[1] \in Proc
          /\ m[2] \in Mapped(pt[m[1]]) /\ pt[m[1]][m[2]].pa = pt[p][va].pa
      BY DEF Mappers
    <2>2. m[1] = p
      BY <1>1, <2>1, IInvFacts, Zenon DEF Exclusive, Holds
    <2>3. m[2] = va
      BY <1>1, <2>1, <2>2, IInvFacts, Zenon DEF Injective
    <2> QED BY <2>1, <2>2, <2>3
  <1> QED BY <1>2, <1>3

(* No path through fork and its failures, page faults, munmap, exec, exit  *)
(* and wait loses a frame or frees one that is mapped, for any sizes.      *)
THEOREM CountsStayRight == ReadableProtections /\ Spec => []CountsMatchMappings
  BY ProcessVmInvariance, CountsFromHolders, PTL

(* proc_vm_clone and proc_try_cow_fault leave no frame writable that two   *)
(* page tables map.                                                        *)
THEOREM SharedStaysReadOnly == ReadableProtections /\ Spec => []SharedIsReadOnly
  BY ProcessVmInvariance, SharedFromExclusive, PTL

(* The VMAs of mmap, MAP_FIXED and munmap never overlap, and they leave no *)
(* page mapped outside a VMA or with more rights than it gives.            *)
THEOREM MappedStaysCovered == ReadableProtections /\ Spec => []MappedIsCovered
  <1>1. IInv => MappedIsCovered
    <2> SUFFICES ASSUME IInv, NEW p \in Proc
                 PROVE  /\ \A i, j \in Used(vmas[p]) :
                             i # j => vmas[p][i].end <= vmas[p][j].start \/ vmas[p][j].end <= vmas[p][i].start
                        /\ \A va \in Mapped(pt[p]) :
                             \E i \in proc_find_vma_index(vmas[p], va) : pt[p][va].prot \subseteq vmas[p][i].prot
      BY DEF MappedIsCovered
    <2>1. VmasOK(vmas[p]) /\ Covered(vmas[p], pt[p])
      BY IInvFacts, Zenon
    <2> QED BY <2>1, Zenon DEF VmasOK, Apart, Covered
  <1> QED BY <1>1, ProcessVmInvariance, PTL

(* proc_munmap takes away its range and nothing else, whatever VMAs it     *)
(* cuts or splits.                                                         *)
THEOREM MunmapStaysExact == ReadableProtections /\ Spec => MunmapIsExact
  <1> DEFINE Exact == \A s \in MmapVa, e \in 1 .. MMAP_END :
               proc_munmap(s, e) =>
                 \A va \in Va : Protection(vmas'[cur], va) =
                   IF va \in s .. e - 1 THEN {} ELSE Protection(vmas[cur], va)
  <1>1. IInv => Exact
    <2> SUFFICES ASSUME IInv, NEW s \in MmapVa, NEW e \in 1 .. MMAP_END, proc_munmap(s, e),
                        NEW va \in Va
                 PROVE  Protection(vmas'[cur], va) =
                          IF va \in s .. e - 1 THEN {} ELSE Protection(vmas[cur], va)
      OBVIOUS
    <2>1. cur # Idle /\ s \in Nat /\ e \in Nat /\ s < e /\ e <= MMAP_END
      BY DEF proc_munmap, MmapVa
    <2>2. PICK W \in CutVmas(vmas[cur], s, e) : vmas' = [vmas EXCEPT ![cur] = W]
      BY Zenon DEF proc_munmap
    <2>3. cur \in Proc /\ VmasOK(vmas[cur]) /\ vmas \in [Proc -> [VmaIdx -> Vma]]
      BY <2>1, IInvFacts DEF Types
    <2>4. vmas'[cur] = W
      BY <2>2, <2>3
    <2>5. va \in Nat
      BY VaNat
    <2>6. Protection(W, va) = IF s <= va /\ va < e THEN {} ELSE Protection(vmas[cur], va)
      BY <2>1, <2>3, <2>5, CutVmasFacts
    <2>7. va \in s .. e - 1 <=> s <= va /\ va < e
      BY <2>5
    <2> QED BY <2>4, <2>6, <2>7
  <1>2. IInv => [Exact]_vars
    BY <1>1
  <1> QED BY <1>2, ProcessVmInvariance, PTL DEF MunmapIsExact
=============================================================================
