-------------------------- MODULE PageAllocProofs --------------------------
(***************************************************************************)
(* The page allocator's invariants, for every amount of memory, and the    *)
(* refinement of PagePool.                                                 *)
(***************************************************************************)
EXTENDS PageAlloc, WellFoundedInduction, TLAPS

RunRecord == [base : Nat, pages : Nat \ {0}]

(* Runs in order, none touching the next.                                  *)
Sorted(r) == \A i, j \in 1 .. Len(r) : i < j => RunEnd(r[i]) < r[j].base

IsIn(p, run) == run.base <= p /\ p < RunEnd(run)

(* A page that some run holds.                                             *)
Listed(r, p) == \E k \in 1 .. Len(r) : IsIn(p, r[k])

Types ==
  /\ free_runs \in Seq(RunRecord)
  /\ free_meta_nodes \in Nat
  /\ next_paddr \in Nat
  /\ meta_top \in Nat
  /\ page_refcnt \in [Page -> Nat]
  /\ freeing \subseteq Page
  /\ held \in [Page -> 0 .. MaxShare]
  /\ leaked \subseteq Page

(* A page is listed exactly when it was handed out before and its count is *)
(* 0.  Pages that leaked are held by nobody, and their count stays 1.      *)
Accounted ==
  /\ next_paddr <= managed_page_count
  /\ \A p \in Nat : Listed(free_runs, p) <=> p < next_paddr /\ page_refcnt[p] = 0
  /\ \A p \in Page : page_refcnt[p] = IF p \in leaked THEN 1 ELSE held[p]
  /\ \A p \in Page : p >= next_paddr => page_refcnt[p] = 0
  /\ \A p \in leaked : held[p] = 0
  /\ \A p \in freeing : held[p] > 0

Metadata ==
  /\ meta_top % 4 = 0 /\ meta_top <= RefTop
  /\ MetadataIsSeparate

IInv == Types /\ Sorted(free_runs) /\ Accounted /\ Metadata /\ NoPanic

----------------------------------------------------------------------------
(* Sequences and numbers.                                                  *)

LEMMA SeqEntries ==
  ASSUME NEW T, NEW r \in Seq(T)
  PROVE  /\ Len(r) \in Nat /\ DOMAIN r = 1 .. Len(r)
         /\ \A k \in 1 .. Len(r) : r[k] \in T
OBVIOUS

LEMMA Joined ==
  ASSUME NEW T, NEW r \in Seq(T), NEW s \in Seq(T)
  PROVE  /\ r \o s \in Seq(T) /\ Len(r \o s) = Len(r) + Len(s)
         /\ \A k \in 1 .. Len(r) + Len(s) :
              (r \o s)[k] = IF k <= Len(r) THEN r[k] ELSE s[k - Len(r)]
OBVIOUS

LEMMA Cut ==
  ASSUME NEW T, NEW r, NEW a \in Int, NEW z \in Int, \A k \in a .. z : r[k] \in T
  PROVE  /\ SubSeq(r, a, z) \in Seq(T)
         /\ Len(SubSeq(r, a, z)) = IF a <= z THEN z - a + 1 ELSE 0
         /\ \A k \in 1 .. z - a + 1 : SubSeq(r, a, z)[k] = r[a + k - 1]
OBVIOUS

LEMMA Prefixes ==
  ASSUME NEW T, NEW r \in Seq(T)
  PROVE  /\ SubSeq(r, 1, 0) = <<>> /\ SubSeq(r, 1, Len(r)) = r
         /\ \A k \in 1 .. Len(r) : SubSeq(r, 1, k) = Append(SubSeq(r, 1, k - 1), r[k])
OBVIOUS

LEMMA Numbers ==
  /\ managed_page_count \in Nat /\ managed_page_count > 0
  /\ PAGE_SIZE \in Nat /\ PAGE_SIZE > 0
  /\ MaxPages \in Nat /\ ADDRESSES \in Nat
  /\ MaxShare \in Nat /\ MaxShare > 0 /\ MaxShare < 2^16 /\ 2^16 \in Nat
  /\ RefTop \in Nat /\ RefTop % 4 = 0
  /\ RefTop < managed_page_count * PAGE_SIZE
<1>1. /\ managed_page_count \in Nat /\ managed_page_count > 0
      /\ PAGE_SIZE \in Nat /\ PAGE_SIZE > 0
      /\ MaxPages \in Nat /\ ADDRESSES \in Nat
  BY PageAllocAssumption
<1>2. MaxShare \in Nat /\ MaxShare > 0 /\ MaxShare < 2^16 /\ 2^16 \in Nat
  BY PageAllocAssumption
<1>3. RefTop > 0
  BY PageAllocAssumption
<1> DEFINE bytes == managed_page_count * PAGE_SIZE
           a == bytes - 2 * managed_page_count
<1>4. bytes \in Nat
  BY <1>1
<1>5. RefTop = a - (a % 4)
  BY DEF RefTop, AlignWord
<1> HIDE DEF bytes
<1>6. a \in Int /\ a < bytes
  BY <1>1, <1>4
<1> HIDE DEF a
<1>7. RefTop \in Int /\ RefTop % 4 = 0 /\ RefTop <= a
  BY <1>5, <1>6
<1> QED BY <1>1, <1>2, <1>3, <1>4, <1>6, <1>7 DEF bytes

(* Pages and bytes are in the same order.                                  *)
LEMMA PageBytes ==
  ASSUME NEW m \in Nat, NEW n \in Nat
  PROVE  /\ m * PAGE_SIZE \in Nat
         /\ m < n <=> m * PAGE_SIZE < n * PAGE_SIZE
         /\ (m + n) * PAGE_SIZE = m * PAGE_SIZE + n * PAGE_SIZE
         /\ (m * PAGE_SIZE) \div PAGE_SIZE = m
  BY Numbers

LEMMA LeastNat ==
  ASSUME NEW S, S \subseteq Nat, S # {}
  PROVE  Min(S) \in S /\ \A y \in S : Min(S) <= y
<1> DEFINE R == OpToRel(<, Nat)
<1>1. IsWellFoundedOn(R, Nat)
  BY NatLessThanWellFounded, Zenon
<1>2. \A x, y \in Nat : x < y => <<x, y>> \in R
  BY DEF OpToRel
<1> HIDE DEF R
<1>3. PICK x \in S : \A y \in S : ~ (<<y, x>> \in R)
  BY <1>1, WFMin, Zenon
<1>4. ASSUME NEW y \in S PROVE x =< y
  <2>1. x \in Nat /\ y \in Nat /\ ~ (y < x)
    BY <1>2, <1>3, Zenon
  <2> QED BY <2>1
<1> QED BY <1>4, Zenon DEF Min

----------------------------------------------------------------------------
(* The free list.                                                          *)

LEMMA RunFacts ==
  ASSUME NEW r \in Seq(RunRecord)
  PROVE  /\ Len(r) \in Nat /\ DOMAIN r = 1 .. Len(r)
         /\ \A k \in 1 .. Len(r) :
              /\ r[k] \in RunRecord /\ r[k].base \in Nat /\ r[k].pages \in Nat /\ r[k].pages > 0
              /\ RunEnd(r[k]) = r[k].base + r[k].pages /\ RunEnd(r[k]) \in Nat
              /\ r[k].base < RunEnd(r[k])
<1>1. Len(r) \in Nat /\ DOMAIN r = 1 .. Len(r)
  BY SeqEntries
<1>2. ASSUME NEW run \in RunRecord
      PROVE  /\ run.base \in Nat /\ run.pages \in Nat /\ run.pages > 0
             /\ RunEnd(run) = run.base + run.pages /\ RunEnd(run) \in Nat
             /\ run.base < RunEnd(run)
  BY DEF RunRecord, RunEnd
<1>3. \A k \in 1 .. Len(r) : r[k] \in RunRecord
  BY SeqEntries
<1> QED BY <1>1, <1>2, <1>3

LEMMA MakeRun ==
  ASSUME NEW base \in Nat, NEW n \in Nat, n > 0
  PROVE  /\ Run(base, n) \in RunRecord
         /\ Run(base, n).base = base /\ Run(base, n).pages = n
         /\ RunEnd(Run(base, n)) = base + n
  BY DEF Run, RunRecord, RunEnd

LEMMA ResizeRun ==
  ASSUME NEW run \in RunRecord, NEW n
  PROVE  [run EXCEPT !.pages = n] = Run(run.base, n)
  BY DEF Run, RunRecord

(* A run of r is replaced: it keeps its place, and its page set changes.   *)
LEMMA ReplaceRun ==
  ASSUME NEW r \in Seq(RunRecord), Sorted(r), NEW k \in 1 .. Len(r), NEW run \in RunRecord,
         \A i \in 1 .. Len(r) : i < k => RunEnd(r[i]) < run.base,
         \A i \in 1 .. Len(r) : k < i => RunEnd(run) < r[i].base
  PROVE  LET t == [r EXCEPT ![k] = run]
         IN  /\ t \in Seq(RunRecord) /\ Len(t) = Len(r)
             /\ Sorted(t)
             /\ \A p \in Nat : Listed(t, p) <=> (Listed(r, p) /\ ~IsIn(p, r[k])) \/ IsIn(p, run)
<1> DEFINE t == [r EXCEPT ![k] = run]
<1>1. /\ t \in Seq(RunRecord) /\ Len(t) = Len(r) /\ Len(r) \in Nat
      /\ t[k] = run /\ \A i \in 1 .. Len(r) : i # k => t[i] = r[i]
  OBVIOUS
<1> HIDE DEF t
<1>2. Sorted(t)
  BY <1>1 DEF Sorted
<1>3. ASSUME NEW p \in Nat
      PROVE  Listed(t, p) <=> (Listed(r, p) /\ ~IsIn(p, r[k])) \/ IsIn(p, run)
  <2>1. ASSUME NEW i \in 1 .. Len(r), i # k, IsIn(p, r[i]) PROVE ~IsIn(p, r[k])
    BY <2>1, RunFacts DEF Sorted, IsIn
  <2> QED BY <1>1, <2>1 DEF Listed
<1> QED BY <1>1, <1>2, <1>3, Zenon DEF t

LEMMA RemoveRun ==
  ASSUME NEW r \in Seq(RunRecord), Sorted(r), NEW k \in 1 .. Len(r)
  PROVE  LET t == RemoveAt(r, k)
         IN  /\ t \in Seq(RunRecord) /\ Len(t) = Len(r) - 1
             /\ \A i \in 1 .. Len(t) : t[i] = IF i < k THEN r[i] ELSE r[i + 1]
             /\ Sorted(t)
             /\ \A p \in Nat : Listed(t, p) <=> Listed(r, p) /\ ~IsIn(p, r[k])
<1> DEFINE t == RemoveAt(r, k)
           s1 == SubSeq(r, 1, k - 1)
           s2 == SubSeq(r, k + 1, Len(r))
<1>1. Len(r) \in Nat /\ \A i \in 1 .. Len(r) : r[i] \in RunRecord
  BY RunFacts
<1>2. s1 \in Seq(RunRecord) /\ Len(s1) = k - 1 /\ \A i \in 1 .. k - 1 : s1[i] = r[i]
  BY <1>1, Cut
<1>3. s2 \in Seq(RunRecord) /\ Len(s2) = Len(r) - k /\ \A i \in 1 .. Len(r) - k : s2[i] = r[k + i]
  BY <1>1, Cut
<1>4. t = s1 \o s2
  BY DEF RemoveAt
<1> HIDE DEF t, s1, s2
<1>5. /\ t \in Seq(RunRecord) /\ Len(t) = Len(r) - 1
      /\ \A i \in 1 .. Len(r) - 1 : t[i] = IF i <= k - 1 THEN s1[i] ELSE s2[i - (k - 1)]
  BY <1>1, <1>2, <1>3, <1>4, Joined
<1>6. \A i \in 1 .. Len(t) : t[i] = IF i < k THEN r[i] ELSE r[i + 1]
  BY <1>1, <1>2, <1>3, <1>5
<1>7. Sorted(t)
  <2> SUFFICES ASSUME NEW i \in 1 .. Len(t), NEW j \in 1 .. Len(t), i < j
               PROVE  RunEnd(t[i]) < t[j].base
    BY DEF Sorted
  <2> DEFINE Old(x) == IF x < k THEN x ELSE x + 1
  <2>1. t[i] = r[Old(i)] /\ t[j] = r[Old(j)]
    BY <1>6
  <2>2. Old(i) \in 1 .. Len(r) /\ Old(j) \in 1 .. Len(r) /\ Old(i) < Old(j)
    BY <1>1, <1>5
  <2> QED BY <2>1, <2>2 DEF Sorted
<1>8. ASSUME NEW p \in Nat
      PROVE  Listed(t, p) <=> Listed(r, p) /\ ~IsIn(p, r[k])
  <2>1. ASSUME NEW i \in 1 .. Len(r), i # k, IsIn(p, r[i]) PROVE ~IsIn(p, r[k])
    BY <2>1, RunFacts DEF Sorted, IsIn
  <2>2. ASSUME NEW i \in 1 .. Len(r), i # k
        PROVE  \E j \in 1 .. Len(t) : t[j] = r[i]
    <3>1. CASE i < k
      BY <1>1, <1>5, <1>6, <3>1
    <3>2. CASE i > k
      <4>1. i - 1 \in 1 .. Len(t) /\ t[i - 1] = r[i]
        BY <1>1, <1>5, <1>6, <3>2
      <4> QED BY <4>1
    <3> QED BY <1>1, <2>2, <3>1, <3>2
  <2>3. ASSUME NEW j \in 1 .. Len(t)
        PROVE  \E i \in 1 .. Len(r) : i # k /\ t[j] = r[i]
    <3>1. CASE j < k
      BY <1>1, <1>5, <1>6, <3>1
    <3>2. CASE j >= k
      <4>1. j + 1 \in 1 .. Len(r) /\ j + 1 # k /\ t[j] = r[j + 1]
        BY <1>1, <1>5, <1>6, <3>2
      <4> QED BY <4>1
    <3> QED BY <1>1, <3>1, <3>2
  <2> QED BY <2>1, <2>2, <2>3 DEF Listed
<1> QED BY <1>5, <1>6, <1>7, <1>8 DEF t

LEMMA InsertRunFacts ==
  ASSUME NEW r \in Seq(RunRecord), Sorted(r), NEW k \in 1 .. Len(r) + 1, NEW run \in RunRecord,
         \A i \in 1 .. Len(r) : i < k => RunEnd(r[i]) < run.base,
         \A i \in 1 .. Len(r) : k <= i => RunEnd(run) < r[i].base
  PROVE  LET t == InsertAt(r, k, run)
         IN  /\ t \in Seq(RunRecord) /\ Len(t) = Len(r) + 1
             /\ Sorted(t)
             /\ \A p \in Nat : Listed(t, p) <=> Listed(r, p) \/ IsIn(p, run)
<1> DEFINE t == InsertAt(r, k, run)
           s1 == SubSeq(r, 1, k - 1)
           s2 == SubSeq(r, k, Len(r))
           u == s1 \o <<run>>
<1>1. Len(r) \in Nat /\ \A i \in 1 .. Len(r) : r[i] \in RunRecord
  BY RunFacts
<1>2. s1 \in Seq(RunRecord) /\ Len(s1) = k - 1 /\ \A i \in 1 .. k - 1 : s1[i] = r[i]
  BY <1>1, Cut
<1>3. s2 \in Seq(RunRecord) /\ Len(s2) = Len(r) - k + 1 /\ \A i \in 1 .. Len(r) - k + 1 : s2[i] = r[k + i - 1]
  BY <1>1, Cut
<1>4. t = u \o s2
  BY DEF InsertAt
<1> HIDE DEF t, s1, s2
<1>5. u \in Seq(RunRecord) /\ Len(u) = k /\ u[k] = run /\ \A i \in 1 .. k - 1 : u[i] = r[i]
  BY <1>1, <1>2
<1> HIDE DEF u
<1>6. /\ t \in Seq(RunRecord) /\ Len(t) = Len(r) + 1
      /\ \A i \in 1 .. Len(r) + 1 : t[i] = IF i <= k THEN u[i] ELSE s2[i - k]
  <2>1. /\ t \in Seq(RunRecord) /\ Len(t) = Len(u) + Len(s2)
        /\ \A i \in 1 .. Len(u) + Len(s2) : t[i] = IF i <= Len(u) THEN u[i] ELSE s2[i - Len(u)]
    BY <1>3, <1>4, <1>5, Joined, Zenon
  <2>2. Len(u) + Len(s2) = Len(r) + 1
    BY <1>1, <1>3, <1>5
  <2> QED BY <1>5, <2>1, <2>2
<1>7. ASSUME NEW i \in 1 .. Len(t)
      PROVE  t[i] = IF i < k THEN r[i] ELSE IF i = k THEN run ELSE r[i - 1]
  <2>1. CASE i <= k
    BY <1>1, <1>5, <1>6, <2>1
  <2>2. CASE i > k
    <3>1. t[i] = s2[i - k] /\ i - k \in 1 .. Len(r) - k + 1 /\ k + (i - k) - 1 = i - 1
      BY <1>1, <1>6, <2>2
    <3>2. s2[i - k] = r[k + (i - k) - 1]
      BY <1>3, <3>1
    <3> QED BY <2>2, <3>1, <3>2
  <2> QED BY <2>1, <2>2
<1>8. Sorted(t)
  <2> SUFFICES ASSUME NEW i \in 1 .. Len(t), NEW j \in 1 .. Len(t), i < j
               PROVE  RunEnd(t[i]) < t[j].base
    BY DEF Sorted
  <2>1. CASE i = k
    <3>1. t[i] = run /\ t[j] = r[j - 1]
      BY <1>7, <2>1
    <3>2. j - 1 \in 1 .. Len(r) /\ k <= j - 1
      BY <1>1, <1>6, <2>1
    <3> QED BY <3>1, <3>2
  <2>2. CASE j = k
    <3>1. t[j] = run /\ t[i] = r[i]
      BY <1>7, <2>2
    <3>2. i \in 1 .. Len(r) /\ i < k
      BY <1>1, <1>6, <2>2
    <3> QED BY <3>1, <3>2
  <2>3. CASE i # k /\ j # k
    <3> DEFINE Old(x) == IF x < k THEN x ELSE x - 1
    <3>1. t[i] = r[Old(i)] /\ t[j] = r[Old(j)]
      BY <1>7, <2>3
    <3>2. Old(i) \in 1 .. Len(r) /\ Old(j) \in 1 .. Len(r) /\ Old(i) < Old(j)
      BY <1>1, <1>6, <2>3
    <3> QED BY <3>1, <3>2 DEF Sorted
  <2> QED BY <2>1, <2>2, <2>3
<1>9. ASSUME NEW p \in Nat
      PROVE  Listed(t, p) <=> Listed(r, p) \/ IsIn(p, run)
  <2>1. ASSUME NEW i \in 1 .. Len(r)
        PROVE  \E j \in 1 .. Len(t) : t[j] = r[i]
    <3>1. CASE i < k
      <4>1. i \in 1 .. Len(t)
        BY <1>1, <1>6
      <4> QED BY <1>7, <3>1, <4>1
    <3>2. CASE i >= k
      <4>1. i + 1 \in 1 .. Len(t) /\ t[i + 1] = r[i]
        BY <1>1, <1>6, <1>7, <3>2
      <4> QED BY <4>1
    <3> QED BY <1>1, <3>1, <3>2
  <2>2. ASSUME NEW j \in 1 .. Len(t), j # k
        PROVE  \E i \in 1 .. Len(r) : t[j] = r[i]
    <3>1. CASE j < k
      BY <1>1, <1>6, <1>7, <3>1
    <3>2. CASE j > k
      <4>1. j - 1 \in 1 .. Len(r) /\ t[j] = r[j - 1]
        BY <1>1, <1>6, <1>7, <3>2
      <4> QED BY <4>1
    <3> QED BY <1>1, <2>2, <3>1, <3>2
  <2>3. k \in 1 .. Len(t) /\ t[k] = run
    BY <1>1, <1>6, <1>7
  <2> QED BY <2>1, <2>2, <2>3 DEF Listed
<1> QED BY <1>6, <1>8, <1>9 DEF t

(* coalesce_free_runs finds nothing to merge in runs that do not touch.    *)
LEMMA CoalesceSorted ==
  ASSUME NEW r \in Seq(RunRecord), Sorted(r)
  PROVE  coalesce_free_runs(r) = r
<1> DEFINE D == 0 .. Len(r)
           Merge(done, k) == IF done # <<>> /\ RunEnd(Last(done)) = r[k].base
                             THEN [done EXCEPT ![Len(done)].pages = @ + r[k].pages]
                             ELSE Append(done, r[k])
           Step(m, k) == IF k = 0 THEN <<>> ELSE Merge(m[k - 1], k)
           m == CHOOSE f : f = [k \in D |-> Step(f, k)]
           g == [k \in D |-> SubSeq(r, 1, k)]
<1>1. Len(r) \in Nat /\ \A k \in 1 .. Len(r) : r[k] \in RunRecord
  BY RunFacts
<1>2. coalesce_free_runs(r) = m[Len(r)]
  BY DEF coalesce_free_runs
<1>3. ASSUME NEW k \in 1 .. Len(r)
      PROVE  Merge(SubSeq(r, 1, k - 1), k) = SubSeq(r, 1, k)
  <2> DEFINE done == SubSeq(r, 1, k - 1)
  <2>1. done \in Seq(RunRecord) /\ Len(done) = k - 1 /\ \A i \in 1 .. k - 1 : done[i] = r[i]
    BY <1>1, Cut
  <2>2. done # <<>> => RunEnd(Last(done)) # r[k].base
    <3> SUFFICES ASSUME done # <<>> PROVE RunEnd(Last(done)) # r[k].base
      OBVIOUS
    <3>1. k - 1 \in 1 .. Len(r) /\ Last(done) = r[k - 1]
      BY <1>1, <2>1 DEF Last
    <3>2. RunEnd(r[k - 1]) < r[k].base
      BY <1>1, <3>1 DEF Sorted
    <3> QED BY <1>1, <3>1, <3>2, RunFacts
  <2>3. SubSeq(r, 1, k) = Append(done, r[k])
    BY Prefixes
  <2> QED BY <2>2, <2>3, Zenon
<1>4. SubSeq(r, 1, 0) = <<>>
  BY Prefixes
<1> HIDE DEF Merge
<1>5. g = [k \in D |-> Step(g, k)]
  <2>1. ASSUME NEW k \in D PROVE g[k] = Step(g, k)
    <3>1. CASE k = 0
      BY <1>4, <3>1
    <3>2. CASE k # 0
      <4>1. k \in 1 .. Len(r) /\ k - 1 \in D
        BY <1>1, <3>2
      <4> QED BY <1>3, <3>2, <4>1
    <3> QED BY <3>1, <3>2
  <2> QED BY <2>1, Zenon
<1>6. m = [k \in D |-> Step(m, k)]
  BY <1>5
<1> HIDE DEF m, g
<1>7. \A k \in D : m[k] = g[k]
  <2> DEFINE bad == {k \in D : m[k] # g[k]}
  <2> SUFFICES ASSUME bad # {} PROVE FALSE
    OBVIOUS
  <2>0. bad \subseteq Nat
    BY <1>1
  <2> HIDE DEF bad
  <2>1. Min(bad) \in bad /\ \A y \in bad : Min(bad) <= y
    BY <2>0, LeastNat, Zenon
  <2> USE DEF bad
  <2> DEFINE b == Min(bad)
  <2>2. b \in D /\ m[b] # g[b] /\ (b # 0 => b - 1 \in D /\ m[b - 1] = g[b - 1])
    BY <1>1, <2>1
  <2> HIDE DEF bad, b
  <2>3. m[b] = Step(m, b) /\ g[b] = Step(g, b)
    BY <1>5, <1>6, <2>2
  <2> QED BY <2>2, <2>3
<1>8. m[Len(r)] = SubSeq(r, 1, Len(r))
  BY <1>1, <1>7 DEF g
<1> QED BY <1>2, <1>8, Prefixes

(* Where a page that is not listed belongs: the runs before it end below   *)
(* it or at it, the others start above it.                                 *)
LEMMA BeforeFacts ==
  ASSUME NEW p \in Nat, free_runs \in Seq(RunRecord), Sorted(free_runs), ~Listed(free_runs, p)
  PROVE  /\ Before(p) \in 0 .. Len(free_runs)
         /\ \A i \in 1 .. Len(free_runs) : i <= Before(p) => RunEnd(free_runs[i]) <= p
         /\ \A i \in 1 .. Len(free_runs) : Before(p) < i => p < free_runs[i].base
<1> DEFINE r == free_runs
           S == {k \in 0 .. Len(r) : k = Len(r) \/ r[k + 1].base >= p}
<1>1. Len(r) \in Nat
  BY RunFacts
<1>2. Len(r) \in S /\ S \subseteq Nat
  BY <1>1
<1>3. Before(p) \in S /\ \A y \in S : Before(p) <= y
  <2>1. Min(S) \in S /\ \A y \in S : Min(S) <= y
    BY <1>2, LeastNat, Zenon
  <2> QED BY <2>1 DEF Before
<1> DEFINE b == Before(p)
<1>4. b \in 0 .. Len(r) /\ (b = Len(r) \/ r[b + 1].base >= p)
  BY <1>3
<1>5. ASSUME NEW i \in 1 .. Len(r), i <= b PROVE r[i].base < p
  <2>1. i - 1 \in 0 .. Len(r) /\ i - 1 < b /\ i - 1 # Len(r) /\ (i - 1) + 1 = i
    BY <1>1, <1>4, <1>5
  <2>2. i - 1 \notin S
    BY <1>3, <1>4, <2>1
  <2>3. ~(r[i].base >= p)
    BY <2>1, <2>2
  <2> QED BY <2>3, RunFacts
<1>6. ASSUME NEW i \in 1 .. Len(r) PROVE r[i].base <= p => RunEnd(r[i]) <= p
  BY RunFacts DEF Listed, IsIn
<1>7. ASSUME NEW i \in 1 .. Len(r), i <= b PROVE RunEnd(r[i]) <= p
  BY <1>5, <1>6, <1>7, RunFacts
<1>8. ASSUME NEW i \in 1 .. Len(r), b < i PROVE p < r[i].base
  <2>1. b + 1 \in 1 .. Len(r) /\ r[b + 1].base >= p
    BY <1>1, <1>4, <1>8
  <2>2. r[b + 1].base # p
    BY <2>1, <1>6, RunFacts
  <2>3. p < r[b + 1].base
    BY <2>1, <2>2, RunFacts
  <2>4. CASE i = b + 1
    BY <2>3, <2>4
  <2>5. CASE i # b + 1
    <3>1. RunEnd(r[b + 1]) < r[i].base /\ r[b + 1].base < RunEnd(r[b + 1])
      BY <1>1, <1>4, <1>8, <2>1, <2>5, RunFacts DEF Sorted
    <3> QED BY <2>1, <2>3, <3>1, RunFacts
  <2> QED BY <2>4, <2>5
<1> QED BY <1>4, <1>7, <1>8

----------------------------------------------------------------------------
(* Freeing one page.                                                       *)

(* What is known of a page that somebody holds.                            *)
LEMMA HeldPage ==
  ASSUME IInv, NEW p \in Page, held[p] > 0
  PROVE  /\ p \in Nat /\ p < next_paddr /\ p \notin leaked
         /\ page_refcnt[p] = held[p] /\ held[p] \in Nat
         /\ ~Listed(free_runs, p)
<1>1. p \in Nat /\ held[p] \in Nat /\ next_paddr \in Nat
  BY Numbers DEF Page, IInv, Types
<1>2. p \notin leaked /\ page_refcnt[p] = held[p]
  BY <1>1 DEF IInv, Accounted
<1> QED BY <1>1, <1>2 DEF IInv, Accounted

(* The list after p was freed, and the metadata.                           *)
FreesPage(p) ==
  /\ free_runs' \in Seq(RunRecord)
  /\ Sorted(free_runs')
  /\ \A q \in Nat : Listed(free_runs', q) <=> Listed(free_runs, q) \/ q = p
  /\ free_meta_nodes' \in Nat
  /\ meta_top' \in Nat /\ meta_top' % 4 = 0 /\ meta_top' <= RefTop
  /\ next_paddr * PAGE_SIZE <= meta_top'
  /\ RefTop - meta_top' = RunNodeSize * (Len(free_runs') + free_meta_nodes')

LEMMA NoOverlap ==
  ASSUME IInv, NEW p \in Page, held[p] > 0
  PROVE  ~Overlaps(p)
<1>1. /\ p \in Nat /\ Before(p) \in 0 .. Len(free_runs)
      /\ \A i \in 1 .. Len(free_runs) : i <= Before(p) => RunEnd(free_runs[i]) <= p
      /\ \A i \in 1 .. Len(free_runs) : Before(p) < i => p < free_runs[i].base
  BY HeldPage, BeforeFacts DEF IInv, Types
<1>2. free_runs \in Seq(RunRecord) /\ Len(free_runs) \in Nat
  BY RunFacts DEF IInv, Types
<1>3. ASSUME Before(p) > 0 PROVE ~(RunEnd(Cur(p)) > p)
  BY <1>1, <1>2, <1>3, RunFacts DEF Cur
<1>4. ASSUME HasNext(p) PROVE ~(p + 1 > CurNext(p).base)
  <2>1. Before(p) + 1 \in 1 .. Len(free_runs) /\ Before(p) < Before(p) + 1
    BY <1>1, <1>2, <1>4 DEF HasNext
  <2>2. p < free_runs[Before(p) + 1].base
    BY <1>1, <2>1
  <2> QED BY <1>1, <1>2, <2>1, <2>2, RunFacts DEF CurNext
<1> QED BY <1>3, <1>4 DEF Overlaps

LEMMA AppendToRunStep ==
  ASSUME IInv, NEW p \in Page, held[p] > 0, AppendToRun(p)
  PROVE  FreesPage(p)
<1> DEFINE r == free_runs
           b == Before(p)
           end == RunEnd(r[b])
<1>1. /\ p \in Nat /\ b \in 0 .. Len(r)
      /\ \A i \in 1 .. Len(r) : i <= b => RunEnd(r[i]) <= p
      /\ \A i \in 1 .. Len(r) : b < i => p < r[i].base
  BY HeldPage, BeforeFacts DEF IInv, Types
<1>2. /\ r \in Seq(RunRecord) /\ Len(r) \in Nat /\ Sorted(r)
      /\ free_meta_nodes \in Nat /\ meta_top \in Nat /\ meta_top % 4 = 0 /\ meta_top <= RefTop
      /\ next_paddr * PAGE_SIZE <= meta_top
      /\ RefTop - meta_top = RunNodeSize * (Len(r) + free_meta_nodes)
  BY RunFacts DEF IInv, Types, Metadata, MetadataIsSeparate
<1>3. b \in 1 .. Len(r) /\ end = p /\ meta_top' = meta_top
  BY <1>1, <1>2 DEF AppendToRun, EndsAt, Cur
<1>4. CASE StartsAt(p)
  <2> DEFINE next == r[b + 1]
             run == Run(r[b].base, r[b].pages + 1 + next.pages)
             s == RemoveAt(r, b + 1)
             t == [s EXCEPT ![b] = run]
  <2>1. b + 1 \in 1 .. Len(r) /\ next.base = p + 1
    BY <1>1, <1>2, <1>4 DEF StartsAt, HasNext, CurNext
  <2>2. /\ next.base \in Nat /\ next.pages \in Nat /\ next.pages > 0 /\ RunEnd(next) = next.base + next.pages
        /\ r[b].base \in Nat /\ r[b].pages \in Nat /\ r[b].pages > 0 /\ end = r[b].base + r[b].pages
    BY <1>2, <1>3, <2>1, RunFacts, Zenon
  <2>3. run \in RunRecord /\ run.base = r[b].base /\ RunEnd(run) = RunEnd(next)
    <3>1. r[b].pages + 1 + next.pages \in Nat /\ r[b].pages + 1 + next.pages > 0
      BY <2>2
    <3>2. run \in RunRecord /\ run.base = r[b].base /\ RunEnd(run) = r[b].base + (r[b].pages + 1 + next.pages)
      BY <2>2, <3>1, MakeRun, Zenon
    <3>3. RunEnd(next) = (p + 1) + next.pages /\ p = r[b].base + r[b].pages
      BY <1>3, <2>1, <2>2
    <3> HIDE DEF run, next
    <3> QED BY <2>2, <3>2, <3>3
  <2>4. /\ s \in Seq(RunRecord) /\ Len(s) = Len(r) - 1
        /\ \A i \in 1 .. Len(s) : s[i] = IF i < b + 1 THEN r[i] ELSE r[i + 1]
        /\ Sorted(s)
        /\ \A q \in Nat : Listed(s, q) <=> Listed(r, q) /\ ~IsIn(q, next)
    BY <1>2, <2>1, RemoveRun, Zenon
  <2>5. free_runs' = t /\ free_meta_nodes' = free_meta_nodes + 1
    <3>1. free_runs' = [s EXCEPT ![b].pages = @ + 1 + next.pages] /\ free_meta_nodes' = free_meta_nodes + 1
      BY <1>4 DEF AppendToRun, CurNext
    <3>2. b \in 1 .. Len(s) /\ s[b] = r[b]
      BY <1>2, <1>3, <2>1, <2>4
    <3>3. r[b] \in RunRecord
      BY <1>2, <1>3, RunFacts
    <3>4. [r[b] EXCEPT !.pages = r[b].pages + 1 + next.pages] = run
      BY <3>3, ResizeRun, Zenon
    <3>5. t = [s EXCEPT ![b] = [s[b] EXCEPT !.pages = s[b].pages + 1 + next.pages]]
      BY <3>2, <3>4
    <3> QED BY <3>1, <3>5
  <2> HIDE DEF next, run, s, t
  <2>6. b \in 1 .. Len(s) /\ s[b] = r[b]
    BY <1>2, <1>3, <2>1, <2>4
  <2>7. ASSUME NEW i \in 1 .. Len(s), i < b PROVE RunEnd(s[i]) < run.base
    BY <1>2, <2>3, <2>4, <2>6, <2>7 DEF Sorted
  <2>8. ASSUME NEW i \in 1 .. Len(s), b < i PROVE RunEnd(run) < s[i].base
    <3>1. i + 1 \in 1 .. Len(r) /\ b + 1 < i + 1 /\ s[i] = r[i + 1]
      BY <1>2, <1>3, <2>4, <2>8
    <3>2. RunEnd(r[b + 1]) < r[i + 1].base
      BY <1>2, <2>1, <3>1 DEF Sorted
    <3> QED BY <2>3, <3>1, <3>2 DEF next
  <2>9. /\ t \in Seq(RunRecord) /\ Len(t) = Len(s)
        /\ Sorted(t)
        /\ \A q \in Nat : Listed(t, q) <=> (Listed(s, q) /\ ~IsIn(q, s[b])) \/ IsIn(q, run)
    BY <2>3, <2>4, <2>6, <2>7, <2>8, ReplaceRun, Zenon DEF t
  <2>10. ASSUME NEW q \in Nat PROVE Listed(t, q) <=> Listed(r, q) \/ q = p
    <3>1. IsIn(q, run) <=> IsIn(q, r[b]) \/ q = p \/ IsIn(q, next)
      <4>1. /\ IsIn(q, run) <=> r[b].base <= q /\ q < RunEnd(next)
            /\ IsIn(q, r[b]) <=> r[b].base <= q /\ q < p
            /\ IsIn(q, next) <=> p + 1 <= q /\ q < RunEnd(next)
        BY <1>3, <2>1, <2>3 DEF IsIn
      <4>2. /\ RunEnd(next) \in Nat /\ p + 1 < RunEnd(next) /\ r[b].base \in Nat /\ r[b].base < p
        <5>1. RunEnd(next) = (p + 1) + next.pages /\ p = r[b].base + r[b].pages
          BY <1>3, <2>1, <2>2
        <5>2. next.pages \in Nat /\ next.pages > 0
          BY <2>2
        <5>3. r[b].base \in Nat /\ r[b].pages \in Nat /\ r[b].pages > 0
          BY <2>2
        <5> HIDE DEF r, b, end
        <5> QED BY ONLY <1>1, <5>1, <5>2, <5>3, p \in Nat
      <4> HIDE DEF r, b
      <4> QED BY <1>1, <4>1, <4>2
    <3>2. (IsIn(q, r[b]) => Listed(r, q)) /\ (IsIn(q, next) => Listed(r, q))
      BY <1>3, <2>1 DEF Listed, next
    <3> QED BY <2>4, <2>6, <2>9, <3>1, <3>2
  <2>11. RefTop - meta_top = RunNodeSize * (Len(t) + (free_meta_nodes + 1))
    BY <1>2, <2>4, <2>9 DEF RunNodeSize
  <2> QED BY <1>2, <1>3, <2>5, <2>9, <2>10, <2>11 DEF FreesPage
<1>5. CASE ~StartsAt(p)
  <2> DEFINE run == Run(r[b].base, r[b].pages + 1)
             t == [r EXCEPT ![b] = run]
  <2>1. /\ r[b].base \in Nat /\ r[b].pages \in Nat /\ r[b].pages > 0 /\ end = r[b].base + r[b].pages
    BY <1>2, <1>3, RunFacts
  <2>2. run \in RunRecord /\ run.base = r[b].base /\ RunEnd(run) = p + 1
    BY <1>3, <2>1 DEF RunRecord, Run, RunEnd
  <2>3. free_runs' = t /\ free_meta_nodes' = free_meta_nodes
    <3>1. free_runs' = [r EXCEPT ![b].pages = @ + 1] /\ free_meta_nodes' = free_meta_nodes
      BY <1>5 DEF AppendToRun
    <3>2. [r[b] EXCEPT !.pages = @ + 1] = run
      BY <1>2, <1>3, RunFacts DEF Run, RunRecord
    <3> QED BY <1>2, <1>3, <3>1, <3>2, Zenon
  <2> HIDE DEF run, t
  <2>4. ASSUME NEW i \in 1 .. Len(r), i < b PROVE RunEnd(r[i]) < run.base
    BY <1>2, <1>3, <2>2, <2>4 DEF Sorted
  <2>5. ASSUME NEW i \in 1 .. Len(r), b < i PROVE RunEnd(run) < r[i].base
    <3>2. b + 1 \in 1 .. Len(r) /\ p < r[b + 1].base /\ p + 1 # r[b + 1].base
      BY <1>1, <1>2, <1>3, <1>5, <2>5 DEF StartsAt, HasNext, CurNext
    <3>3. CASE i = b + 1
      BY <1>1, <1>2, <2>2, <3>2, <3>3, RunFacts
    <3>4. CASE i # b + 1
      <4>1. RunEnd(r[b + 1]) < r[i].base /\ r[b + 1].base < RunEnd(r[b + 1])
        BY <1>2, <1>3, <2>5, <3>2, <3>4, RunFacts DEF Sorted
      <4>2. r[i].base \in Nat /\ RunEnd(r[b + 1]) \in Nat /\ r[b + 1].base \in Nat /\ p \in Nat
        BY <1>1, <1>2, <3>2, RunFacts
      <4>3. RunEnd(run) = p + 1
        BY <2>2
      <4> HIDE DEF r, b, end
      <4> QED BY <3>2, <4>1, <4>2, <4>3
    <3> QED BY <3>3, <3>4
  <2>6. /\ t \in Seq(RunRecord) /\ Len(t) = Len(r)
        /\ Sorted(t)
        /\ \A q \in Nat : Listed(t, q) <=> (Listed(r, q) /\ ~IsIn(q, r[b])) \/ IsIn(q, run)
    BY <1>2, <1>3, <2>2, <2>4, <2>5, ReplaceRun, Zenon DEF t
  <2>7. ASSUME NEW q \in Nat PROVE Listed(t, q) <=> Listed(r, q) \/ q = p
    <3>1. IsIn(q, run) <=> IsIn(q, r[b]) \/ q = p
      <4>1. /\ IsIn(q, run) <=> r[b].base <= q /\ q < p + 1
            /\ IsIn(q, r[b]) <=> r[b].base <= q /\ q < p
        BY <1>3, <2>2 DEF IsIn
      <4>2. r[b].base \in Nat /\ r[b].base < p
        BY <1>1, <1>3, <2>1
      <4> HIDE DEF r, b
      <4> QED BY <1>1, <4>1, <4>2
    <3>2. IsIn(q, r[b]) => Listed(r, q)
      BY <1>3 DEF Listed
    <3> QED BY <2>6, <3>1, <3>2
  <2> QED BY <1>2, <1>3, <2>3, <2>6, <2>7 DEF FreesPage
<1> QED BY <1>4, <1>5

LEMMA PrependToRunStep ==
  ASSUME IInv, NEW p \in Page, held[p] > 0, PrependToRun(p)
  PROVE  FreesPage(p)
<1> DEFINE r == free_runs
           b == Before(p)
           k == b + 1
           run == Run(p, r[k].pages + 1)
           t == [r EXCEPT ![k] = run]
<1>1. /\ p \in Nat /\ b \in 0 .. Len(r)
      /\ \A i \in 1 .. Len(r) : i <= b => RunEnd(r[i]) <= p
      /\ \A i \in 1 .. Len(r) : b < i => p < r[i].base
  BY HeldPage, BeforeFacts DEF IInv, Types
<1>2. /\ r \in Seq(RunRecord) /\ Len(r) \in Nat /\ Sorted(r)
      /\ free_meta_nodes \in Nat /\ meta_top \in Nat /\ meta_top % 4 = 0 /\ meta_top <= RefTop
      /\ next_paddr * PAGE_SIZE <= meta_top
      /\ RefTop - meta_top = RunNodeSize * (Len(r) + free_meta_nodes)
  BY RunFacts DEF IInv, Types, Metadata, MetadataIsSeparate
<1>3. k \in 1 .. Len(r) /\ r[k].base = p + 1
  BY <1>1, <1>2 DEF PrependToRun, StartsAt, HasNext, CurNext
<1>4. /\ r[k].base \in Nat /\ r[k].pages \in Nat /\ r[k].pages > 0
      /\ RunEnd(r[k]) = r[k].base + r[k].pages
  BY <1>2, <1>3, RunFacts
<1>5. run \in RunRecord /\ run.base = p /\ RunEnd(run) = RunEnd(r[k])
  <2>1. r[k].pages + 1 \in Nat /\ r[k].pages + 1 > 0
    BY <1>4
  <2>2. run \in RunRecord /\ run.base = p /\ RunEnd(run) = p + (r[k].pages + 1)
    BY <1>1, <2>1, MakeRun, Zenon
  <2> HIDE DEF run, r, k
  <2> QED BY <1>1, <1>3, <1>4, <2>2
<1>6. /\ free_runs' = t
      /\ UNCHANGED <<free_meta_nodes, meta_top>>
  BY DEF PrependToRun
<1>7. b > 0 => RunEnd(r[b]) # p
  BY DEF PrependToRun, EndsAt, Cur
<1> HIDE DEF run, t, r
<1>8. ASSUME NEW i \in 1 .. Len(r), i < k PROVE RunEnd(r[i]) < run.base
  <2>1. RunEnd(r[i]) \in Nat /\ RunEnd(r[i]) <= p
    BY <1>1, <1>2, <1>8, RunFacts
  <2>2. CASE i = b
    BY <1>1, <1>5, <1>7, <2>1, <2>2
  <2>3. CASE i # b
    <3>1. /\ b \in 1 .. Len(r) /\ i < b
      BY <1>1, <1>2, <1>8, <2>3
    <3>2. RunEnd(r[i]) < r[b].base /\ r[b].base < RunEnd(r[b]) /\ RunEnd(r[b]) <= p
      BY <1>1, <1>2, <3>1, RunFacts DEF Sorted
    <3>3. r[b].base \in Nat /\ RunEnd(r[b]) \in Nat
      BY <1>2, <3>1, RunFacts
    <3> QED BY <1>1, <1>5, <2>1, <3>2, <3>3
  <2> QED BY <2>2, <2>3
<1>9. ASSUME NEW i \in 1 .. Len(r), k < i PROVE RunEnd(run) < r[i].base
  BY <1>2, <1>3, <1>5, <1>9 DEF Sorted
<1>10. /\ t \in Seq(RunRecord) /\ Len(t) = Len(r)
       /\ Sorted(t)
       /\ \A q \in Nat : Listed(t, q) <=> (Listed(r, q) /\ ~IsIn(q, r[k])) \/ IsIn(q, run)
  BY <1>2, <1>3, <1>5, <1>8, <1>9, ReplaceRun, Zenon DEF t
<1>11. ASSUME NEW q \in Nat PROVE Listed(t, q) <=> Listed(r, q) \/ q = p
  <2>1. IsIn(q, run) <=> IsIn(q, r[k]) \/ q = p
    <3>1. /\ IsIn(q, run) <=> p <= q /\ q < RunEnd(r[k])
          /\ IsIn(q, r[k]) <=> p + 1 <= q /\ q < RunEnd(r[k])
      BY <1>3, <1>5 DEF IsIn
    <3>2. RunEnd(r[k]) \in Nat /\ p + 1 < RunEnd(r[k])
      BY <1>1, <1>3, <1>4
    <3> HIDE DEF k
    <3> QED BY <1>1, <3>1, <3>2
  <2>2. IsIn(q, r[k]) => Listed(r, q)
    BY <1>3 DEF Listed
  <2> QED BY <1>10, <2>1, <2>2
<1> QED BY <1>2, <1>6, <1>10, <1>11 DEF FreesPage, r

(* A node is carved only while it stays above the pages handed out.        *)
LEMMA CarvedFacts ==
  ASSUME Types, Metadata, CanCarve
  PROVE  /\ CarvedTop = meta_top - RunNodeSize
         /\ CarvedTop \in Nat /\ CarvedTop % 4 = 0 /\ CarvedTop <= RefTop
         /\ next_paddr * PAGE_SIZE <= CarvedTop
<1> DEFINE low == next_paddr * PAGE_SIZE
<1>1. /\ meta_top \in Nat /\ meta_top % 4 = 0 /\ meta_top <= RefTop /\ RefTop \in Nat
      /\ low \in Nat /\ CarvedTop > low
  BY Numbers, PageBytes DEF Types, Metadata, CanCarve
<1> HIDE DEF low
<1>2. CarvedTop = (meta_top - 12) - ((meta_top - 12) % 4)
  BY DEF CarvedTop, AlignWord, RunNodeSize
<1>3. (meta_top - 12) % 4 = 0
  BY <1>1
<1>4. CarvedTop = meta_top - 12
  BY <1>1, <1>2, <1>3
<1> QED BY <1>1, <1>3, <1>4 DEF low, RunNodeSize

LEMMA InsertRunStep ==
  ASSUME IInv, NEW p \in Page, held[p] > 0, InsertRun(p)
  PROVE  FreesPage(p)
<1> DEFINE r == free_runs
           b == Before(p)
           run == Run(p, 1)
           t == InsertAt(r, b + 1, run)
           result == IF b = 0 THEN t ELSE coalesce_free_runs(t)
<1>1. /\ p \in Nat /\ b \in 0 .. Len(r)
      /\ \A i \in 1 .. Len(r) : i <= b => RunEnd(r[i]) <= p
      /\ \A i \in 1 .. Len(r) : b < i => p < r[i].base
  BY HeldPage, BeforeFacts DEF IInv, Types
<1>2. /\ r \in Seq(RunRecord) /\ Len(r) \in Nat /\ Sorted(r)
      /\ free_meta_nodes \in Nat /\ meta_top \in Nat /\ meta_top % 4 = 0 /\ meta_top <= RefTop
      /\ next_paddr * PAGE_SIZE <= meta_top
      /\ RefTop - meta_top = RunNodeSize * (Len(r) + free_meta_nodes)
  BY RunFacts DEF IInv, Types, Metadata, MetadataIsSeparate
<1>3. run \in RunRecord /\ run.base = p /\ RunEnd(run) = p + 1
  <2>1. 1 \in Nat /\ 1 > 0
    OBVIOUS
  <2> QED BY <1>1, <2>1, MakeRun, Zenon
<1>4. /\ b > 0 => RunEnd(r[b]) # p
      /\ b < Len(r) => p + 1 # r[b + 1].base
  BY DEF InsertRun, EndsAt, StartsAt, Cur, CurNext, HasNext
<1>5. alloc_run_node(Len(t) - Len(result)) /\ free_runs' = result
  BY Zenon DEF InsertRun
<1> HIDE DEF run, t, r
<1>6. ASSUME NEW i \in 1 .. Len(r), i < b + 1 PROVE RunEnd(r[i]) < run.base
  <2>1. RunEnd(r[i]) \in Nat /\ RunEnd(r[i]) <= p
    BY <1>1, <1>2, <1>6, RunFacts
  <2>2. CASE i = b
    BY <1>1, <1>3, <1>4, <2>1, <2>2
  <2>3. CASE i # b
    <3>1. /\ b \in 1 .. Len(r) /\ i < b
      BY <1>1, <1>2, <1>6, <2>3
    <3>2. RunEnd(r[i]) < r[b].base /\ r[b].base < RunEnd(r[b]) /\ RunEnd(r[b]) <= p
      BY <1>1, <1>2, <3>1, RunFacts DEF Sorted
    <3>3. r[b].base \in Nat /\ RunEnd(r[b]) \in Nat
      BY <1>2, <3>1, RunFacts
    <3> QED BY <1>1, <1>3, <2>1, <3>2, <3>3
  <2> QED BY <2>2, <2>3
<1>7. ASSUME NEW i \in 1 .. Len(r), b + 1 <= i PROVE RunEnd(run) < r[i].base
  <2>1. b + 1 \in 1 .. Len(r) /\ p < r[b + 1].base /\ p + 1 # r[b + 1].base
    BY <1>1, <1>2, <1>4, <1>7
  <2>2. r[b + 1].base \in Nat /\ RunEnd(r[b + 1]) \in Nat /\ r[i].base \in Nat /\ r[b + 1].base < RunEnd(r[b + 1])
    BY <1>2, <2>1, RunFacts
  <2>3. CASE i = b + 1
    BY <1>1, <1>3, <2>1, <2>2, <2>3
  <2>4. CASE i # b + 1
    <3>1. RunEnd(r[b + 1]) < r[i].base
      BY <1>1, <1>2, <1>7, <2>1, <2>4 DEF Sorted
    <3> HIDE DEF b
    <3> QED BY <1>1, <1>3, <2>1, <2>2, <3>1
  <2> QED BY <2>3, <2>4
<1>8. b + 1 \in 1 .. Len(r) + 1
  BY <1>1, <1>2
<1>9. /\ t \in Seq(RunRecord) /\ Len(t) = Len(r) + 1
      /\ Sorted(t)
      /\ \A q \in Nat : Listed(t, q) <=> Listed(r, q) \/ IsIn(q, run)
  <2> HIDE DEF b
  <2> QED BY <1>2, <1>3, <1>6, <1>7, <1>8, InsertRunFacts, Zenon DEF t
<1>10. result = t
  BY <1>9, CoalesceSorted
<1>11. free_runs' = t /\ alloc_run_node(0)
  <2>1. Len(t) - Len(result) = 0
    BY <1>2, <1>9, <1>10
  <2> HIDE DEF result
  <2> QED BY <1>5, <1>10, <2>1
<1>12. ASSUME NEW q \in Nat PROVE IsIn(q, run) <=> q = p
  BY <1>1, <1>3 DEF IsIn
<1>13. /\ free_meta_nodes' \in Nat
       /\ meta_top' \in Nat /\ meta_top' % 4 = 0 /\ meta_top' <= RefTop
       /\ next_paddr * PAGE_SIZE <= meta_top'
       /\ RefTop - meta_top' = RunNodeSize * ((Len(r) + 1) + free_meta_nodes')
  <2>1. CASE free_meta_nodes > 0
    <3>1. free_meta_nodes' = free_meta_nodes - 1 + 0 /\ meta_top' = meta_top
      BY <1>11, <2>1 DEF alloc_run_node
    <3>2. free_meta_nodes' \in Nat /\ (Len(r) + 1) + free_meta_nodes' = Len(r) + free_meta_nodes
      BY <1>2, <2>1, <3>1
    <3> QED BY <1>2, <3>1, <3>2
  <2>2. CASE ~(free_meta_nodes > 0)
    <3>1. free_meta_nodes' = 0 /\ meta_top' = CarvedTop /\ CanCarve
      BY <1>11, <2>2 DEF alloc_run_node, HasNode
    <3>2. /\ CarvedTop = meta_top - RunNodeSize
          /\ CarvedTop \in Nat /\ CarvedTop % 4 = 0 /\ CarvedTop <= RefTop
          /\ next_paddr * PAGE_SIZE <= CarvedTop
      BY <3>1, CarvedFacts DEF IInv
    <3>3. RefTop - CarvedTop = RunNodeSize * ((Len(r) + 1) + 0)
      <4>1. free_meta_nodes = 0 /\ RefTop \in Nat
        BY <1>2, <2>2, Numbers
      <4> QED BY <1>2, <3>2, <4>1 DEF RunNodeSize
    <3> QED BY <3>1, <3>2, <3>3
  <2> QED BY <2>1, <2>2
<1> QED BY <1>9, <1>11, <1>12, <1>13, Zenon DEF FreesPage, r

----------------------------------------------------------------------------
(* Every step keeps the invariant.                                         *)

(* A dropped reference frees the page when it was the last one, or leaks   *)
(* it when no node is left; a user that holds the page never meets PANIC.  *)
LEMMA DropStep ==
  ASSUME IInv, NEW p \in Page, held[p] > 0, DropReference(p),
         UNCHANGED next_paddr, freeing' \subseteq freeing \ {p}
  PROVE  IInv'
<1>1. /\ p \in Nat /\ p < next_paddr /\ p \notin leaked
      /\ page_refcnt[p] = held[p] /\ held[p] \in Nat
      /\ ~Listed(free_runs, p) /\ ~Overlaps(p)
  BY HeldPage, NoOverlap
<1>2. held' = [held EXCEPT ![p] = @ - 1]
  BY DEF DropReference
<1>3. Types /\ Accounted /\ NoPanic /\ Sorted(free_runs) /\ Metadata
  BY DEF IInv
<1>4. /\ held' \in [Page -> 0 .. MaxShare] /\ held'[p] = held[p] - 1
      /\ \A q \in Page : q # p => held'[q] = held[q]
  <2>1. held[p] - 1 \in 0 .. MaxShare
    BY <1>1, <1>3, Numbers DEF Types
  <2> QED BY <1>2, <1>3, <2>1 DEF Types
<1>5. /\ freeing' \subseteq Page /\ \A q \in freeing' : held'[q] > 0
  BY <1>3, <1>4 DEF Types, Accounted
<1>6. CASE /\ page_refcnt[p] > 1
           /\ page_refcnt' = [page_refcnt EXCEPT ![p] = @ - 1]
           /\ UNCHANGED <<free_runs, free_meta_nodes, meta_top, panicked, leaked>>
  <2>1. /\ page_refcnt' \in [Page -> Nat] /\ page_refcnt'[p] = held[p] - 1 /\ page_refcnt'[p] # 0
        /\ \A q \in Page : q # p => page_refcnt'[q] = page_refcnt[q]
    BY <1>1, <1>3, <1>6 DEF Types
  <2>2. Types'
    BY <1>3, <1>4, <1>5, <1>6, <2>1 DEF Types
  <2>3. ASSUME NEW q \in Nat
        PROVE  Listed(free_runs, q) <=> q < next_paddr /\ page_refcnt'[q] = 0
    <3>1. CASE q = p
      BY <1>1, <2>1, <3>1
    <3>2. CASE q # p
      <4>1. q < next_paddr => q \in Page
        BY <1>3, Numbers DEF Accounted, Types, Page
      <4> QED BY <1>3, <2>1, <3>2, <4>1 DEF Accounted
    <3> QED BY <3>1, <3>2
  <2>4. Accounted'
    <3>1. ASSUME NEW q \in Page PROVE page_refcnt'[q] = IF q \in leaked' THEN 1 ELSE held'[q]
      BY <1>1, <1>3, <1>4, <1>6, <2>1 DEF Accounted
    <3>2. ASSUME NEW q \in Page, q >= next_paddr PROVE page_refcnt'[q] = 0
      <4>1. q # p /\ page_refcnt[q] = 0
        BY <1>1, <1>3, <3>2 DEF Accounted, Types
      <4> QED BY <1>6, <2>1, <4>1
    <3>3. ASSUME NEW q \in leaked' PROVE held'[q] = 0
      BY <1>1, <1>3, <1>4, <1>6, <2>1 DEF Accounted, Types
    <3>4. \A q \in Nat : Listed(free_runs', q) <=> q < next_paddr' /\ page_refcnt'[q] = 0
      BY <1>3, <1>6, <2>3
    <3> QED BY <1>3, <1>5, <3>1, <3>2, <3>3, <3>4 DEF Accounted
  <2>5. Metadata' /\ NoPanic' /\ Sorted(free_runs')
    BY <1>3, <1>6 DEF Metadata, MetadataIsSeparate, NoPanic
  <2> QED BY <2>2, <2>4, <2>5 DEF IInv
<1>7. CASE /\ page_refcnt[p] = 1
           /\ free_single_page_raw(p)
           /\ page_refcnt' = [page_refcnt EXCEPT ![p] = 0]
           /\ UNCHANGED <<panicked, leaked>>
  <2>1. FreesPage(p)
    BY <1>7, AppendToRunStep, PrependToRunStep, InsertRunStep DEF free_single_page_raw
  <2>2. /\ page_refcnt' \in [Page -> Nat] /\ page_refcnt'[p] = 0 /\ held'[p] = 0
        /\ \A q \in Page : q # p => page_refcnt'[q] = page_refcnt[q]
    BY <1>1, <1>3, <1>4, <1>7 DEF Types
  <2>3. Types'
    BY <1>3, <1>4, <1>5, <1>7, <2>1, <2>2 DEF Types, FreesPage
  <2>4. ASSUME NEW q \in Nat
        PROVE  Listed(free_runs', q) <=> q < next_paddr /\ page_refcnt'[q] = 0
    <3>0. Listed(free_runs', q) <=> Listed(free_runs, q) \/ q = p
      BY <2>1 DEF FreesPage
    <3>1. CASE q = p
      BY <1>1, <2>2, <3>0, <3>1
    <3>2. CASE q # p
      <4>1. q < next_paddr => q \in Page
        BY <1>3, Numbers DEF Accounted, Types, Page
      <4> QED BY <1>3, <2>2, <3>0, <3>2, <4>1 DEF Accounted
    <3> QED BY <3>1, <3>2
  <2>5. Accounted'
    <3>1. ASSUME NEW q \in Page PROVE page_refcnt'[q] = IF q \in leaked' THEN 1 ELSE held'[q]
      BY <1>1, <1>3, <1>4, <1>7, <2>2 DEF Accounted
    <3>2. ASSUME NEW q \in Page, q >= next_paddr PROVE page_refcnt'[q] = 0
      <4>1. q # p /\ page_refcnt[q] = 0
        BY <1>1, <1>3, <3>2 DEF Accounted, Types
      <4> QED BY <1>7, <2>2, <4>1
    <3>3. ASSUME NEW q \in leaked' PROVE held'[q] = 0
      BY <1>1, <1>3, <1>4, <1>7, <2>2 DEF Accounted, Types
    <3>4. \A q \in Nat : Listed(free_runs', q) <=> q < next_paddr' /\ page_refcnt'[q] = 0
      BY <1>3, <2>4
    <3> QED BY <1>3, <1>5, <3>1, <3>2, <3>3, <3>4 DEF Accounted
  <2>6. Metadata' /\ NoPanic' /\ Sorted(free_runs')
    BY <1>3, <1>7, <2>1, Zenon DEF Metadata, MetadataIsSeparate, NoPanic, FreesPage
  <2> QED BY <2>3, <2>5, <2>6 DEF IInv
<1>8. CASE page_refcnt[p] = 1 /\ LeakFallback(p)
  <2>1. /\ leaked' = leaked \cup {p} /\ held'[p] = 0
        /\ UNCHANGED <<free_runs, free_meta_nodes, meta_top, page_refcnt, panicked>>
    BY <1>1, <1>4, <1>8 DEF LeakFallback
  <2>2. Types'
    BY <1>3, <1>4, <1>5, <2>1 DEF Types
  <2>3. Accounted'
    <3>1. ASSUME NEW q \in Page PROVE page_refcnt'[q] = IF q \in leaked' THEN 1 ELSE held'[q]
      BY <1>1, <1>3, <1>4, <1>8, <2>1 DEF Accounted
    <3>2. ASSUME NEW q \in Page, q >= next_paddr PROVE page_refcnt'[q] = 0
      <4>1. q # p /\ page_refcnt[q] = 0
        BY <1>1, <1>3, <3>2 DEF Accounted, Types
      <4> QED BY <1>8, <2>1, <4>1
    <3>3. ASSUME NEW q \in leaked' PROVE held'[q] = 0
      BY <1>1, <1>3, <1>4, <1>8, <2>1 DEF Accounted, Types
    <3>4. \A q \in Nat : Listed(free_runs', q) <=> q < next_paddr' /\ page_refcnt'[q] = 0
      BY <1>3, <2>1 DEF Accounted
    <3> QED BY <1>3, <1>5, <3>1, <3>2, <3>3, <3>4 DEF Accounted
  <2>4. Metadata' /\ NoPanic' /\ Sorted(free_runs')
    BY <1>3, <2>1 DEF Metadata, MetadataIsSeparate, NoPanic
  <2> QED BY <2>2, <2>3, <2>4 DEF IInv
<1>9. ~(page_refcnt[p] = 0 \/ (page_refcnt[p] = 1 /\ Overlaps(p)))
  BY <1>1
<1> QED BY <1>6, <1>7, <1>8, <1>9 DEF DropReference

LEMMA FreeSteps ==
  ASSUME IInv
  PROVE  /\ \A p \in Page, n \in 1 .. MaxPages : free_pages(p, n) => IInv'
         /\ free_pages_loop => IInv'
         /\ \A p \in Page : page_dec_ref(p) => IInv'
<1>1. Types /\ Accounted /\ NoPanic /\ Sorted(free_runs) /\ Metadata
  BY DEF IInv
<1>2. ASSUME NEW p \in Page, NEW n \in 1 .. MaxPages, free_pages(p, n) PROVE IInv'
  <2>1. /\ UNCHANGED <<free_runs, free_meta_nodes, next_paddr, meta_top, page_refcnt,
                       panicked, held, leaked>>
        /\ freeing' \subseteq Page /\ \A q \in freeing' : held[q] > 0
    BY <1>2 DEF free_pages
  <2>2. Types' /\ Accounted'
    BY <1>1, <2>1 DEF Types, Accounted
  <2>3. Metadata' /\ NoPanic' /\ Sorted(free_runs')
    BY <1>1, <2>1 DEF Metadata, MetadataIsSeparate, NoPanic
  <2> QED BY <2>2, <2>3 DEF IInv
<1>3. ASSUME free_pages_loop PROVE IInv'
  <2> DEFINE p == Min(freeing)
  <2>1. freeing \subseteq Nat /\ freeing # {}
    BY <1>1, <1>3, Numbers DEF Types, Page, free_pages_loop
  <2>2. p \in freeing
    BY <2>1, LeastNat, Zenon
  <2>3. p \in Page /\ held[p] > 0
    BY <1>1, <2>2 DEF Types, Accounted
  <2>4. DropReference(p) /\ freeing' \subseteq freeing \ {p} /\ UNCHANGED next_paddr
    BY <1>3 DEF free_pages_loop
  <2> HIDE DEF p
  <2> QED BY <2>3, <2>4, DropStep
<1>4. ASSUME NEW p \in Page, page_dec_ref(p) PROVE IInv'
  <2>1. held[p] > 0 /\ DropReference(p) /\ UNCHANGED next_paddr /\ freeing' \subseteq freeing \ {p}
    BY <1>4 DEF page_dec_ref, Ready
  <2> QED BY <2>1, DropStep
<1> QED BY <1>2, <1>3, <1>4

LEMMA IncStep ==
  ASSUME IInv, NEW p \in Page, page_inc_ref(p)
  PROVE  IInv'
<1>1. Types /\ Accounted /\ NoPanic /\ Sorted(free_runs) /\ Metadata
  BY DEF IInv
<1>2. /\ UNCHANGED <<free_runs, free_meta_nodes, next_paddr, meta_top, freeing, leaked>>
      /\ held[p] \in 1 .. MaxShare - 1 /\ held[p] > 0 /\ MaxShare \in Nat
      /\ MaxShare < 2^16 /\ 2^16 \in Nat
  BY Numbers DEF page_inc_ref
<1>3. /\ p \in Nat /\ p < next_paddr /\ p \notin leaked
      /\ page_refcnt[p] = held[p] /\ ~Listed(free_runs, p)
  BY <1>2, HeldPage
<1>4. (held[p] + 1) % 2^16 = held[p] + 1 /\ held[p] + 1 \in 0 .. MaxShare
  <2> DEFINE m == 2^16
             h == held[p]
  <2> HIDE DEF m, h
  <2>1. h \in 1 .. MaxShare - 1 /\ MaxShare \in Nat /\ MaxShare < m /\ m \in Nat
    BY <1>2 DEF m, h
  <2>2. (h + 1) % m = h + 1 /\ h + 1 \in 0 .. MaxShare
    BY <2>1
  <2> QED BY <2>2 DEF m, h
<1>5. /\ page_refcnt' = [page_refcnt EXCEPT ![p] = (@ + 1) % 2^16]
      /\ held' = [held EXCEPT ![p] = @ + 1]
      /\ UNCHANGED panicked
  BY <1>2, <1>3 DEF page_inc_ref
<1>6. /\ held' \in [Page -> 0 .. MaxShare] /\ held'[p] = held[p] + 1 /\ held'[p] > 0
      /\ \A q \in Page : q # p => held'[q] = held[q]
  BY <1>1, <1>2, <1>4, <1>5 DEF Types
<1>7. /\ page_refcnt' \in [Page -> Nat] /\ page_refcnt'[p] = held'[p]
      /\ \A q \in Page : q # p => page_refcnt'[q] = page_refcnt[q]
  <2>1. page_refcnt' = [page_refcnt EXCEPT ![p] = held[p] + 1] /\ held[p] + 1 \in Nat
    <3>1. (page_refcnt[p] + 1) % 2^16 = held[p] + 1 /\ held[p] + 1 \in Nat
      BY <1>2, <1>3, <1>4
    <3>2. page_refcnt' = [page_refcnt EXCEPT ![p] = (page_refcnt[p] + 1) % 2^16]
      BY <1>5
    <3> QED BY ONLY <3>1, <3>2, Zenon
  <2> QED BY <1>1, <1>6, <2>1 DEF Types
<1>8. Types'
  BY <1>1, <1>2, <1>6, <1>7 DEF Types
<1>9. Accounted'
  <2>1. ASSUME NEW q \in Page PROVE page_refcnt'[q] = IF q \in leaked' THEN 1 ELSE held'[q]
    BY <1>1, <1>2, <1>3, <1>6, <1>7 DEF Accounted
  <2>2. ASSUME NEW q \in Page, q >= next_paddr PROVE page_refcnt'[q] = 0
    <3>1. q # p /\ page_refcnt[q] = 0
      BY <1>1, <1>3, <2>2 DEF Accounted, Types
    <3> QED BY <1>7, <3>1
  <2>3. ASSUME NEW q \in leaked' PROVE held'[q] = 0
    BY <1>1, <1>2, <1>3, <1>6 DEF Accounted, Types
  <2>4. ASSUME NEW q \in freeing' PROVE held'[q] > 0
    BY <1>1, <1>2, <1>6 DEF Accounted, Types
  <2>5. ASSUME NEW q \in Nat
        PROVE  Listed(free_runs, q) <=> q < next_paddr /\ page_refcnt'[q] = 0
    <3>1. CASE q = p
      BY <1>2, <1>3, <1>6, <1>7, <3>1
    <3>2. CASE q # p
      <4>1. q < next_paddr => q \in Page
        BY <1>1, Numbers DEF Accounted, Types, Page
      <4> QED BY <1>1, <1>7, <3>2, <4>1 DEF Accounted
    <3> QED BY <3>1, <3>2
  <2> QED BY <1>1, <1>2, <2>1, <2>2, <2>3, <2>4, <2>5 DEF Accounted
<1>10. Metadata' /\ NoPanic' /\ Sorted(free_runs')
  BY <1>1, <1>2, <1>5 DEF Metadata, MetadataIsSeparate, NoPanic
<1> QED BY <1>8, <1>9, <1>10 DEF IInv

(* Pages p .. p + n - 1 are handed out: nobody held them.                  *)
LEMMA HandOutStep ==
  ASSUME IInv, NEW p \in Nat, NEW n \in Nat, n > 0, HandOut(p, n), freeing = {},
         UNCHANGED <<meta_top, freeing, panicked, leaked>>,
         p + n <= managed_page_count,
         \A q \in Pages(p, n) : page_refcnt[q] = 0,
         next_paddr' \in Nat, next_paddr <= next_paddr', next_paddr' <= managed_page_count,
         p + n <= next_paddr',
         \A q \in Nat : next_paddr <= q /\ q < next_paddr' => q \in Pages(p, n),
         free_runs' \in Seq(RunRecord), Sorted(free_runs'), free_meta_nodes' \in Nat,
         \A q \in Nat : Listed(free_runs', q) <=> Listed(free_runs, q) /\ q \notin Pages(p, n),
         next_paddr' * PAGE_SIZE <= meta_top,
         Len(free_runs') + free_meta_nodes' = Len(free_runs) + free_meta_nodes
  PROVE  /\ IInv'
         /\ \A q \in Pages(p, n) : q \in Page /\ held[q] = 0
<1> DEFINE P == Pages(p, n)
<1>1. Types /\ Accounted /\ NoPanic /\ Sorted(free_runs) /\ Metadata
  BY DEF IInv
<1>2. \A q \in Nat : q \in P <=> p <= q /\ q < p + n
  BY DEF Pages
<1>3. \A q \in P : q \in Nat /\ q \in Page /\ page_refcnt[q] = 0
  BY Numbers DEF Pages, Page
<1> HIDE DEF P
<1>4. \A q \in P : q \notin leaked /\ held[q] = 0
  BY <1>1, <1>3 DEF Accounted
<1>5. /\ page_refcnt' = [q \in Page |-> IF q \in P THEN 1 ELSE page_refcnt[q]]
      /\ held' = [q \in Page |-> IF q \in P THEN held[q] + 1 ELSE held[q]]
  BY DEF HandOut, P
<1>6. /\ page_refcnt' \in [Page -> Nat] /\ held' \in [Page -> 0 .. MaxShare]
      /\ \A q \in Page : page_refcnt'[q] = IF q \in P THEN 1 ELSE page_refcnt[q]
      /\ \A q \in Page : held'[q] = IF q \in P THEN 1 ELSE held[q]
  <2>1. MaxShare \in Nat /\ MaxShare > 0
    BY Numbers
  <2>2. \A q \in Page : held'[q] = IF q \in P THEN 1 ELSE held[q]
    BY <1>4, <1>5
  <2>3. held' \in [Page -> 0 .. MaxShare]
    <3>1. ASSUME NEW q \in Page PROVE held'[q] \in 0 .. MaxShare
      <4>1. 1 \in 0 .. MaxShare /\ held[q] \in 0 .. MaxShare
        BY <1>1, <2>1 DEF Types
      <4> QED BY <2>2, <4>1
    <3>2. held' = [q \in Page |-> held'[q]]
      BY <1>5
    <3> QED BY <3>1, <3>2
  <2> QED BY <1>1, <1>5, <2>2, <2>3 DEF Types
<1>7. Types'
  BY <1>1, <1>6 DEF Types
<1>8. Accounted'
  <2>1. ASSUME NEW q \in Page PROVE page_refcnt'[q] = IF q \in leaked' THEN 1 ELSE held'[q]
    BY <1>1, <1>4, <1>6 DEF Accounted
  <2>2. ASSUME NEW q \in Page, q >= next_paddr' PROVE page_refcnt'[q] = 0
    <3>1. q \in Nat /\ next_paddr \in Nat /\ q >= next_paddr /\ ~(q < p + n)
      BY <1>1, <2>2, Numbers DEF Types, Page
    <3> QED BY <1>1, <1>2, <1>6, <3>1 DEF Accounted
  <2>3. ASSUME NEW q \in leaked' PROVE held'[q] = 0
    BY <1>1, <1>4, <1>6 DEF Accounted, Types
  <2>4. ASSUME NEW q \in Nat
        PROVE  Listed(free_runs', q) <=> q < next_paddr' /\ page_refcnt'[q] = 0
    <3>1. CASE q \in P
      BY <1>3, <1>6, <3>1 DEF P
    <3>2. CASE q \notin P
      <4>1. q < next_paddr <=> q < next_paddr'
        BY <1>1, <3>2 DEF Types, P
      <4>2. q < next_paddr' => q \in Page
        BY Numbers DEF Page
      <4>3. Listed(free_runs, q) <=> q < next_paddr /\ page_refcnt[q] = 0
        BY <1>1 DEF Accounted
      <4>4. Listed(free_runs', q) <=> Listed(free_runs, q)
        BY <3>2 DEF P
      <4>5. q \in Page => page_refcnt'[q] = page_refcnt[q]
        BY <1>6, <3>2
      <4> QED BY <4>1, <4>2, <4>3, <4>4, <4>5
    <3> QED BY <3>1, <3>2
  <2> QED BY <1>1, <2>1, <2>2, <2>3, <2>4 DEF Accounted
<1>9. Metadata' /\ NoPanic'
  BY <1>1 DEF Metadata, MetadataIsSeparate, NoPanic
<1> QED BY <1>3, <1>4, <1>7, <1>8, <1>9 DEF IInv, P

(* What an allocation hands out, for the refinement.                       *)
HandsOut ==
  \E p, q \in Page :
    /\ p <= q
    /\ HandOut(p, q - p + 1)
    /\ \A i \in p .. p + (q - p + 1) - 1 : i \in Page /\ held[i] = 0

LEMMA HandsOutPages ==
  ASSUME NEW p \in Nat, NEW n \in Nat, n > 0, HandOut(p, n),
         \A q \in Pages(p, n) : q \in Page /\ held[q] = 0
  PROVE  HandsOut
<1> DEFINE q == p + n - 1
<1>1. p \in Pages(p, n) /\ q \in Pages(p, n)
  BY DEF Pages
<1>2. p \in Page /\ q \in Page /\ p <= q
  BY <1>1
<1>3. q - p + 1 = n /\ p .. p + (q - p + 1) - 1 = Pages(p, n)
  <2>1. q - p + 1 = n
    OBVIOUS
  <2> HIDE DEF q
  <2> QED BY <2>1 DEF Pages
<1> HIDE DEF q
<1>4. \A i \in p .. p + (q - p + 1) - 1 : i \in Page /\ held[i] = 0
  BY <1>3
<1>5. HandOut(p, q - p + 1)
  BY <1>3
<1> QED BY <1>2, <1>4, <1>5 DEF HandsOut

LEMMA TakeFromRunStep ==
  ASSUME IInv, NEW n \in 1 .. MaxPages, alloc_pages_try(n), TakeFromRun(n)
  PROVE  IInv' /\ HandsOut
<1> DEFINE r == free_runs
           k == Min(Fits(n))
           run == r[k]
           base == run.base
<1>1. Types /\ Accounted /\ NoPanic /\ Sorted(r) /\ Metadata
  BY DEF IInv
<1>2. /\ r \in Seq(RunRecord) /\ Len(r) \in Nat /\ DOMAIN r = 1 .. Len(r)
      /\ n \in Nat /\ n > 0 /\ free_meta_nodes \in Nat /\ next_paddr \in Nat
      /\ next_paddr <= managed_page_count /\ managed_page_count \in Nat
  BY <1>1, RunFacts, Numbers DEF Types, Accounted
<1>3. k \in 1 .. Len(r) /\ run.pages >= n
  <2>1. Fits(n) \subseteq Nat /\ Fits(n) # {}
    BY <1>2 DEF Fits, TakeFromRun
  <2>2. k \in Fits(n)
    BY <2>1, LeastNat
  <2> QED BY <1>2, <2>2 DEF Fits
<1>4. /\ HandOut(base, n)
      /\ \/ run.pages = n /\ free_runs' = RemoveAt(r, k) /\ free_meta_nodes' = free_meta_nodes + 1
         \/ /\ run.pages # n /\ free_meta_nodes' = free_meta_nodes
            /\ free_runs' = [r EXCEPT ![k] = Run(base + n, run.pages - n)]
      /\ next_paddr' = next_paddr
  BY DEF TakeFromRun
<1>5. UNCHANGED <<meta_top, freeing, panicked, leaked>> /\ freeing = {}
  BY DEF alloc_pages_try, Ready
<1> HIDE DEF k, r
<1>6. /\ run \in RunRecord /\ base \in Nat /\ run.pages \in Nat
      /\ RunEnd(run) = base + run.pages
  BY <1>2, <1>3, RunFacts
<1>7. ASSUME NEW q \in Nat, base <= q, q < base + run.pages
      PROVE  q < next_paddr /\ page_refcnt[q] = 0
  <2>1. Listed(r, q)
    BY <1>3, <1>6, <1>7 DEF Listed, IsIn
  <2> QED BY <1>1, <2>1 DEF Accounted, r
<1>8. base + n <= next_paddr
  <2> DEFINE last == base + n - 1
  <2>1. last \in Nat /\ base <= last /\ last < base + run.pages
    BY <1>2, <1>3, <1>6
  <2>2. last < next_paddr
    BY <1>7, <2>1
  <2> QED BY <1>2, <1>6, <2>2
<1>9. \A q \in Pages(base, n) : page_refcnt[q] = 0
  <2> SUFFICES ASSUME NEW q \in Pages(base, n) PROVE page_refcnt[q] = 0
    OBVIOUS
  <2>1. q \in Nat /\ base <= q /\ q < base + run.pages
    BY <1>2, <1>3, <1>6 DEF Pages
  <2> QED BY <1>7, <2>1
<1>10. /\ free_runs' \in Seq(RunRecord) /\ Sorted(free_runs') /\ free_meta_nodes' \in Nat
       /\ \A q \in Nat : Listed(free_runs', q) <=> Listed(r, q) /\ q \notin Pages(base, n)
       /\ Len(free_runs') + free_meta_nodes' = Len(r) + free_meta_nodes
  <2>1. CASE run.pages = n
    <3> DEFINE t == RemoveAt(r, k)
    <3>1. free_runs' = t /\ free_meta_nodes' = free_meta_nodes + 1
      BY <1>4, <2>1
    <3>2. /\ t \in Seq(RunRecord) /\ Len(t) = Len(r) - 1
          /\ Sorted(t)
          /\ \A q \in Nat : Listed(t, q) <=> Listed(r, q) /\ ~IsIn(q, run)
      BY <1>1, <1>2, <1>3, RemoveRun, Zenon
    <3>3. \A q \in Nat : IsIn(q, run) <=> q \in Pages(base, n)
      BY <1>2, <1>6, <2>1 DEF IsIn, Pages
    <3> HIDE DEF t
    <3> QED BY <1>2, <3>1, <3>2, <3>3
  <2>2. CASE run.pages # n
    <3> DEFINE rest == Run(base + n, run.pages - n)
               t == [r EXCEPT ![k] = rest]
    <3>1. free_runs' = t /\ free_meta_nodes' = free_meta_nodes
      BY <1>4, <2>2
    <3>2. base + n \in Nat /\ run.pages - n \in Nat /\ run.pages - n > 0
      BY <1>2, <1>3, <1>6, <2>2
    <3>3. rest \in RunRecord /\ rest.base = base + n /\ RunEnd(rest) = (base + n) + (run.pages - n)
      BY <3>2, MakeRun, Zenon
    <3>4. RunEnd(rest) = RunEnd(run)
      BY <1>2, <1>6, <3>3
    <3> HIDE DEF rest
    <3>5. ASSUME NEW i \in 1 .. Len(r), i < k PROVE RunEnd(r[i]) < rest.base
      <4>1. RunEnd(r[i]) < base /\ RunEnd(r[i]) \in Nat
        BY <1>1, <1>2, <1>3, <3>5, RunFacts DEF Sorted
      <4> QED BY <1>2, <1>6, <3>3, <4>1
    <3>6. ASSUME NEW i \in 1 .. Len(r), k < i PROVE RunEnd(rest) < r[i].base
      BY <1>1, <1>3, <3>4, <3>6 DEF Sorted
    <3>7. /\ t \in Seq(RunRecord) /\ Len(t) = Len(r)
          /\ Sorted(t)
          /\ \A q \in Nat : Listed(t, q) <=> (Listed(r, q) /\ ~IsIn(q, run)) \/ IsIn(q, rest)
      BY <1>1, <1>2, <1>3, <3>3, <3>5, <3>6, ReplaceRun, Zenon
    <3> HIDE DEF t
    <3>8. ASSUME NEW q \in Nat
          PROVE  Listed(t, q) <=> Listed(r, q) /\ q \notin Pages(base, n)
      <4>1. IsIn(q, run) => Listed(r, q)
        BY <1>3 DEF Listed
      <4>2. IsIn(q, run) <=> base <= q /\ q < base + run.pages
        BY <1>6 DEF IsIn
      <4>3. IsIn(q, rest) <=> base + n <= q /\ q < base + run.pages
        BY <1>6, <3>3, <3>4 DEF IsIn
      <4>4. q \in Pages(base, n) <=> base <= q /\ q < base + n
        BY <1>2, <1>6 DEF Pages
      <4>5. base \in Nat /\ n \in Nat /\ n > 0 /\ run.pages \in Nat /\ run.pages >= n
        BY <1>2, <1>3, <1>6
      <4> HIDE DEF run, base
      <4> QED BY <3>7, <4>1, <4>2, <4>3, <4>4, <4>5
    <3> QED BY <1>2, <3>1, <3>7, <3>8
  <2> QED BY <2>1, <2>2
<1>11. \A q \in Nat : next_paddr <= q /\ q < next_paddr' => q \in Pages(base, n)
  BY <1>2, <1>4
<1>12. next_paddr' * PAGE_SIZE <= meta_top
  BY <1>1, <1>4 DEF Metadata, MetadataIsSeparate
<1>13. base + n <= managed_page_count
  BY <1>2, <1>6, <1>8
<1>14. /\ IInv' /\ \A q \in Pages(base, n) : q \in Page /\ held[q] = 0
  <2>1. HandOut(base, n) /\ next_paddr' = next_paddr /\ base \in Nat
    BY <1>4, <1>6
  <2>2. next_paddr' \in Nat /\ next_paddr <= next_paddr' /\ next_paddr' <= managed_page_count /\ base + n <= next_paddr'
    BY <1>2, <1>8, <2>1
  <2> HIDE DEF base
  <2> QED BY <1>2, <1>5, <1>9, <1>10, <1>11, <1>12, <1>13, <2>1, <2>2, HandOutStep, Zenon DEF r
<1> QED BY <1>2, <1>4, <1>6, <1>14, HandsOutPages

LEMMA TakeFromTopStep ==
  ASSUME IInv, NEW n \in 1 .. MaxPages, alloc_pages_try(n), TakeFromTop(n)
  PROVE  IInv' /\ HandsOut
<1> DEFINE top == next_paddr + n
<1>1. Types /\ Accounted /\ NoPanic /\ Sorted(free_runs) /\ Metadata
  BY DEF IInv
<1>2. /\ n \in Nat /\ n > 0 /\ n <= MaxPages /\ MaxPages \in Nat
      /\ next_paddr \in Nat /\ next_paddr <= managed_page_count /\ managed_page_count \in Nat
      /\ PAGE_SIZE \in Nat /\ PAGE_SIZE > 0 /\ ADDRESSES \in Nat
      /\ managed_page_count * PAGE_SIZE < ADDRESSES /\ MaxPages * PAGE_SIZE < ADDRESSES
      /\ meta_top \in Nat /\ meta_top <= RefTop /\ RefTop \in Nat /\ RefTop < managed_page_count * PAGE_SIZE
      /\ free_meta_nodes \in Nat
  BY <1>1, Numbers, PageAllocAssumption DEF Types, Accounted, Metadata
<1>3. /\ HandOut(next_paddr, n) /\ HasRoom(n)
      /\ next_paddr' = NewNext(n) \div PAGE_SIZE
      /\ UNCHANGED <<free_runs, free_meta_nodes, meta_top, freeing, panicked, leaked>> /\ freeing = {}
  BY DEF TakeFromTop, alloc_pages_try, Ready
<1>4. top * PAGE_SIZE <= meta_top /\ next_paddr' = top
  <2> DEFINE x == next_paddr * PAGE_SIZE
             y == n * PAGE_SIZE
  <2>1. x \in Nat /\ y \in Nat /\ top \in Nat /\ top * PAGE_SIZE = x + y /\ (top * PAGE_SIZE) \div PAGE_SIZE = top
    BY <1>2, PageBytes
  <2>2. x < ADDRESSES /\ y < ADDRESSES /\ y > 0
    <3>1. x <= managed_page_count * PAGE_SIZE /\ y <= MaxPages * PAGE_SIZE /\ y > 0
      BY <1>2
    <3>2. managed_page_count * PAGE_SIZE \in Nat /\ MaxPages * PAGE_SIZE \in Nat
      BY <1>2
    <3> QED BY <1>2, <2>1, <3>1, <3>2
  <2>3. NewNext(n) = (x + y) % ADDRESSES /\ NewNext(n) <= meta_top /\ NewNext(n) >= x
    BY <1>3 DEF NewNext, HasRoom
  <2> HIDE DEF x, y, top
  <2>4. (x + y) % ADDRESSES = IF x + y < ADDRESSES THEN x + y ELSE x + y - ADDRESSES
    BY <1>2, <2>1, <2>2
  <2>5. NewNext(n) = x + y
    BY <1>2, <2>1, <2>2, <2>3, <2>4
  <2> QED BY <1>3, <2>1, <2>3, <2>5
<1>5. top \in Nat /\ next_paddr <= top /\ top <= managed_page_count
  <2>1. top \in Nat
    BY <1>2
  <2>2. top * PAGE_SIZE \in Nat /\ managed_page_count * PAGE_SIZE \in Nat
    BY <1>2
  <2>3. top * PAGE_SIZE < managed_page_count * PAGE_SIZE
    <3> HIDE DEF top
    <3> QED BY <1>2, <1>4, <2>2
  <2>4. top < managed_page_count
    BY <1>2, <2>1, <2>3, PageBytes
  <2> QED BY <1>2, <2>1, <2>4
<1>6. \A q \in Nat : q \in Pages(next_paddr, n) <=> next_paddr <= q /\ q < top
  BY <1>2 DEF Pages
<1>7. \A q \in Pages(next_paddr, n) : q \in Nat /\ next_paddr <= q /\ q \in Page /\ page_refcnt[q] = 0
  <2> SUFFICES ASSUME NEW q \in Pages(next_paddr, n)
               PROVE  q \in Nat /\ next_paddr <= q /\ q \in Page /\ page_refcnt[q] = 0
    OBVIOUS
  <2>1. q \in Nat /\ next_paddr <= q /\ q < top
    BY <1>2 DEF Pages
  <2>2. q \in Page
    BY <1>2, <1>5, <2>1 DEF Page
  <2> QED BY <1>1, <2>1, <2>2 DEF Accounted
<1>8. \A q \in Nat : Listed(free_runs', q) <=> Listed(free_runs, q) /\ q \notin Pages(next_paddr, n)
  <2> SUFFICES ASSUME NEW q \in Nat, Listed(free_runs, q) PROVE q \notin Pages(next_paddr, n)
    BY <1>3
  <2>1. q < next_paddr
    BY <1>1 DEF Accounted
  <2> QED BY <1>2, <1>6, <2>1
<1>9. free_runs' \in Seq(RunRecord) /\ Sorted(free_runs') /\ free_meta_nodes' \in Nat
      /\ Len(free_runs') + free_meta_nodes' = Len(free_runs) + free_meta_nodes
  BY <1>1, <1>2, <1>3 DEF Types
<1> HIDE DEF top
<1>10. /\ IInv' /\ \A q \in Pages(next_paddr, n) : q \in Page /\ held[q] = 0
  <2>1. next_paddr + n = top
    BY DEF top
  <2>2. /\ next_paddr + n <= managed_page_count /\ next_paddr + n <= next_paddr'
        /\ next_paddr' \in Nat /\ next_paddr <= next_paddr' /\ next_paddr' <= managed_page_count
        /\ next_paddr' * PAGE_SIZE <= meta_top
    BY <1>4, <1>5, <2>1
  <2>3. \A q \in Pages(next_paddr, n) : page_refcnt[q] = 0
    BY <1>7
  <2>4. \A q \in Nat : next_paddr <= q /\ q < next_paddr' => q \in Pages(next_paddr, n)
    BY <1>4, <1>6
  <2> QED BY <1>2, <1>3, <1>8, <1>9, <2>2, <2>3, <2>4, HandOutStep, Zenon
<1> QED BY <1>2, <1>3, <1>10, HandsOutPages

LEMMA ReturnNullStep ==
  ASSUME IInv, NEW n \in 1 .. MaxPages, alloc_pages_try(n), ReturnNull(n)
  PROVE  IInv' /\ UNCHANGED held
<1>1. UNCHANGED vars
  BY DEF alloc_pages_try, ReturnNull, vars
<1>2. Types' /\ Accounted'
  BY <1>1 DEF IInv, vars, Types, Accounted
<1>3. Metadata' /\ NoPanic' /\ Sorted(free_runs')
  BY <1>1 DEF IInv, vars, Metadata, MetadataIsSeparate, NoPanic
<1> QED BY <1>1, <1>2, <1>3 DEF IInv, vars

LEMMA InitInv == init_allocator_if_needed => IInv
<1> SUFFICES ASSUME init_allocator_if_needed PROVE IInv
  OBVIOUS
<1>1. /\ free_runs = <<>> /\ free_meta_nodes = 0 /\ next_paddr = 0 /\ meta_top = RefTop
      /\ page_refcnt = [p \in Page |-> 0] /\ freeing = {} /\ panicked = FALSE
      /\ held = [p \in Page |-> 0] /\ leaked = {}
  BY DEF init_allocator_if_needed
<1>2. Len(free_runs) = 0 /\ free_runs \in Seq(RunRecord)
  BY <1>1
<1>3. Types
  BY <1>1, <1>2, Numbers DEF Types
<1>4. ASSUME NEW p \in Nat PROVE ~Listed(free_runs, p)
  BY <1>2 DEF Listed
<1>5. Accounted
  BY <1>1, <1>4, Numbers DEF Accounted
<1>6. Metadata
  <2>1. 0 * PAGE_SIZE = 0 /\ RefTop - RefTop = 0 /\ RunNodeSize * (0 + 0) = 0 /\ RefTop >= 0
    BY Numbers DEF RunNodeSize
  <2>2. MetadataIsSeparate
    BY <1>1, <1>2, <2>1 DEF MetadataIsSeparate
  <2> QED BY <1>1, <2>2, Numbers DEF Metadata
<1>7. Sorted(free_runs)
  BY <1>2 DEF Sorted
<1> QED BY <1>1, <1>3, <1>5, <1>6, <1>7 DEF IInv, NoPanic

LEMMA NextInv == IInv /\ [Next]_vars => IInv'
<1> SUFFICES ASSUME IInv, [Next]_vars PROVE IInv'
  OBVIOUS
<1>1. ASSUME NEW n \in 1 .. MaxPages, alloc_pages_try(n) PROVE IInv'
  BY <1>1, TakeFromRunStep, TakeFromTopStep, ReturnNullStep DEF alloc_pages_try
<1>2. CASE UNCHANGED vars
  <2>1. Types' /\ Accounted'
    BY <1>2 DEF IInv, vars, Types, Accounted
  <2>2. Metadata' /\ NoPanic' /\ Sorted(free_runs')
    BY <1>2 DEF IInv, vars, Metadata, MetadataIsSeparate, NoPanic
  <2> QED BY <2>1, <2>2 DEF IInv
<1> QED BY <1>1, <1>2, FreeSteps, IncStep DEF Next

----------------------------------------------------------------------------
(* The inductive invariant holds in every reachable state.                 *)
THEOREM PageAllocInvariance == Spec => []IInv
  BY InitInv, NextInv, PTL DEF Spec

(* The free list stays sorted and runs that touch are merged, whatever the *)
(* users allocate, share and free.                                         *)
THEOREM RunsStayMaximal == Spec => []RunsAreMaximal
<1>1. IInv => RunsAreMaximal
  <2> SUFFICES ASSUME IInv, NEW k \in 1 .. Len(free_runs) - 1
               PROVE  RunEnd(free_runs[k]) < free_runs[k + 1].base
    BY DEF RunsAreMaximal
  <2>1. Len(free_runs) \in Nat /\ Sorted(free_runs)
    BY RunFacts DEF IInv, Types
  <2>2. k \in 1 .. Len(free_runs) /\ k + 1 \in 1 .. Len(free_runs) /\ k < k + 1
    BY <2>1
  <2> QED BY <2>1, <2>2 DEF Sorted
<1> QED BY <1>1, PageAllocInvariance, PTL

(* Every page is in one place: free exactly when it was handed out before  *)
(* and its count is 0, and the count is what the users hold.               *)
THEOREM PagesStayAccounted == Spec => []PagesAreAccounted
<1>1. IInv => PagesAreAccounted
  <2> SUFFICES ASSUME IInv PROVE PagesAreAccounted
    OBVIOUS
  <2>1. /\ free_runs \in Seq(RunRecord) /\ Accounted /\ next_paddr \in Nat
        /\ DOMAIN free_runs = 1 .. Len(free_runs)
    BY RunFacts DEF IInv, Types
  <2>2. ASSUME NEW k \in 1 .. Len(free_runs), NEW p
        PROVE  p \in Pages(free_runs[k].base, free_runs[k].pages) <=> p \in Nat /\ IsIn(p, free_runs[k])
    <3>1. free_runs[k].base \in Nat /\ free_runs[k].pages \in Nat
          /\ RunEnd(free_runs[k]) = free_runs[k].base + free_runs[k].pages
      BY <2>1, RunFacts
    <3> DEFINE a == free_runs[k].base
               n == free_runs[k].pages
    <3>2. IsIn(p, free_runs[k]) <=> a <= p /\ p < a + n
      BY <3>1 DEF IsIn
    <3>3. a \in Nat /\ n \in Nat
      BY <3>1
    <3> HIDE DEF a, n
    <3>4. p \in Pages(a, n) <=> p \in Nat /\ a <= p /\ p < a + n
      BY <3>3 DEF Pages
    <3> QED BY <3>2, <3>4 DEF a, n
  <2>3. ASSUME NEW p PROVE p \in FreePages <=> p \in Nat /\ Listed(free_runs, p)
    BY <2>1, <2>2 DEF FreePages, Listed
  <2>4. ASSUME NEW p PROVE p \in 0 .. next_paddr - 1 <=> p \in Nat /\ p < next_paddr
    BY <2>1
  <2>5. \A p : p \in FreePages <=> p \in 0 .. next_paddr - 1 /\ page_refcnt[p] = 0
    BY <2>1, <2>3, <2>4 DEF Accounted
  <2>6. FreePages = {p \in 0 .. next_paddr - 1 : page_refcnt[p] = 0}
    BY <2>5
  <2> QED BY <2>1, <2>6 DEF PagesAreAccounted, Accounted
<1> QED BY <1>1, PageAllocInvariance, PTL

(* The metadata never meets the pages handed out, and no node is lost.     *)
THEOREM MetadataStaysSeparate == Spec => []MetadataIsSeparate
<1>1. IInv => MetadataIsSeparate
  BY DEF IInv, Metadata
<1> QED BY <1>1, PageAllocInvariance, PTL

(* No PANIC of page_alloc.c is reached by users that drop only references  *)
(* they hold.                                                              *)
THEOREM NeverPanics == Spec => []NoPanic
<1>1. IInv => NoPanic
  BY DEF IInv
<1> QED BY <1>1, PageAllocInvariance, PTL

LEMMA PoolInit == init_allocator_if_needed => Pool!Init
  BY DEF init_allocator_if_needed, Pool!Init

LEMMA PoolStep == IInv /\ [Next]_vars => [Pool!Next]_held
<1> SUFFICES ASSUME IInv, [Next]_vars PROVE [Pool!Next]_held
  OBVIOUS
<1>1. ASSUME HandsOut PROVE Pool!Next
  <2>1. PICK p \in Page, q \in Page :
          /\ p <= q
          /\ HandOut(p, q - p + 1)
          /\ \A i \in p .. p + (q - p + 1) - 1 : i \in Page /\ held[i] = 0
    BY <1>1 DEF HandsOut
  <2>2. held' = [i \in Page |-> IF i \in p .. p + (q - p + 1) - 1 THEN held[i] + 1 ELSE held[i]]
    BY <2>1 DEF HandOut, Pages
  <2>3. held' = [i \in Page |-> IF i \in p .. p + (q - p + 1) - 1 THEN 1 ELSE held[i]]
    BY <2>1, <2>2
  <2>4. Pool!Allocate(p, q - p + 1)
    BY <2>1, <2>3 DEF Pool!Allocate
  <2> QED BY <2>1, <2>4 DEF Pool!Next
<1>2. ASSUME NEW p \in Page, held[p] > 0, DropReference(p) PROVE Pool!Next
  BY <1>2, Zenon DEF DropReference, Pool!Next, Pool!Release
<1>3. CASE \E n \in 1 .. MaxPages : alloc_pages_try(n)
  <2>1. PICK n \in 1 .. MaxPages : alloc_pages_try(n)
    BY <1>3
  <2>2. HandsOut \/ UNCHANGED held
    BY <2>1, TakeFromRunStep, TakeFromTopStep, ReturnNullStep DEF alloc_pages_try
  <2> QED BY <1>1, <2>2
<1>4. CASE \E p \in Page, n \in 1 .. MaxPages : free_pages(p, n)
  BY <1>4 DEF free_pages
<1>5. CASE free_pages_loop
  <2> DEFINE p == Min(freeing)
  <2>1. freeing \subseteq Nat /\ freeing # {}
    BY <1>5, Numbers DEF IInv, Types, Page, free_pages_loop
  <2>2. p \in freeing
    BY <2>1, LeastNat, Zenon
  <2>3. p \in Page /\ held[p] > 0 /\ DropReference(p)
    BY <1>5, <2>2 DEF IInv, Types, Accounted, free_pages_loop
  <2> HIDE DEF p
  <2> QED BY <1>2, <2>3
<1>6. CASE \E p \in Page : page_inc_ref(p)
  <2>1. PICK p \in Page : page_inc_ref(p)
    BY <1>6
  <2>2. held[p] > 0
    BY <2>1, Numbers DEF page_inc_ref
  <2>3. UNCHANGED held \/ Pool!Share(p)
    BY <2>1, <2>2 DEF page_inc_ref, Pool!Share
  <2> QED BY <2>3 DEF Pool!Next
<1>7. CASE \E p \in Page : page_dec_ref(p)
  BY <1>2, <1>7 DEF page_dec_ref
<1>8. CASE UNCHANGED vars
  BY <1>8 DEF vars
<1> QED BY <1>3, <1>4, <1>5, <1>6, <1>7, <1>8 DEF Next

(* Seen from its users, the allocator is a pool of references: alloc_pages *)
(* hands out only pages nobody refers to, and no call changes the          *)
(* references to any other page.                                           *)
THEOREM AllocatorImplementsPool == Spec => ImplementsPool
<1> QED BY PoolInit, PoolStep, PageAllocInvariance, PTL DEF Spec, ImplementsPool, Pool!Spec
=============================================================================
