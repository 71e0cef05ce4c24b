----------------------------- MODULE PageAlloc -----------------------------
(***************************************************************************)
(* The physical page allocator (mm/page_alloc.c): a bump pointer that      *)
(* grows up from __free_ram, metadata that grows down from __free_ram_end  *)
(* (the reference counts, then the nodes of the free list, carved one by   *)
(* one) and the sorted list of free runs.                                  *)
(*                                                                         *)
(* Addresses are relative to __free_ram; a page is named by its index, and *)
(* only the metadata is counted in bytes.  Each operation runs under       *)
(* alloc_lock and no interrupt handler allocates, so operations do not     *)
(* overlap.  The users keep the rules: they drop only references they hold. *)
(***************************************************************************)
EXTENDS Integers, Sequences

CONSTANTS
  managed_page_count, \* pages between __free_ram and __free_ram_end
  PAGE_SIZE,          \* bytes
  ADDRESSES,          \* 2^32: paddr_t arithmetic is modulo this
  MaxPages,           \* bound: the largest n of alloc_pages_try
  MaxShare            \* bound: references to one page, at most PROC_MAX

(* The four helpers below have the library's bodies; the library modules   *)
(* themselves would bring their whole theory into every proof obligation.  *)
Min(S) == CHOOSE x \in S : \A y \in S : x =< y

Last(s) == s[Len(s)]

RemoveAt(s, i) == SubSeq(s, 1, i - 1) \o SubSeq(s, i + 1, Len(s))

InsertAt(s, i, e) == SubSeq(s, 1, i - 1) \o <<e>> \o SubSeq(s, i, Len(s))

RunNodeSize == 12     \* sizeof(struct page_run)

AlignWord(a) == a - (a % 4)

RefTop == AlignWord(managed_page_count * PAGE_SIZE - 2 * managed_page_count)

ASSUME PageAllocAssumption ==
  /\ managed_page_count \in Nat \ {0}
  /\ PAGE_SIZE \in Nat \ {0}
  /\ {MaxPages, ADDRESSES} \subseteq Nat
  /\ MaxPages * PAGE_SIZE < ADDRESSES
  /\ managed_page_count * PAGE_SIZE < ADDRESSES
  /\ MaxShare \in 1 .. 2^16 - 1
  /\ RefTop > 0       \* or init_allocator_if_needed fails

Page == 0 .. managed_page_count - 1

VARIABLES
  free_runs,          \* the free list
  free_meta_nodes,    \* how many released nodes wait for reuse
  next_paddr,         \* the bump pointer, in pages
  meta_top,           \* the lowest byte used by metadata
  page_refcnt,        \* uint16_t per page
  freeing,            \* the pages the running free_pages has still to free
  panicked,           \* a PANIC was hit: the kernel has stopped
  held,               \* history: the references the users hold
  leaked              \* history: pages given up by the page leak fallback

vars == <<free_runs, free_meta_nodes, next_paddr, meta_top, page_refcnt,
          freeing, panicked, held, leaked>>

Pages(p, n) == p .. p + n - 1

Run(base, pages) == [base |-> base, pages |-> pages]

RunEnd(run) == run.base + run.pages

init_allocator_if_needed ==
  /\ free_runs = <<>>
  /\ free_meta_nodes = 0
  /\ next_paddr = 0
  /\ meta_top = RefTop
  /\ page_refcnt = [p \in Page |-> 0]
  /\ freeing = {}
  /\ panicked = FALSE
  /\ held = [p \in Page |-> 0]
  /\ leaked = {}

Ready == ~panicked /\ freeing = {}

----------------------------------------------------------------------------
(* Mutant: the counts of the pages are not set.                            *)
HandOut_uncounted(p, n) ==
  /\ UNCHANGED page_refcnt
  /\ held' = [q \in Page |-> IF q \in Pages(p, n) THEN held[q] + 1 ELSE held[q]]

HandOut(p, n) ==
  /\ page_refcnt' = [q \in Page |-> IF q \in Pages(p, n) THEN 1 ELSE page_refcnt[q]]
  /\ held' = [q \in Page |-> IF q \in Pages(p, n) THEN held[q] + 1 ELSE held[q]]

Fits(n) == {k \in DOMAIN free_runs : free_runs[k].pages >= n}

(* First fit, from the front of the run.                                   *)
TakeFromRun(n) ==
  /\ Fits(n) # {}
  /\ LET k == Min(Fits(n))
         run == free_runs[k]
     IN  /\ HandOut(run.base, n)
         /\ IF run.pages = n
            THEN /\ free_runs' = RemoveAt(free_runs, k)
                 /\ free_meta_nodes' = free_meta_nodes + 1
            ELSE /\ free_runs' = [free_runs EXCEPT ![k] = Run(run.base + n, run.pages - n)]
                 /\ UNCHANGED free_meta_nodes
  /\ UNCHANGED next_paddr

(* Otherwise the bump pointer moves up, unless the pages would meet the    *)
(* metadata or the address wraps.                                          *)
NewNext(n) == (next_paddr * PAGE_SIZE + n * PAGE_SIZE) % ADDRESSES

(* Mutant: a wrapped address is taken for a good one.                      *)
HasRoom_no_wrap_check(n) == NewNext(n) <= meta_top

HasRoom(n) == NewNext(n) <= meta_top /\ NewNext(n) >= next_paddr * PAGE_SIZE

TakeFromTop(n) ==
  /\ Fits(n) = {} /\ HasRoom(n)
  /\ HandOut(next_paddr, n)
  /\ next_paddr' = NewNext(n) \div PAGE_SIZE
  /\ UNCHANGED <<free_runs, free_meta_nodes>>

ReturnNull(n) ==
  /\ Fits(n) = {} /\ ~HasRoom(n)
  /\ UNCHANGED <<free_runs, free_meta_nodes, next_paddr, page_refcnt, held>>

alloc_pages_try(n) ==
  /\ Ready
  /\ TakeFromRun(n) \/ TakeFromTop(n) \/ ReturnNull(n)
  /\ UNCHANGED <<meta_top, freeing, panicked, leaked>>

----------------------------------------------------------------------------
CarvedTop == AlignWord(meta_top - RunNodeSize)

(* Mutant: a node may be carved out of the page below the bump pointer.    *)
CanCarve_unchecked == CarvedTop > 0

CanCarve == CarvedTop > next_paddr * PAGE_SIZE

HasNode == free_meta_nodes > 0 \/ CanCarve

(* A node is taken, and the nodes of merged runs are released.             *)
alloc_run_node(released) ==
  /\ HasNode
  /\ IF free_meta_nodes > 0
     THEN free_meta_nodes' = free_meta_nodes - 1 + released /\ UNCHANGED meta_top
     ELSE free_meta_nodes' = released /\ meta_top' = CarvedTop

(* The runs up to the k-th, merged.                                        *)
coalesce_free_runs(runs) ==
  LET merged[k \in 0 .. Len(runs)] ==
        IF k = 0 THEN <<>>
        ELSE LET done == merged[k - 1]
             IN  IF done # <<>> /\ RunEnd(Last(done)) = runs[k].base
                 THEN [done EXCEPT ![Len(done)].pages = @ + runs[k].pages]
                 ELSE Append(done, runs[k])
  IN  merged[Len(runs)]

(* The length of the part of the list that is walked to find p's place.    *)
Before(p) == Min({k \in 0 .. Len(free_runs) :
                    k = Len(free_runs) \/ free_runs[k + 1].base >= p})

HasNext(p) == Before(p) < Len(free_runs)
Cur(p)     == free_runs[Before(p)]
CurNext(p) == free_runs[Before(p) + 1]

Overlaps(p) ==
  \/ Before(p) > 0 /\ RunEnd(Cur(p)) > p
  \/ HasNext(p) /\ p + 1 > CurNext(p).base

EndsAt(p)   == Before(p) > 0 /\ RunEnd(Cur(p)) = p
StartsAt(p) == HasNext(p) /\ p + 1 = CurNext(p).base

(* Mutant: the run before is extended, but not joined to the run after.    *)
AppendToRun_no_merge(p) ==
  /\ EndsAt(p)
  /\ free_runs' = [free_runs EXCEPT ![Before(p)].pages = @ + 1]
  /\ UNCHANGED <<free_meta_nodes, meta_top>>

AppendToRun(p) ==
  /\ EndsAt(p)
  /\ IF StartsAt(p)
     THEN /\ free_runs' = [RemoveAt(free_runs, Before(p) + 1) EXCEPT
                             ![Before(p)].pages = @ + 1 + CurNext(p).pages]
          /\ free_meta_nodes' = free_meta_nodes + 1
     ELSE /\ free_runs' = [free_runs EXCEPT ![Before(p)].pages = @ + 1]
          /\ UNCHANGED free_meta_nodes
  /\ UNCHANGED meta_top

PrependToRun(p) ==
  /\ ~EndsAt(p) /\ StartsAt(p)
  /\ free_runs' = [free_runs EXCEPT ![Before(p) + 1] = Run(p, @.pages + 1)]
  /\ UNCHANGED <<free_meta_nodes, meta_top>>

(* The list is coalesced after an insertion behind its first run.          *)
InsertRun(p) ==
  LET inserted == InsertAt(free_runs, Before(p) + 1, Run(p, 1))
      result == IF Before(p) = 0 THEN inserted ELSE coalesce_free_runs(inserted)
  IN  /\ ~EndsAt(p) /\ ~StartsAt(p)
      /\ alloc_run_node(Len(inserted) - Len(result))
      /\ free_runs' = result

free_single_page_raw(p) ==
  ~Overlaps(p) /\ (AppendToRun(p) \/ PrependToRun(p) \/ InsertRun(p))

(* Mutant: the count of a page without a node stays 0.                     *)
LeakFallback_count_zero(p) ==
  /\ ~Overlaps(p) /\ ~EndsAt(p) /\ ~StartsAt(p)
  /\ ~HasNode
  /\ leaked' = leaked \cup {p}
  /\ page_refcnt' = [page_refcnt EXCEPT ![p] = 0]
  /\ UNCHANGED <<free_runs, free_meta_nodes, meta_top, panicked>>

(* The page leak fallback: without a node the count goes back to 1 and     *)
(* nobody will ever free the page.                                         *)
LeakFallback(p) ==
  /\ ~Overlaps(p) /\ ~EndsAt(p) /\ ~StartsAt(p)
  /\ ~HasNode
  /\ leaked' = leaked \cup {p}
  /\ UNCHANGED <<free_runs, free_meta_nodes, meta_top, page_refcnt, panicked>>

(* One reference to p is dropped, by free_pages or by page_dec_ref.        *)
DropReference(p) ==
  /\ held' = [held EXCEPT ![p] = @ - 1]
  /\ \/ /\ page_refcnt[p] > 1
        /\ page_refcnt' = [page_refcnt EXCEPT ![p] = @ - 1]
        /\ UNCHANGED <<free_runs, free_meta_nodes, meta_top, panicked, leaked>>
     \/ /\ page_refcnt[p] = 1
        /\ \/ /\ free_single_page_raw(p)
              /\ page_refcnt' = [page_refcnt EXCEPT ![p] = 0]
              /\ UNCHANGED <<panicked, leaked>>
           \/ LeakFallback(p)
     \/ /\ page_refcnt[p] = 0 \/ (page_refcnt[p] = 1 /\ Overlaps(p))
        /\ panicked' = TRUE
        /\ UNCHANGED <<free_runs, free_meta_nodes, meta_top, page_refcnt, leaked>>

(* free_pages frees its pages one after the other, under the lock.         *)
free_pages(p, n) ==
  /\ Ready
  /\ Pages(p, n) \subseteq Page
  /\ \A q \in Pages(p, n) : held[q] > 0
  /\ freeing' = Pages(p, n)
  /\ UNCHANGED <<free_runs, free_meta_nodes, next_paddr, meta_top, page_refcnt,
                 panicked, held, leaked>>

free_pages_loop ==
  /\ ~panicked /\ freeing # {}
  /\ LET p == Min(freeing)
     IN  DropReference(p) /\ freeing' = freeing \ {p}
  /\ UNCHANGED next_paddr

page_inc_ref(p) ==
  /\ Ready
  /\ held[p] \in 1 .. MaxShare - 1
  /\ IF page_refcnt[p] = 0
     THEN panicked' = TRUE /\ UNCHANGED <<page_refcnt, held>>
     ELSE /\ page_refcnt' = [page_refcnt EXCEPT ![p] = (@ + 1) % 2^16]
          /\ held' = [held EXCEPT ![p] = @ + 1]
          /\ UNCHANGED panicked
  /\ UNCHANGED <<free_runs, free_meta_nodes, next_paddr, meta_top, freeing, leaked>>

page_dec_ref(p) ==
  /\ Ready
  /\ held[p] > 0
  /\ DropReference(p)
  /\ UNCHANGED <<next_paddr, freeing>>

Next ==
  \/ \E n \in 1 .. MaxPages : alloc_pages_try(n)
  \/ \E p \in Page, n \in 1 .. MaxPages : free_pages(p, n)
  \/ free_pages_loop
  \/ \E p \in Page : page_inc_ref(p)
  \/ \E p \in Page : page_dec_ref(p)

Spec == init_allocator_if_needed /\ [][Next]_vars

----------------------------------------------------------------------------
TypeOK ==
  /\ free_runs \in Seq([base : Page, pages : 1 .. managed_page_count])
  /\ free_meta_nodes \in Nat
  /\ next_paddr \in 0 .. managed_page_count
  /\ meta_top \in 0 .. RefTop
  /\ page_refcnt \in [Page -> 0 .. 2^16 - 1]
  /\ freeing \subseteq Page
  /\ panicked \in BOOLEAN
  /\ held \in [Page -> 0 .. MaxShare]
  /\ leaked \subseteq Page

(* The free list stays sorted, and runs that touch are always merged, so   *)
(* that first fit sees the largest runs there are.                         *)
RunsAreMaximal ==
  \A k \in 1 .. Len(free_runs) - 1 : RunEnd(free_runs[k]) < free_runs[k + 1].base

(* Every page is in one place: in a free run exactly when it was handed    *)
(* out before and its count is 0, and the count is what the users hold,    *)
(* but for the pages that leaked.                                          *)
FreePages == UNION {Pages(free_runs[k].base, free_runs[k].pages) : k \in DOMAIN free_runs}

PagesAreAccounted ==
  /\ FreePages = {p \in 0 .. next_paddr - 1 : page_refcnt[p] = 0}
  /\ \A p \in Page : page_refcnt[p] = IF p \in leaked THEN 1 ELSE held[p]

(* Metadata and handed out pages never overlap, and no node is lost: those *)
(* carved so far are in the free list or wait for reuse.                   *)
MetadataIsSeparate ==
  /\ next_paddr * PAGE_SIZE <= meta_top
  /\ RefTop - meta_top = RunNodeSize * (Len(free_runs) + free_meta_nodes)

(* Users that only drop references they hold never meet a PANIC.           *)
NoPanic == ~panicked

(* The allocator implements the pool of references.                        *)
Pool == INSTANCE PagePool WITH refs <- held

ImplementsPool == Pool!Spec
=============================================================================
