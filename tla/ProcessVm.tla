----------------------------- MODULE ProcessVm -----------------------------
(***************************************************************************)
(* The memory of user processes (mm/process_vm.c on mm/vm.c): VMAs, page   *)
(* tables, demand allocation, copy on write, and the calls of fork, exec,  *)
(* exit and wait that build, copy and release it.                          *)
(*                                                                         *)
(* Memory is counted in pages.  The pages of a process are its mmap area   *)
(* and one stack page; its text and read-only data are the same in all     *)
(* processes, and .user.data and .user.bss are empty in every build.       *)
(* Page tables are only counted: nothing ever frees one but a failed       *)
(* vm_build_user_satp its root.                                            *)
(***************************************************************************)
EXTENDS Integers, FiniteSets

CONSTANTS
  PROC_MAX,        \* process slots
  MMAP_END,        \* pages of the mmap area
  TABLE_SPAN,      \* pages of the mmap area that one page table maps
  IMAGE_TABLES,    \* root and second-level tables of a new process image
  PROC_VMA_MAX,    \* VMAs of a process
  RAM,             \* pages the allocator has
  Value,           \* contents of a page that are told apart; 0 is zeros
  Protections,     \* protections mmap is called with
  CachesTranslations \* does the hart have a TLB?

Proc == 1 .. PROC_MAX
Idle == 0          \* the kernel's own processes

StackVa == MMAP_END + 1
MmapVa  == 0 .. MMAP_END - 1
Va      == MmapVa \cup {StackVa}

(* Addresses wrap around after these pages; the last is never mapped.      *)
AddressPages == StackVa + 2

L0(vas) == {va \div TABLE_SPAN : va \in vas}

Frame == 1 .. RAM

Prot  == {"R", "W"}
RW    == {"R", "W"}

NoArgv == -1       \* exec's NULL argument vector

NoPte == [pa |-> -1, prot |-> {}]
Pte   == [pa : Frame, prot : SUBSET Prot] \cup {NoPte}

Unused == [start |-> 0, end |-> 0, prot |-> {}]
VmaIdx == 1 .. PROC_VMA_MAX

ASSUME ProcessVmAssumption ==
  /\ PROC_MAX \in Nat \ {0}
  /\ MMAP_END \in Nat
  /\ TABLE_SPAN \in Nat \ {0}
  /\ IMAGE_TABLES \in Nat \ {0}
  /\ PROC_VMA_MAX \in Nat \ {0, 1}
  /\ RAM \in Nat
  /\ 0 \in Value
  /\ Protections \subseteq SUBSET Prot \ {{}}
  /\ CachesTranslations \in BOOLEAN

VARIABLES
  state,           \* "unused", "live" or "zombie"
  cur,             \* current_proc
  vmas,            \* the VMAs of each process
  pt,              \* the leaf PTEs of each process's page table
  l0,              \* the second-level tables of its mmap area
  refcnt,          \* the allocator's count of each frame
  content,         \* what is in each frame
  tables,          \* frames used by page tables
  tlb              \* the translations the hart has cached

vars == <<state, cur, vmas, pt, l0, refcnt, content, tables, tlb>>

EmptyPt   == [va \in Va |-> NoPte]
EmptyVmas == [i \in VmaIdx |-> Unused]

Init ==
  /\ state = [p \in Proc |-> "unused"]
  /\ cur = Idle
  /\ vmas = [p \in Proc |-> EmptyVmas]
  /\ pt = [p \in Proc |-> EmptyPt]
  /\ l0 = [p \in Proc |-> {}]
  /\ refcnt = [f \in Frame |-> 0]
  /\ content = [f \in Frame |-> 0]
  /\ tables = 0
  /\ tlb = EmptyPt

----------------------------------------------------------------------------
(* The allocator, from its callers' side.  First fit over a sorted list    *)
(* hands out the lowest free frame; the empty set is NULL.                 *)
Room == RAM - tables - Cardinality({f \in Frame : refcnt[f] > 0})

alloc_pages_try ==
  LET free == {f \in Frame : refcnt[f] = 0}
  IN  IF Room > 0 THEN {CHOOSE f \in free : \A g \in free : f <= g} ELSE {}

(* One reference less to each frame of fs.  free_pages and page_dec_ref    *)
(* panic for a frame that is free: its count would be negative here.       *)
Freed(counts, fs) == [f \in Frame |-> IF f \in fs THEN counts[f] - 1 ELSE counts[f]]

----------------------------------------------------------------------------
(* VMAs.                                                                   *)
Used(V) == {i \in VmaIdx : V[i] # Unused}

Covers(v, va) == v.start <= va /\ va < v.end

proc_find_vma_index(V, va) == {i \in Used(V) : Covers(V[i], va)}

proc_range_overlaps_any_vma(V, s, e) == \E i \in Used(V) : s < V[i].end /\ e > V[i].start

proc_find_free_vma_slot(V) ==
  {i \in VmaIdx \ Used(V) : \A j \in VmaIdx \ Used(V) : i <= j}

(* The empty set is -1: the range overlaps a VMA or no VMA is left.        *)
proc_add_vma(V, s, e, prot) ==
  {[V EXCEPT ![i] = [start |-> s, end |-> e, prot |-> prot]] :
     i \in {j \in proc_find_free_vma_slot(V) : s < e /\ ~proc_range_overlaps_any_vma(V, s, e)}}

(* Mutant: a range that wraps around the address space is not refused.     *)
proc_vma_range_ok_wraps(V, addr, len, need) ==
  LET end == (addr + len) % AddressPages
      ok[from \in 0 .. AddressPages] ==
        from < end => \E i \in proc_find_vma_index(V, from) :
                        need \in V[i].prot /\ (end <= V[i].end \/ ok[V[i].end])
  IN  len # 0 /\ ok[addr]

(* The check of a system call's pointer: from VMA to VMA up to the end.    *)
proc_vma_range_ok(V, addr, len, need) ==
  LET end == (addr + len) % AddressPages
      ok[from \in 0 .. AddressPages] ==
        from < end => \E i \in proc_find_vma_index(V, from) :
                        need \in V[i].prot /\ (end <= V[i].end \/ ok[V[i].end])
  IN  len # 0 /\ end >= addr /\ ok[addr]

(* The kernel's own processes may read and write everything.               *)
proc_user_readable_ok(addr, len) ==
  cur = Idle \/ proc_vma_range_ok(vmas[cur], addr, len, "R")

proc_user_writable_ok(addr, len) ==
  cur = Idle \/ proc_vma_range_ok(vmas[cur], addr, len, "W")

(* The lowest range of len pages that meets no VMA; {} is -1.              *)
proc_find_free_mmap_range(V, len) ==
  LET Free(s) == s + len <= MMAP_END /\ ~proc_range_overlaps_any_vma(V, s, s + len)
  IN  {s \in MmapVa : Free(s) /\ \A r \in MmapVa : Free(r) => s <= r}

(* The VMAs of a new program that it may write: its stack.                 *)
proc_vm_init == [EmptyVmas EXCEPT ![1] = [start |-> StackVa, end |-> StackVa + 1, prot |-> RW]]

(* vm_query_user_page: a PTE without R, W and X counts as not mapped.      *)
Mapped(table) == {va \in Va : table[va].prot # {}}

FramesAt(table, vas) == {table[va].pa : va \in vas}

Unmap(table, vas) == [va \in Va |-> IF va \in vas THEN NoPte ELSE table[va]]

(* vm_unmap_user_page ends with sfence.vma, vm_map_user_page does not.     *)
Flush(unmapped) == tlb' = IF unmapped = {} THEN tlb ELSE EmptyPt

----------------------------------------------------------------------------
(* Creation, release and the scheduler.                                    *)

alloc_process_slot ==
  {p \in Proc : state[p] = "unused" /\ \A q \in Proc : q < p => state[q] # "unused"}

(* vm_build_user_satp, after the stack page was allocated.                 *)
CanBuild == Room > IMAGE_TABLES

(* When it fails it frees the root and keeps the other tables.             *)
BuildFails ==
  /\ ~CanBuild
  /\ \E stack \in alloc_pages_try : content' = [content EXCEPT ![stack] = 0]
  /\ tables' = tables + (IF Room > 2 THEN Room - 2 ELSE 0)
  /\ UNCHANGED <<state, cur, vmas, pt, l0, refcnt, tlb>>

NewPt(stack) == [EmptyPt EXCEPT ![StackVa] = [pa |-> stack, prot |-> RW]]

create_user_process ==
  /\ cur = Idle
  /\ \/ BuildFails /\ alloc_process_slot # {}
     \/ /\ CanBuild
        /\ \E p \in alloc_process_slot, f \in alloc_pages_try :
             /\ state' = [state EXCEPT ![p] = "live"]
             /\ vmas' = [vmas EXCEPT ![p] = proc_vm_init]
             /\ pt' = [pt EXCEPT ![p] = NewPt(f)]
             /\ l0' = [l0 EXCEPT ![p] = {}]
             /\ refcnt' = [refcnt EXCEPT ![f] = 1]
             /\ content' = [content EXCEPT ![f] = 0]
             /\ tables' = tables + IMAGE_TABLES
        /\ UNCHANGED <<cur, tlb>>

(* yield: vm_activate flushes the TLB.                                     *)
yield(p) ==
  /\ p # cur
  /\ p \in {Idle} \cup {q \in Proc : state[q] = "live"}
  /\ cur' = p
  /\ tlb' = EmptyPt
  /\ UNCHANGED <<state, vmas, pt, l0, refcnt, content, tables>>

(* proc_exit, also for a fault that cannot be handled: the memory stays    *)
(* until the process is reaped.                                            *)
proc_exit ==
  /\ state' = [state EXCEPT ![cur] = "zombie"]
  /\ cur' = Idle
  /\ tlb' = EmptyPt
  /\ UNCHANGED <<vmas, pt, l0, refcnt, content, tables>>

sys_exit == cur # Idle /\ proc_exit

(* What proc_vm_release unmaps: the pages of the VMAs of the mmap area and *)
(* the stack, not the page tables.                                         *)
ReleasedVas(p) ==
  {va \in Mapped(pt[p]) : \/ va \in MmapVa /\ proc_find_vma_index(vmas[p], va) # {}
                          \/ va = StackVa}

(* wait, waitpid and the kernel's collection of orphans.                   *)
proc_vm_release(p) ==
  LET fs == FramesAt(pt[p], ReleasedVas(p))
  IN  /\ state[p] = "zombie"
      /\ state' = [state EXCEPT ![p] = "unused"]
      /\ vmas' = [vmas EXCEPT ![p] = EmptyVmas]
      /\ pt' = [pt EXCEPT ![p] = EmptyPt]
      /\ refcnt' = Freed(refcnt, fs)
      /\ Flush(ReleasedVas(p))
      /\ UNCHANGED <<cur, l0, content, tables>>

----------------------------------------------------------------------------
(* Fork.                                                                   *)

(* The pages proc_vm_clone shares: those mapped in a writable VMA.         *)
SharedVas ==
  {va \in Mapped(pt[cur]) : \E i \in proc_find_vma_index(vmas[cur], va) :
                              "W" \in vmas[cur][i].prot}

(* Mutant: the translations stay writable.                                 *)
CowPte_writable(va) == pt[cur][va]

CowPte(va) ==
  LET i == CHOOSE j \in proc_find_vma_index(vmas[cur], va) : TRUE
  IN  [pa |-> pt[cur][va].pa, prot |-> vmas[cur][i].prot \ {"W"}]

ParentPt(vas) == [va \in Va |-> IF va \in vas THEN CowPte(va) ELSE pt[cur][va]]

ChildPt == [va \in Va |-> IF va \in SharedVas THEN CowPte(va) ELSE NoPte]

(* Pages are cloned VMA by VMA, the stack first.  The stack page of the    *)
(* child's image is free again when the mmap area needs its tables.        *)
ClonedUpTo(va) ==
  LET Idx(w) == CHOOSE i \in proc_find_vma_index(vmas[cur], w) : TRUE
  IN  {w \in SharedVas \cap MmapVa : Idx(w) < Idx(va) \/ (Idx(w) = Idx(va) /\ w <= va)}

TableRoom == Room - IMAGE_TABLES

CloneSucceeds(child) ==
  LET shared == FramesAt(pt[cur], SharedVas)
      needed == L0(SharedVas \cap MmapVa)
  IN  /\ Cardinality(needed) <= TableRoom
      /\ state' = [state EXCEPT ![child] = "live"]
      /\ vmas' = [vmas EXCEPT ![child] = vmas[cur]]
      /\ pt' = [pt EXCEPT ![cur] = ParentPt(SharedVas), ![child] = ChildPt]
      /\ l0' = [l0 EXCEPT ![child] = needed]
      /\ refcnt' = [f \in Frame |-> IF f \in shared THEN refcnt[f] + 1 ELSE refcnt[f]]
      /\ tables' = tables + IMAGE_TABLES + Cardinality(needed)
      /\ UNCHANGED <<cur, tlb>>

(* Mutant: the pages cloned before the failure keep the child's reference. *)
CloneFails_keep_ref ==
  LET cloned == {va \in SharedVas \cap MmapVa :
                   Cardinality(L0(ClonedUpTo(va))) <= TableRoom} \cup {StackVa}
  IN  /\ Cardinality(L0(SharedVas \cap MmapVa)) > TableRoom
      /\ pt' = [pt EXCEPT ![cur] = ParentPt(cloned)]
      /\ refcnt' = [f \in Frame |-> refcnt[f] + (IF f \in FramesAt(pt[cur], cloned) THEN 1 ELSE 0)]
      /\ tables' = tables + IMAGE_TABLES + TableRoom
      /\ tlb' = EmptyPt
      /\ UNCHANGED <<state, cur, vmas, l0>>

(* No page is left for a table of the child: its image is released again,  *)
(* which flushes the TLB.  The pages cloned so far and the one that failed *)
(* stay read-only in the parent, and the tables are lost.                  *)
CloneFails ==
  LET tried == {va \in SharedVas \cap MmapVa :
                  Cardinality(L0(ClonedUpTo(va) \ {va})) <= TableRoom}
  IN  /\ Cardinality(L0(SharedVas \cap MmapVa)) > TableRoom
      /\ pt' = [pt EXCEPT ![cur] = ParentPt(tried \cup {StackVa})]
      /\ tables' = tables + IMAGE_TABLES + TableRoom
      /\ tlb' = EmptyPt
      /\ UNCHANGED <<state, cur, vmas, l0, refcnt>>

(* The stack pointer of the parent is outside its stack.                   *)
BadStackPointer ==
  /\ tables' = tables + IMAGE_TABLES
  /\ tlb' = EmptyPt
  /\ UNCHANGED <<state, cur, vmas, pt, l0, refcnt>>

proc_fork ==
  /\ cur # Idle
  /\ \/ BuildFails /\ alloc_process_slot # {}
     \/ /\ CanBuild
        /\ \E child \in alloc_process_slot, stack \in alloc_pages_try :
             /\ content' = [content EXCEPT ![stack] = 0]
             /\ CloneSucceeds(child) \/ CloneFails \/ BadStackPointer

----------------------------------------------------------------------------
(* mmap, munmap and exec.                                                  *)

(* The VMAs after munmap of s .. e - 1; {} is -1, for a range inside a VMA *)
(* when no VMA is left for its upper part.                                 *)
CutVma(v, s, e) ==
  IF v = Unused \/ v.end <= s \/ v.start >= e THEN v
  ELSE IF s <= v.start /\ v.end <= e THEN Unused
  ELSE IF s <= v.start THEN [v EXCEPT !.start = e]
  ELSE [v EXCEPT !.end = s]

Split(V, s, e) == {i \in Used(V) : V[i].start < s /\ e < V[i].end}

(* Mutant: the part above the range is lost.                               *)
CutVmas_lost_tail(V, s, e) == {[i \in VmaIdx |-> CutVma(V[i], s, e)]}

CutVmas(V, s, e) ==
  LET cut == [i \in VmaIdx |-> CutVma(V[i], s, e)]
  IN  IF Split(V, s, e) = {} THEN {cut}
      ELSE {[cut EXCEPT ![j] = [V[i] EXCEPT !.start = e]] :
              i \in Split(V, s, e), j \in proc_find_free_vma_slot(V)}

(* Mutant: munmap does not free the pages.                                 *)
UnmapRange_no_free(V, s, e) ==
  LET vas == IF proc_range_overlaps_any_vma(V, s, e)
             THEN Mapped(pt[cur]) \cap s .. e - 1 ELSE {}
  IN  /\ pt' = [pt EXCEPT ![cur] = Unmap(@, vas)]
      /\ Flush(vas)
      /\ UNCHANGED <<refcnt>>

(* The pages of the range are unmapped and freed if some VMA was cut.      *)
UnmapRange(V, s, e) ==
  LET vas == IF proc_range_overlaps_any_vma(V, s, e)
             THEN Mapped(pt[cur]) \cap s .. e - 1 ELSE {}
  IN  /\ pt' = [pt EXCEPT ![cur] = Unmap(@, vas)]
      /\ refcnt' = Freed(refcnt, FramesAt(pt[cur], vas))
      /\ Flush(vas)

proc_munmap(s, e) ==
  /\ cur # Idle
  /\ s < e /\ e <= MMAP_END
  /\ \E V \in CutVmas(vmas[cur], s, e) : vmas' = [vmas EXCEPT ![cur] = V]
  /\ UnmapRange(vmas[cur], s, e)
  /\ UNCHANGED <<state, cur, l0, content, tables>>

(* MAP_FIXED unmaps what is in the way first, also when no VMA is left for *)
(* the new range.                                                          *)
proc_mmap_fixed(s, e, prot) ==
  /\ cur # Idle
  /\ s < e /\ e <= MMAP_END
  /\ \E V \in CutVmas(vmas[cur], s, e) :
       LET added == proc_add_vma(V, s, e, prot)
       IN  \E W \in IF added = {} THEN {V} ELSE added :
             vmas' = [vmas EXCEPT ![cur] = W]
  /\ UnmapRange(vmas[cur], s, e)
  /\ UNCHANGED <<state, cur, l0, content, tables>>

(* A hint counts when its range is free.                                   *)
proc_mmap(hint, len, prot) ==
  /\ cur # Idle
  /\ LET V == vmas[cur]
         hinted == {h \in {hint} : /\ h + len <= MMAP_END
                                   /\ ~proc_range_overlaps_any_vma(V, h, h + len)}
         addrs == IF hinted # {} THEN hinted ELSE proc_find_free_mmap_range(V, len)
     IN  \E s \in addrs : \E W \in proc_add_vma(V, s, s + len, prot) :
           vmas' = [vmas EXCEPT ![cur] = W]
  /\ UNCHANGED <<state, cur, pt, l0, refcnt, content, tables, tlb>>

(* Mutant: exec does not drop the mmap area.                               *)
proc_exec_no_reset(argv) ==
  /\ cur # Idle
  /\ vmas' = [vmas EXCEPT ![cur] = proc_vm_init]
  /\ UNCHANGED <<state, cur, pt, l0, refcnt, content, tables, tlb>>

(* exec with its argument vector in the page argv, which was read to check *)
(* it, or with none: proc_vm_reset drops the mmap area, proc_vm_init lists *)
(* the VMAs anew, and the new program gets the vector's address as it was. *)
proc_exec(argv) ==
  LET vas == {va \in Mapped(pt[cur]) \cap MmapVa : proc_find_vma_index(vmas[cur], va) # {}}
      fs == FramesAt(pt[cur], vas)
  IN  /\ cur # Idle
      /\ argv \in {NoArgv} \cup {va \in Mapped(pt[cur]) : "R" \in pt[cur][va].prot}
      /\ pt' = [pt EXCEPT ![cur] = Unmap(@, vas)]
      /\ refcnt' = Freed(refcnt, fs)
      /\ Flush(vas)
      /\ vmas' = [vmas EXCEPT ![cur] = proc_vm_init]
      /\ UNCHANGED <<state, cur, l0, content, tables>>

----------------------------------------------------------------------------
(* Loads, stores and page faults, of the process or of the kernel on its   *)
(* behalf.                                                                 *)

(* The hart's view of a page; an entry that is writable but not readable   *)
(* is reserved and always faults.                                          *)
Translation(va) == IF tlb[va] # NoPte THEN tlb[va] ELSE pt[cur][va]

Allows(pte, access) == access \in pte.prot /\ "R" \in pte.prot

Cache(va) == tlb' = IF CachesTranslations THEN [tlb EXCEPT ![va] = Translation(va)] ELSE tlb

load(va) ==
  /\ cur # Idle
  /\ Allows(Translation(va), "R")
  /\ Cache(va)
  /\ UNCHANGED <<state, cur, vmas, pt, l0, refcnt, content, tables>>

store(va, v) ==
  /\ cur # Idle
  /\ Allows(Translation(va), "W")
  /\ content' = [content EXCEPT ![Translation(va).pa] = v]
  /\ Cache(va)
  /\ UNCHANGED <<state, cur, vmas, pt, l0, refcnt, tables>>

(* A page is mapped for the first time; the mmap area may need a table.    *)
MissingL0(va) == ~(L0({va} \cap MmapVa) \subseteq l0[cur])

DemandZero(va, v) ==
  /\ va \notin Mapped(pt[cur])
  /\ MissingL0(va) => Room > 1
  /\ \E f \in alloc_pages_try :
       /\ refcnt' = [refcnt EXCEPT ![f] = 1]
       /\ content' = [content EXCEPT ![f] = 0]
       /\ pt' = [pt EXCEPT ![cur][va] = [pa |-> f, prot |-> v.prot]]
  /\ l0' = [l0 EXCEPT ![cur] = @ \cup L0({va} \cap MmapVa)]
  /\ tables' = tables + (IF MissingL0(va) THEN 1 ELSE 0)
  /\ UNCHANGED <<state, cur, vmas, tlb>>

(* The page is copied even if nobody shares it any more.                   *)
proc_try_cow_fault(va, v) ==
  /\ va \in Mapped(pt[cur]) /\ "W" \notin pt[cur][va].prot
  /\ "W" \in v.prot
  /\ \E f \in alloc_pages_try :
       /\ pt' = [pt EXCEPT ![cur][va] = [pa |-> f, prot |-> v.prot]]
       /\ content' = [content EXCEPT ![f] = content[pt[cur][va].pa]]
       /\ refcnt' = Freed([refcnt EXCEPT ![f] = 1], {pt[cur][va].pa})
  /\ UNCHANGED <<state, cur, vmas, l0, tables, tlb>>

(* The access faults.  It is retried when the handler returns 0; the       *)
(* process is killed when it returns -1.                                   *)
HandledFault(va, access, v) ==
  \/ DemandZero(va, v)
  \/ access = "W" /\ proc_try_cow_fault(va, v)
  \/ access \in pt[cur][va].prot /\ UNCHANGED vars

MayAccess(va, access) ==
  {i \in proc_find_vma_index(vmas[cur], va) : access \in vmas[cur][i].prot}

CanHandle(va, access) ==
  /\ MayAccess(va, access) # {}
  /\ \/ va \notin Mapped(pt[cur]) /\ (Room > IF MissingL0(va) THEN 1 ELSE 0)
     \/ va \in Mapped(pt[cur]) /\ access = "W" /\ access \notin pt[cur][va].prot /\ Room > 0
     \/ va \in Mapped(pt[cur]) /\ access \in pt[cur][va].prot

proc_handle_user_page_fault(va, access) ==
  /\ cur # Idle
  /\ ~Allows(Translation(va), access)
  /\ \/ \E i \in MayAccess(va, access) : HandledFault(va, access, vmas[cur][i])
     \/ ~CanHandle(va, access) /\ proc_exit

----------------------------------------------------------------------------
Next ==
  \/ create_user_process
  \/ \E p \in Proc \cup {Idle} : yield(p)
  \/ sys_exit
  \/ \E p \in Proc : proc_vm_release(p)
  \/ proc_fork
  \/ \E s \in MmapVa, e \in 1 .. MMAP_END : proc_munmap(s, e)
  \/ \E s \in MmapVa, e \in 1 .. MMAP_END, prot \in Protections : proc_mmap_fixed(s, e, prot)
  \/ \E h \in MmapVa, len \in 1 .. MMAP_END, prot \in Protections : proc_mmap(h, len, prot)
  \/ \E argv \in Va \cup {NoArgv} : proc_exec(argv)
  \/ \E va \in Va : load(va)
  \/ \E va \in Va, v \in Value : store(va, v)
  \/ \E va \in Va, access \in Prot : proc_handle_user_page_fault(va, access)

Spec == Init /\ [][Next]_vars

----------------------------------------------------------------------------
TypeOK ==
  /\ state \in [Proc -> {"unused", "live", "zombie"}]
  /\ cur \in Proc \cup {Idle}
  /\ vmas \in [Proc -> [VmaIdx -> [start : Nat, end : Nat, prot : SUBSET Prot]]]
  /\ pt \in [Proc -> [Va -> Pte]]
  /\ l0 \in [Proc -> SUBSET L0(MmapVa)]
  /\ refcnt \in [Frame -> Nat]
  /\ content \in [Frame -> Value]
  /\ tables \in Nat /\ Room >= 0
  /\ tlb \in [Va -> Pte]

(* Each frame is counted once for every page table entry that maps it: no  *)
(* path through fork, its failures, faults, munmap, exec, exit and wait    *)
(* loses a frame or frees one that is still mapped.                        *)
Mappers(f) == {m \in Proc \X Va : m[2] \in Mapped(pt[m[1]]) /\ pt[m[1]][m[2]].pa = f}

CountsMatchMappings == \A f \in Frame : refcnt[f] = Cardinality(Mappers(f))

(* A frame that two page tables map is writable in neither.                *)
SharedIsReadOnly ==
  \A p \in Proc, va \in Va : "W" \in pt[p][va].prot => Mappers(pt[p][va].pa) = {<<p, va>>}

(* VMAs never overlap, and a page is mapped only inside a VMA and never    *)
(* with more rights than the VMA gives: munmap, which cuts and splits them, *)
(* leaves no page behind.                                                  *)
MappedIsCovered ==
  \A p \in Proc :
    /\ \A i, j \in Used(vmas[p]) :
         i # j => vmas[p][i].end <= vmas[p][j].start \/ vmas[p][j].end <= vmas[p][i].start
    /\ \A va \in Mapped(pt[p]) :
         \E i \in proc_find_vma_index(vmas[p], va) : pt[p][va].prot \subseteq vmas[p][i].prot

(* munmap takes away what is in its range and nothing else: the rest of a  *)
(* VMA that is cut or split keeps its protection.                          *)
Protection(V, va) == {V[i].prot : i \in proc_find_vma_index(V, va)}

MunmapIsExact ==
  [][\A s \in MmapVa, e \in 1 .. MMAP_END :
       proc_munmap(s, e) =>
         \A va \in Va : Protection(vmas'[cur], va) =
           IF va \in s .. e - 1 THEN {} ELSE Protection(vmas[cur], va)]_vars

(* The check of the pointers of a system call is exact: it accepts a range *)
(* if and only if each of its pages is in a VMA with the right, whatever   *)
(* cuts and splits left of the VMAs, and never one that wraps around.      *)
PointerCheckIsExact ==
  \A addr \in 0 .. AddressPages - 1, len \in 1 .. AddressPages - 1 :
    LET Has(right) == /\ addr + len < AddressPages
                      /\ \A va \in addr .. addr + len - 1 :
                           \E i \in Used(vmas[cur]) : Covers(vmas[cur][i], va) /\ right \in vmas[cur][i].prot
    IN  cur # Idle => /\ proc_user_readable_ok(addr, len) <=> Has("R")
                      /\ proc_user_writable_ok(addr, len) <=> Has("W")

(* What a process finds in a page: what is in its frame, zeros in a page   *)
(* that was not touched yet.                                               *)
View(p) ==
  [va \in Va |-> IF va \in Mapped(pt[p]) THEN content[pt[p][va].pa]
                 ELSE IF \E i \in VmaIdx : Covers(vmas[p][i], va) THEN 0 ELSE -1]

Private == INSTANCE PrivateMemory WITH mem <- [p \in Proc |-> View(p)]

(* Sharing, demand allocation and copying are invisible: fork, page faults *)
(* and stores give every process a private memory.                         *)
ImplementsPrivateMemory == Private!Spec

----------------------------------------------------------------------------
(* What the repository says and the code does not do.                      *)

(* Fork shares the pages read-only, so that no process can write to a page *)
(* another one maps (docs/old/resolutions.md:18): this also holds for the  *)
(* translations the hart uses.                                             *)
TlbIsPrivate ==
  \A va \in Va : "W" \in tlb[va].prot => Mappers(tlb[va].pa) = {<<cur, va>>}
=============================================================================
