------------------------------ MODULE Process ------------------------------
(***************************************************************************)
(* Processes: creation, fork, exit, wait, wait queues, yield and the       *)
(* kernel's scheduler loop (kernel/process/process.c, waitq.c and          *)
(* kernel/main.c), on one hart.                                            *)
(*                                                                         *)
(* The kernel switches process only inside yield(), so a call is one step  *)
(* up to its yield, and the steps of one process are separated by the      *)
(* steps of the others.  Device interrupts (waitq_wake_all) come between   *)
(* steps, and inside waitq_sleep when the caller runs with interrupts on.  *)
(***************************************************************************)
EXTENDS Sched

VARIABLES
  procs,         \* the process table
  current_proc,  \* the slot that has the CPU
  pc,            \* where each slot's kernel context resumes
  want,          \* the pid argument of the waitpid a slot is in
  waiters,       \* the slots queued on the device's struct waitq
  creator        \* history: the slot whose present occupant forked this one

vars == <<procs, current_proc, pc, want, waiters, creator>>

(* idle_proc: the first process kernel_main creates.  Its stack pointer is *)
(* overwritten by kernel_main's first yield(), so the scheduler loop and   *)
(* not idle_entry is what runs in this slot.                               *)
Idle == 0

NoSlot == -1

Location == {"run", "waitpid", "enqueued", "asleep", "exit"}

AnyPid == -1
WaitArg == {AnyPid} \cup 1 .. PROC_MAX

Me == procs[current_proc]

AtLocation(l) == pc[current_proc] = l

(* Syscalls run with SIE clear, from the trap to its return; kernel        *)
(* processes and U-mode code can be interrupted.                           *)
InterruptsOn == Me.is_user => AtLocation("run")

----------------------------------------------------------------------------
(* yield() from table P; the caller resumes at l when it runs again.       *)
yield(P, l) ==
  /\ \E before \in {P} : \E table \in {YieldTable(before, current_proc)} :
       /\ procs' = table
       /\ current_proc' \in YieldNext(table, current_proc, Idle)
  /\ pc' = [pc EXCEPT ![current_proc] = l]

create_process(P) ==
  [i \in Slot |-> IF i \in alloc_process_slot(P)
                  THEN init_process_common(i + 1, 0, FALSE, PROC_PRIORITY_MIN)
                  ELSE P[i]]

(* A freed slot is nobody's creator and has none.                          *)
Forget(slots) ==
  creator' = [i \in Slot |-> IF i \in slots \/ creator[i] \in slots
                             THEN NoSlot ELSE creator[i]]

Init ==
  /\ procs = create_process(create_process([i \in Slot |-> mark_process_unused]))
  /\ current_proc = Idle
  /\ pc = [i \in Slot |-> "run"]
  /\ want = [i \in Slot |-> AnyPid]
  /\ waiters = {}
  /\ creator = [i \in Slot |-> NoSlot]

sys_yield ==
  /\ current_proc # Idle
  /\ AtLocation("run")
  /\ yield(procs, "run")
  /\ UNCHANGED <<want, waiters, creator>>

(* Called by kernel code; running out of memory leaves the slot unused.    *)
create_user_process ==
  /\ ~Me.is_user
  /\ AtLocation("run")
  /\ \E i \in alloc_process_slot(procs) :
       /\ procs' = [procs EXCEPT ![i] =
                      init_process_common(i + 1, 0, TRUE, PROC_PRIORITY_DEF)]
       /\ pc' = [pc EXCEPT ![i] = "run"]
  /\ UNCHANGED <<current_proc, want, waiters, creator>>

(* Mutant: the child names its parent's slot instead of its pid.           *)
proc_fork_slot_as_pid ==
  /\ Me.is_user
  /\ AtLocation("run")
  /\ \E i \in alloc_process_slot(procs) :
       /\ procs' = [procs EXCEPT ![i] =
                      init_process_common(i + 1, current_proc, TRUE, Me.priority)]
       /\ pc' = [pc EXCEPT ![i] = "run"]
       /\ creator' = [creator EXCEPT ![i] = current_proc]
  /\ UNCHANGED <<current_proc, want, waiters>>

(* The child inherits the priority and a full budget.  A fork that fails   *)
(* (no slot, no memory) leaves the table as it was.                        *)
proc_fork ==
  /\ Me.is_user
  /\ AtLocation("run")
  /\ \E i \in alloc_process_slot(procs) :
       /\ procs' = [procs EXCEPT ![i] =
                      init_process_common(i + 1, Me.pid, TRUE, Me.priority)]
       /\ pc' = [pc EXCEPT ![i] = "run"]
       /\ creator' = [creator EXCEPT ![i] = current_proc]
  /\ UNCHANGED <<current_proc, want, waiters>>

find_process_by_pid(P, pid) == {i \in Slot : P[i].state # "UNUSED" /\ P[i].pid = pid}

(* Mutant: the parent is not woken.                                        *)
proc_exit_without_wakeup(status) ==
  /\ current_proc # Idle
  /\ AtLocation("run")
  /\ yield([procs EXCEPT ![current_proc].exit_status = status,
                         ![current_proc].state = "ZOMBIE"], "exit")
  /\ UNCHANGED <<want, waiters, creator>>

(* The parent is woken whatever it is blocked on.  The loop around the     *)
(* final yield() only matters if a zombie could be resumed.                *)
proc_exit(status) ==
  /\ current_proc # Idle
  /\ AtLocation("run")
  /\ LET dead == [procs EXCEPT ![current_proc].exit_status = status,
                               ![current_proc].state = "ZOMBIE"]
         parent == find_process_by_pid(dead, Me.parent_pid)
     IN  yield([i \in Slot |-> IF i \in parent /\ dead[i].state = "BLOCKED"
                               THEN [dead[i] EXCEPT !.state = "RUNNABLE"]
                               ELSE dead[i]], "exit")
  /\ UNCHANGED <<want, waiters, creator>>

----------------------------------------------------------------------------
(* One pass of the loop of proc_waitpid for argument pid.                  *)
Children(P, pid) ==
  {i \in Slot : /\ P[i].state # "UNUSED"
                /\ P[i].parent_pid = Me.pid
                /\ pid > 0 => P[i].pid = pid}

ZombieChildren(P, pid) == {i \in Children(P, pid) : P[i].state = "ZOMBIE"}

Reap(pid) ==
  /\ \E first \in ZombieChildren(procs, pid) :
       /\ \A j \in ZombieChildren(procs, pid) : first <= j
       /\ procs' = [procs EXCEPT ![first] = mark_process_unused]
       /\ Forget({first})
  /\ pc' = [pc EXCEPT ![current_proc] = "run"]
  /\ UNCHANGED <<current_proc, want, waiters>>

BlockForChild(pid) ==
  /\ ZombieChildren(procs, pid) = {}
  /\ Children(procs, pid) # {}
  /\ want' = [want EXCEPT ![current_proc] = pid]
  /\ yield([procs EXCEPT ![current_proc].state = "BLOCKED"], "waitpid")
  /\ UNCHANGED <<waiters, creator>>

(* A user process calls wait or waitpid.  Without a matching child it gets *)
(* -1, and with WNOHANG and only live children 0: both change nothing.     *)
proc_waitpid(pid) ==
  /\ Me.is_user
  /\ AtLocation("run")
  /\ Reap(pid) \/ BlockForChild(pid)

(* It has the CPU again: it marks itself RUNNABLE and takes another pass.  *)
(* Only the caller reaps its children, so a pass that finds none is left   *)
(* out here and would be a deadlock of the model.                          *)
proc_waitpid_resume ==
  /\ AtLocation("waitpid")
  /\ Reap(want[current_proc]) \/ BlockForChild(want[current_proc])

----------------------------------------------------------------------------
(* waitq_sleep in two steps: the queue's lock is released, and interrupts  *)
(* restored, before the state becomes BLOCKED.                             *)
waitq_sleep_enqueue ==
  /\ current_proc # Idle
  /\ AtLocation("run")
  /\ waiters' = waiters \cup {current_proc}
  /\ pc' = [pc EXCEPT ![current_proc] = "enqueued"]
  /\ UNCHANGED <<procs, current_proc, want, creator>>

waitq_sleep_block ==
  /\ AtLocation("enqueued")
  /\ yield([procs EXCEPT ![current_proc].state = "BLOCKED"], "asleep")
  /\ UNCHANGED <<want, waiters, creator>>

waitq_sleep_return ==
  /\ AtLocation("asleep")
  /\ procs' = IF Me.state = "BLOCKED"
              THEN [procs EXCEPT ![current_proc].state = "RUNNABLE"] ELSE procs
  /\ pc' = [pc EXCEPT ![current_proc] = "run"]
  /\ UNCHANGED <<current_proc, want, waiters, creator>>

(* Mutant: every listed slot is made RUNNABLE, whatever state it is in.    *)
waitq_wake_all_unconditional ==
  /\ InterruptsOn
  /\ waiters # {}
  /\ procs' = [i \in Slot |-> IF i \in waiters
                              THEN [procs[i] EXCEPT !.state = "RUNNABLE"]
                              ELSE procs[i]]
  /\ waiters' = {}
  /\ UNCHANGED <<current_proc, pc, want, creator>>

(* Called by the device's interrupt handler.                               *)
waitq_wake_all ==
  /\ InterruptsOn
  /\ waiters # {}
  /\ procs' = [i \in Slot |-> IF i \in waiters /\ procs[i].state = "BLOCKED"
                              THEN [procs[i] EXCEPT !.state = "RUNNABLE"]
                              ELSE procs[i]]
  /\ waiters' = {}
  /\ UNCHANGED <<current_proc, pc, want, creator>>

----------------------------------------------------------------------------
has_live_app_proc(P) ==
  \E i \in Slot : P[i].pid # 0 /\ P[i].state \in {"RUNNABLE", "BLOCKED"}

OrphanZombies(P) ==
  {i \in Slot \ {Idle} : /\ P[i].state = "ZOMBIE"
                         /\ P[i].is_user
                         /\ P[i].parent_pid = 0}

proc_reap_orphan_zombies(P) ==
  [i \in Slot |-> IF i \in OrphanZombies(P) THEN mark_process_unused ELSE P[i]]

(* One iteration of the loop of kernel_main.                               *)
kernel_main ==
  /\ current_proc = Idle
  /\ LET reaped == proc_reap_orphan_zombies(procs)
     IN  yield(IF has_live_app_proc(reaped) THEN reaped ELSE create_process(reaped),
               "run")
  /\ Forget(OrphanZombies(procs))
  /\ UNCHANGED <<want, waiters>>

----------------------------------------------------------------------------
(* What the process that has the CPU may do next.                          *)
Running ==
  \/ kernel_main
  \/ sys_yield
  \/ create_user_process
  \/ proc_fork
  \/ \E status \in Status : proc_exit(status)
  \/ \E pid \in WaitArg : proc_waitpid(pid)
  \/ proc_waitpid_resume
  \/ waitq_sleep_enqueue
  \/ waitq_sleep_block
  \/ waitq_sleep_return

Next == Running \/ waitq_wake_all

Spec == Init /\ [][Next]_vars

(* The code of a process eventually calls the kernel again.                *)
FairSpec == Spec /\ WF_vars(Running)

----------------------------------------------------------------------------
TypeOK ==
  /\ procs \in [Slot -> Process]
  /\ current_proc \in Slot
  /\ pc \in [Slot -> Location]
  /\ want \in [Slot -> WaitArg]
  /\ waiters \subseteq Slot
  /\ creator \in [Slot -> Slot \cup {NoSlot}]

(* yield() only ever hands the CPU to a RUNNABLE process: never to a       *)
(* zombie, to a blocked process or to a slot that a reaper has freed.      *)
OnlyRunnableRuns == Me.state = "RUNNABLE"

(* No lost wakeup in waitpid: a process that is blocked in proc_waitpid    *)
(* still has a matching child, and none of them is a zombie yet.           *)
NoMissedExit ==
  \A p \in Slot :
    procs[p].state = "BLOCKED" /\ pc[p] = "waitpid" =>
      LET kids == {i \in Slot : /\ procs[i].state # "UNUSED"
                                /\ procs[i].parent_pid = procs[p].pid
                                /\ want[p] > 0 => procs[i].pid = want[p]}
      IN  kids # {} /\ \A i \in kids : procs[i].state # "ZOMBIE"

(* A zombie is only ever changed by being reaped, and a free slot only by  *)
(* a new process: no late waitq_wake_all or proc_exit revives a slot that  *)
(* is still listed in a wait queue or is named as a parent.                *)
StaysDead(i) ==
  /\ procs[i].state = "ZOMBIE" =>
       procs'[i] \in {procs[i], mark_process_unused}
  /\ procs[i].state = "UNUSED" =>
       \/ procs'[i] = procs[i]
       \/ procs'[i].state = "RUNNABLE" /\ procs'[i].pid = i + 1

DeadStayDead == [][\A i \in Slot : StaysDead(i)]_vars

(* Once processes only give up the CPU with yield(), each RUNNABLE process *)
(* gets it again and again: budgets run out and are refilled for all.      *)
YieldingIsFair ==
  <>[][sys_yield \/ kernel_main]_vars =>
    \A i \in Slot : []<>(current_proc = i \/ procs[i].state # "RUNNABLE")

(* A pid is the slot number plus one and is reused at once, while children *)
(* keep the parent_pid of a parent that is gone: waitpid may collect the   *)
(* zombie of a stranger.  It never takes a child from its own parent: who  *)
(* counts as the caller's child was forked by the caller or by a process   *)
(* that has been reaped.                                                   *)
StrangersAreOrphans ==
  \A p, c \in Slot :
    /\ procs[p].state # "UNUSED"
    /\ procs[c].state # "UNUSED"
    /\ procs[c].parent_pid = procs[p].pid
    => creator[c] \in {p, NoSlot}

----------------------------------------------------------------------------
(* What the documents say and the code does not do.                        *)

(* docs/old/GPU-driver.md:54, waitq_wake_all resumes the process that      *)
(* waits in vg_submit: a process that sleeps in waitq_sleep is queued.     *)
SleepersAreQueued ==
  \A i \in Slot :
    procs[i].state = "BLOCKED" /\ pc[i] = "asleep" => i \in waiters
=============================================================================
