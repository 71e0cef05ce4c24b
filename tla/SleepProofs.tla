---------------------------- MODULE SleepProofs ---------------------------
(***************************************************************************)
(* Proofs about processes that sleep and are woken: in waitpid, for every  *)
(* number of slots, every priority and every set of exit statuses, and in  *)
(* the block driver under its callers in Ext4, for any number of callers   *)
(* and slots, any disk and any geometry.                                   *)
(*                                                                         *)
(* The inductive invariant of processes is                                 *)
(*   TypeOK /\ IdleInv /\ PidInv /\ OnlyRunnableRuns /\ NoMissedExit:      *)
(* a yield() that finds nobody falls back on slot Idle, which therefore    *)
(* has to stay RUNNABLE, and proc_exit finds the parent by its pid, which  *)
(* therefore has to name one slot.  That of storage, StorageInv, follows a *)
(* slot of the driver through both rings.                                  *)
(***************************************************************************)
EXTENDS Process, Ext4, WellFoundedInduction, TLAPS

----------------------------------------------------------------------------
(* Processes.                                                              *)

(* Slot 0 runs the scheduler loop: a kernel process that never blocks.     *)
IdleInv ==
  /\ procs[Idle].state = "RUNNABLE"
  /\ ~procs[Idle].is_user
  /\ pc[Idle] = "run"

(* A process's pid is its slot plus one.                                   *)
PidInv ==
  \A i \in Slot : procs[i].state # "UNUSED" => procs[i].pid = i + 1

(* NoMissedExit of a process table P, locations loc and arguments w.       *)
Kids(P, p, w) ==
  {i \in Slot : /\ P[i].state # "UNUSED"
                /\ P[i].parent_pid = P[p].pid
                /\ w[p] > 0 => P[i].pid = w[p]}

NoMissed(P, loc, w) ==
  \A p \in Slot :
    P[p].state = "BLOCKED" /\ loc[p] = "waitpid" =>
      /\ Kids(P, p, w) # {}
      /\ \A i \in Kids(P, p, w) : P[i].state # "ZOMBIE"

IInv == TypeOK /\ IdleInv /\ PidInv /\ OnlyRunnableRuns /\ NoMissedExit

----------------------------------------------------------------------------
(* yield() touches nothing but the priority and budget of RUNNABLE slots.  *)
SameButBudget(P, Q) ==
  \A i \in Slot :
    /\ Q[i].state = P[i].state
    /\ Q[i].pid = P[i].pid
    /\ Q[i].parent_pid = P[i].parent_pid
    /\ Q[i].is_user = P[i].is_user
    /\ Q[i].exit_status = P[i].exit_status
    /\ P[i].state # "RUNNABLE" => Q[i] = P[i]

(* refill_budgets gives each RUNNABLE slot a positive budget and leaves the *)
(* other slots alone.                                                      *)
LEMMA RefillLemma ==
  ASSUME NEW P \in [Slot -> Process]
  PROVE  /\ refill_budgets(P) \in [Slot -> Process]
         /\ SameButBudget(P, refill_budgets(P))
<1> DEFINE prio(i) == IF P[i].priority < 1 THEN 1 ELSE P[i].priority
           filled(i) == [P[i] EXCEPT !.priority = prio(i), !.budget = prio(i)]
<1>1. ASSUME NEW i \in Slot
      PROVE  /\ refill_budgets(P)[i] = IF is_schedulable(P[i]) THEN filled(i) ELSE P[i]
             /\ filled(i) \in Process
             /\ filled(i).state = P[i].state
             /\ filled(i).pid = P[i].pid
             /\ filled(i).parent_pid = P[i].parent_pid
             /\ filled(i).is_user = P[i].is_user
             /\ filled(i).exit_status = P[i].exit_status
  <2>1. P[i] \in Process /\ prio(i) \in Nat
    BY DEF Process
  <2>2. refill_budgets(P)[i] = IF is_schedulable(P[i]) THEN filled(i) ELSE P[i]
    BY DEF refill_budgets
  <2> HIDE DEF prio
  <2> QED BY <2>1, <2>2, Zenon DEF Process
<1>2. \A i \in Slot : refill_budgets(P)[i] \in Process
  <2> HIDE DEF filled
  <2> QED BY <1>1
<1>3. refill_budgets(P) \in [Slot -> Process]
  <2>1. refill_budgets(P) = [i \in Slot |-> refill_budgets(P)[i]]
    BY DEF refill_budgets
  <2> QED BY <1>2, <2>1
<1>4. SameButBudget(P, refill_budgets(P))
  <2> HIDE DEF filled
  <2> QED BY <1>1 DEF SameButBudget, is_schedulable
<1> QED BY <1>3, <1>4

(* What yield() leaves of the process table it is called on: it is a       *)
(* process table, and only budgets and priorities of RUNNABLE slots moved. *)
LEMMA YieldTableLemma ==
  ASSUME NEW P \in [Slot -> Process], NEW cur \in Slot
  PROVE  /\ YieldTable(P, cur) \in [Slot -> Process]
         /\ SameButBudget(P, YieldTable(P, cur))
<1> DEFINE charged == IF is_eligible_for_pick(P[cur])
                      THEN [P EXCEPT ![cur].budget = @ - 1] ELSE P
<1>1. /\ charged \in [Slot -> Process]
      /\ SameButBudget(P, charged)
  BY DEF SameButBudget, Process, is_eligible_for_pick, is_schedulable
<1>2. YieldTable(P, cur) = charged \/ YieldTable(P, cur) = refill_budgets(charged)
  BY Zenon DEF YieldTable
<1> HIDE DEF charged
<1>3. /\ refill_budgets(charged) \in [Slot -> Process]
      /\ SameButBudget(charged, refill_budgets(charged))
  BY <1>1, RefillLemma
<1>4. SameButBudget(P, refill_budgets(charged))
  BY <1>1, <1>3 DEF SameButBudget
<1> QED BY <1>1, <1>2, <1>3, <1>4

(* Whoever yield() picks is a slot and is RUNNABLE, unless it is idle.     *)
LEMMA YieldNextLemma ==
  ASSUME NEW P \in [Slot -> Process], NEW cur \in Slot,
         NEW next \in YieldNext(P, cur, Idle)
  PROVE  next = Idle \/ (next \in Slot /\ P[next].state = "RUNNABLE")
BY DEF YieldNext, pick_next_runnable_index, Eligible, is_eligible_for_pick,
       is_schedulable

(* A step that ends in yield(P, l): everything the invariants need.        *)
LEMMA YieldLemma ==
  ASSUME TypeOK, NEW P \in [Slot -> Process], NEW l \in Location,
         P[Idle].state = "RUNNABLE", yield(P, l)
  PROVE  /\ procs' \in [Slot -> Process]
         /\ SameButBudget(P, procs')
         /\ current_proc' \in Slot
         /\ procs'[current_proc'].state = "RUNNABLE"
         /\ pc' = [pc EXCEPT ![current_proc] = l]
         /\ pc' \in [Slot -> Location]
<1>0. current_proc \in Slot /\ Idle \in Slot /\ pc \in [Slot -> Location]
  BY SchedAssumption DEF TypeOK, Slot, Idle
<1>1. /\ procs' = YieldTable(P, current_proc)
      /\ current_proc' \in YieldNext(procs', current_proc, Idle)
      /\ pc' = [pc EXCEPT ![current_proc] = l]
  BY DEF yield
<1>2. procs' \in [Slot -> Process] /\ SameButBudget(P, procs')
  BY <1>0, <1>1, YieldTableLemma
<1>3. current_proc' = Idle \/ (current_proc' \in Slot /\ procs'[current_proc'].state = "RUNNABLE")
  BY <1>0, <1>1, <1>2, YieldNextLemma, Zenon
<1>4. procs'[Idle].state = "RUNNABLE"
  BY <1>0, <1>2 DEF SameButBudget
<1> QED BY <1>0, <1>1, <1>2, <1>3, <1>4, Zenon

----------------------------------------------------------------------------
(* What a table P must satisfy for a yield(P, l) to keep the invariant.    *)
YieldOK(P, l, w) ==
  /\ P \in [Slot -> Process]
  /\ P[Idle].state = "RUNNABLE"
  /\ ~P[Idle].is_user
  /\ current_proc = Idle => l = "run"
  /\ \A i \in Slot : P[i].state # "UNUSED" => P[i].pid = i + 1
  /\ NoMissed(P, [pc EXCEPT ![current_proc] = l], w)

(* yield() keeps the invariant when the caller has left a table that       *)
(* satisfies it: budgets play no part in it.                               *)
LEMMA YieldKeepsInvariant ==
  ASSUME IInv, NEW P, NEW l \in Location, YieldOK(P, l, want'), yield(P, l)
  PROVE  /\ procs' \in [Slot -> Process]
         /\ current_proc' \in Slot
         /\ pc' \in [Slot -> Location]
         /\ IdleInv' /\ PidInv' /\ OnlyRunnableRuns' /\ NoMissedExit'
<1>1. TypeOK /\ current_proc \in Slot /\ Idle \in Slot /\ pc \in [Slot -> Location]
  BY SchedAssumption DEF IInv, TypeOK, Slot, Idle
<1>2. /\ procs' \in [Slot -> Process]
      /\ SameButBudget(P, procs')
      /\ current_proc' \in Slot
      /\ procs'[current_proc'].state = "RUNNABLE"
      /\ pc' = [pc EXCEPT ![current_proc] = l]
      /\ pc' \in [Slot -> Location]
  BY <1>1, YieldLemma DEF YieldOK
<1>3. IdleInv'
  BY <1>1, <1>2 DEF IInv, IdleInv, YieldOK, SameButBudget
<1>4. PidInv'
  BY <1>2 DEF PidInv, YieldOK, SameButBudget
<1>5. OnlyRunnableRuns'
  BY <1>2 DEF OnlyRunnableRuns, Me
<1>6. NoMissedExit'
  <2>1. NoMissed(P, pc', want')
    BY <1>2 DEF YieldOK
  <2>3. NoMissed(procs', pc', want')
    BY <1>2, <2>1 DEF NoMissed, SameButBudget, Kids
  <2> QED BY <2>3 DEF NoMissedExit, NoMissed, Kids
<1> QED BY <1>2, <1>3, <1>4, <1>5, <1>6

----------------------------------------------------------------------------
(* The first state: idle and the shell are RUNNABLE, nobody waits.         *)
LEMMA InitIInv == Init => IInv
<1> SUFFICES ASSUME Init PROVE IInv
  OBVIOUS
<1> DEFINE empty == [i \in Slot |-> mark_process_unused]
           one == create_process(empty)
<1>0. Idle \in Slot /\ 0 \in Pid /\ \A i \in Slot : i + 1 \in Pid /\ i \in Nat
  BY SchedAssumption DEF Slot, Pid, Idle
<1>1. empty \in [Slot -> Process] /\ \A i \in Slot : empty[i].state = "UNUSED"
  BY <1>0, SchedAssumption DEF mark_process_unused, Process, State
<1>2. ASSUME NEW P \in [Slot -> Process]
      PROVE  /\ create_process(P) \in [Slot -> Process]
             /\ \A i \in Slot :
                  \/ create_process(P)[i] = P[i]
                  \/ /\ P[i].state = "UNUSED"
                     /\ create_process(P)[i].state = "RUNNABLE"
                     /\ create_process(P)[i].pid = i + 1
                     /\ ~create_process(P)[i].is_user
  <2>1. \A i \in Slot :
          /\ init_process_common(i + 1, 0, FALSE, PROC_PRIORITY_MIN) \in Process
          /\ init_process_common(i + 1, 0, FALSE, PROC_PRIORITY_MIN).state = "RUNNABLE"
          /\ init_process_common(i + 1, 0, FALSE, PROC_PRIORITY_MIN).pid = i + 1
          /\ ~init_process_common(i + 1, 0, FALSE, PROC_PRIORITY_MIN).is_user
    BY <1>0, SchedAssumption DEF init_process_common, Process, State, PROC_PRIORITY_MIN
  <2> QED BY <2>1, Zenon DEF create_process, alloc_process_slot
<1> HIDE DEF empty
<1>3. one \in [Slot -> Process]
  BY <1>1, <1>2
<1>4. Idle \in alloc_process_slot(empty)
  BY <1>0, <1>1 DEF alloc_process_slot, Slot, Idle
<1>5. one[Idle] = init_process_common(Idle + 1, 0, FALSE, PROC_PRIORITY_MIN)
  BY <1>0, <1>4 DEF create_process
<1>6. one[Idle].state = "RUNNABLE" /\ ~one[Idle].is_user
  BY <1>5 DEF init_process_common
<1>7. \A i \in Slot : one[i].state \in {"UNUSED", "RUNNABLE"} /\ (one[i].state # "UNUSED" => one[i].pid = i + 1)
  BY <1>1, <1>2
<1> HIDE DEF one
<1>8. procs = create_process(one)
  BY DEF Init, one, empty
<1>9. /\ procs \in [Slot -> Process]
      /\ procs[Idle].state = "RUNNABLE"
      /\ ~procs[Idle].is_user
      /\ \A i \in Slot : procs[i].state \in {"UNUSED", "RUNNABLE"} /\ (procs[i].state # "UNUSED" => procs[i].pid = i + 1)
  BY <1>0, <1>2, <1>3, <1>6, <1>7, <1>8
<1>10. TypeOK
  BY <1>0, <1>9 DEF Init, TypeOK, Location, WaitArg, AnyPid, NoSlot
<1>11. IdleInv /\ PidInv /\ OnlyRunnableRuns /\ NoMissedExit
  BY <1>0, <1>9 DEF Init, IdleInv, PidInv, OnlyRunnableRuns, Me, NoMissedExit
<1> QED BY <1>10, <1>11 DEF IInv

----------------------------------------------------------------------------
(* Facts about a state of the invariant that every step below uses.        *)
LEMMA IInvFacts ==
  ASSUME IInv
  PROVE  /\ procs \in [Slot -> Process] /\ current_proc \in Slot /\ Idle \in Slot
         /\ pc \in [Slot -> Location] /\ want \in [Slot -> WaitArg]
         /\ waiters \subseteq Slot /\ creator \in [Slot -> Slot \cup {NoSlot}]
         /\ procs[Idle].state = "RUNNABLE" /\ ~procs[Idle].is_user /\ pc[Idle] = "run"
         /\ \A i \in Slot : procs[i].state # "UNUSED" => procs[i].pid = i + 1
         /\ procs[current_proc].state = "RUNNABLE"
         /\ NoMissed(procs, pc, want)
         /\ \A i \in Slot : i \in Nat /\ i + 1 \in Pid /\ i + 1 # 0
         /\ 0 \in Pid /\ 0 \in Status
BY SchedAssumption
   DEF IInv, TypeOK, IdleInv, PidInv, OnlyRunnableRuns, Me, NoMissedExit,
       NoMissed, Kids, Slot, Pid, Idle

(* A change that makes some slots RUNNABLE, frees zombies and fills free   *)
(* slots with RUNNABLE processes, and blocks nobody.                       *)
QuietChange(P, Q, loc, loc2) ==
  /\ \A p \in Slot :
       Q[p].state = "BLOCKED" /\ loc2[p] = "waitpid" =>
         P[p].state = "BLOCKED" /\ loc[p] = "waitpid" /\ Q[p].pid = P[p].pid
  /\ \A i \in Slot :
       \/ /\ Q[i].state = P[i].state \/ Q[i].state = "RUNNABLE"
          /\ Q[i].pid = P[i].pid
          /\ Q[i].parent_pid = P[i].parent_pid
       \/ P[i].state = "ZOMBIE" /\ Q[i].state = "UNUSED"
       \/ P[i].state = "UNUSED" /\ Q[i].state = "RUNNABLE"

(* Such a change misses no exit: it makes no zombie, and a zombie it frees *)
(* was no child of a process that is blocked for it.                       *)
LEMMA NoMissedStable ==
  ASSUME NEW P, NEW Q, NEW loc, NEW loc2, NEW w,
         NoMissed(P, loc, w), QuietChange(P, Q, loc, loc2)
  PROVE  NoMissed(Q, loc2, w)
<1> SUFFICES ASSUME NEW p \in Slot, Q[p].state = "BLOCKED", loc2[p] = "waitpid"
             PROVE  /\ Kids(Q, p, w) # {}
                    /\ \A i \in Kids(Q, p, w) : Q[i].state # "ZOMBIE"
  BY DEF NoMissed
<1>1. /\ Kids(P, p, w) # {}
      /\ \A i \in Kids(P, p, w) : P[i].state # "ZOMBIE"
  BY DEF NoMissed, QuietChange
<1>2. PICK k \in Slot : k \in Kids(P, p, w)
  BY <1>1 DEF Kids
<1>3. k \in Kids(Q, p, w)
  BY <1>1, <1>2 DEF Kids, QuietChange
<1>4. ASSUME NEW i \in Kids(Q, p, w) PROVE Q[i].state # "ZOMBIE"
  BY <1>1 DEF Kids, QuietChange
<1> QED BY <1>3, <1>4

(* yield from a "run" location without any other change.                   *)
LEMMA SysYieldStep == IInv /\ sys_yield => IInv'
<1> SUFFICES ASSUME IInv, sys_yield PROVE IInv'
  OBVIOUS
<1>1. want' = want /\ waiters' = waiters /\ creator' = creator /\ yield(procs, "run")
  BY DEF sys_yield
<1>2. NoMissed(procs, [pc EXCEPT ![current_proc] = "run"], want')
  BY <1>1, IInvFacts DEF NoMissed
<1>3. YieldOK(procs, "run", want')
  BY <1>2, IInvFacts DEF YieldOK
<1> QED BY <1>1, <1>3, YieldKeepsInvariant DEF IInv, TypeOK, Location

(* A new user process in an unused slot.                                   *)
LEMMA NewProcessKeepsInvariant ==
  ASSUME IInv, NEW i \in alloc_process_slot(procs), NEW parent \in Pid,
         NEW prio \in Nat,
         procs' = [procs EXCEPT ![i] = init_process_common(i + 1, parent, TRUE, prio)],
         pc' = [pc EXCEPT ![i] = "run"],
         current_proc' = current_proc, want' = want, waiters' = waiters,
         creator' \in [Slot -> Slot \cup {NoSlot}]
  PROVE  IInv'
<1> DEFINE new == init_process_common(i + 1, parent, TRUE, prio)
<1>1. i \in Slot /\ procs[i].state = "UNUSED" /\ i # Idle /\ i # current_proc
  BY IInvFacts DEF alloc_process_slot
<1>2. new \in Process /\ new.state = "RUNNABLE" /\ new.pid = i + 1
  BY <1>1, IInvFacts DEF init_process_common, Process, State
<1> HIDE DEF new
<1>3. procs' \in [Slot -> Process] /\ procs'[i] = new
      /\ \A j \in Slot : j # i => procs'[j] = procs[j]
  BY <1>1, <1>2, IInvFacts, Zenon DEF new
<1>4. TypeOK'
  BY <1>3, IInvFacts, Zenon DEF TypeOK, Location
<1>5. IdleInv' /\ PidInv' /\ OnlyRunnableRuns'
  BY <1>1, <1>2, <1>3, IInvFacts, Zenon DEF IdleInv, PidInv, OnlyRunnableRuns, Me
<1>6. NoMissed(procs', pc', want')
  <2>1. QuietChange(procs, procs', pc, pc')
    BY <1>1, <1>2, <1>3, IInvFacts, Zenon DEF QuietChange
  <2> QED BY <2>1, IInvFacts, NoMissedStable
<1>7. NoMissedExit'
  BY <1>6, Zenon DEF NoMissedExit, NoMissed, Kids
<1> QED BY <1>4, <1>5, <1>7 DEF IInv

(* create_user_process fills an unused slot.                               *)
LEMMA CreateStep == IInv /\ create_user_process => IInv'
<1> SUFFICES ASSUME IInv, create_user_process PROVE IInv'
  OBVIOUS
<1>1. PICK i \in alloc_process_slot(procs) :
        /\ procs' = [procs EXCEPT ![i] = init_process_common(i + 1, 0, TRUE, PROC_PRIORITY_DEF)]
        /\ pc' = [pc EXCEPT ![i] = "run"]
  BY Zenon DEF create_user_process
<1>2. 0 \in Pid /\ PROC_PRIORITY_DEF \in Nat
  BY SchedAssumption DEF Pid
<1>3. creator' \in [Slot -> Slot \cup {NoSlot}]
  BY IInvFacts DEF create_user_process
<1> QED BY <1>2, <1>3, NewProcessKeepsInvariant, Zenon DEF create_user_process

(* proc_fork fills an unused slot.                                         *)
LEMMA ForkStep == IInv /\ proc_fork => IInv'
<1> SUFFICES ASSUME IInv, proc_fork PROVE IInv'
  OBVIOUS
<1>1. Me.pid \in Pid /\ Me.priority \in Nat
  BY IInvFacts DEF Me, Process
<1>2. PICK i \in alloc_process_slot(procs) :
        /\ procs' = [procs EXCEPT ![i] = init_process_common(i + 1, Me.pid, TRUE, Me.priority)]
        /\ pc' = [pc EXCEPT ![i] = "run"]
        /\ creator' = [creator EXCEPT ![i] = current_proc]
  BY Zenon DEF proc_fork
<1>3. creator' \in [Slot -> Slot \cup {NoSlot}]
  BY <1>2, IInvFacts, Zenon
<1> QED BY <1>1, <1>3, NewProcessKeepsInvariant, Zenon DEF proc_fork

(* A process that exits: whoever is blocked for it in waitpid is found by  *)
(* its pid and made RUNNABLE in the same step.                             *)
LEMMA ExitStep ==
  ASSUME IInv, NEW status \in Status, proc_exit(status)
  PROVE  IInv'
<1> DEFINE dead == [procs EXCEPT ![current_proc].exit_status = status,
                                 ![current_proc].state = "ZOMBIE"]
           parent == find_process_by_pid(dead, Me.parent_pid)
           woken == [i \in Slot |-> IF i \in parent /\ dead[i].state = "BLOCKED"
                                    THEN [dead[i] EXCEPT !.state = "RUNNABLE"]
                                    ELSE dead[i]]
           loc == [pc EXCEPT ![current_proc] = "exit"]
<1>1. /\ yield(woken, "exit")
      /\ current_proc # Idle
      /\ want' = want /\ waiters' = waiters /\ creator' = creator
  BY DEF proc_exit
<1>2. /\ dead \in [Slot -> Process]
      /\ dead[current_proc].state = "ZOMBIE"
      /\ \A i \in Slot : /\ i # current_proc => dead[i] = procs[i]
                         /\ dead[i].pid = procs[i].pid
                         /\ dead[i].parent_pid = procs[i].parent_pid
  <2> DEFINE mid == [procs EXCEPT ![current_proc].exit_status = status]
  <2>1. /\ mid \in [Slot -> Process]
        /\ \A i \in Slot : /\ i # current_proc => mid[i] = procs[i]
                           /\ mid[i].pid = procs[i].pid
                           /\ mid[i].parent_pid = procs[i].parent_pid
    BY IInvFacts DEF Process
  <2>2. dead = [mid EXCEPT ![current_proc].state = "ZOMBIE"]
    OBVIOUS
  <2> HIDE DEF mid, dead
  <2>3. current_proc \in Slot
    BY IInvFacts
  <2>4. [mid[current_proc] EXCEPT !.state = "ZOMBIE"] \in Process
    BY <2>1, <2>3 DEF Process, State
  <2>5. dead[current_proc] = [mid[current_proc] EXCEPT !.state = "ZOMBIE"]
    BY <2>1, <2>2, <2>3
  <2>6. \A i \in Slot : i # current_proc => dead[i] = mid[i]
    BY <2>2
  <2>7. dead \in [Slot -> Process]
    BY <2>1, <2>2, <2>4, Zenon
  <2>8. /\ dead[current_proc].state = "ZOMBIE"
        /\ dead[current_proc].pid = mid[current_proc].pid
        /\ dead[current_proc].parent_pid = mid[current_proc].parent_pid
    BY <2>5 DEF Process
  <2> QED BY <2>1, <2>6, <2>7, <2>8
<1> HIDE DEF dead
<1>3. /\ woken \in [Slot -> Process]
      /\ \A i \in Slot :
           /\ woken[i].pid = procs[i].pid
           /\ woken[i].parent_pid = procs[i].parent_pid
           /\ woken[i].state = IF i \in parent /\ dead[i].state = "BLOCKED"
                               THEN "RUNNABLE" ELSE dead[i].state
           /\ woken[i].is_user = dead[i].is_user
  <2>1. \A i \in Slot : dead[i] \in Process /\ [dead[i] EXCEPT !.state = "RUNNABLE"] \in Process
    BY <1>2 DEF Process, State
  <2> QED BY <1>2, <2>1 DEF Process
<1>4. \A i \in Slot : i \in parent <=> dead[i].state # "UNUSED" /\ procs[i].pid = procs[current_proc].parent_pid
  BY <1>2 DEF find_process_by_pid, Me
<1> HIDE DEF parent, woken
<1>5. NoMissed(woken, loc, want)
  <2> SUFFICES ASSUME NEW p \in Slot, woken[p].state = "BLOCKED", loc[p] = "waitpid"
               PROVE  /\ Kids(woken, p, want) # {}
                      /\ \A i \in Kids(woken, p, want) : woken[i].state # "ZOMBIE"
    BY DEF NoMissed
  <2>1. p # current_proc /\ procs[p].state = "BLOCKED" /\ pc[p] = "waitpid" /\ p \notin parent
    BY <1>2, <1>3
  <2>2. procs[current_proc].parent_pid # procs[p].pid
    BY <1>2, <1>4, <2>1
  <2>3. Kids(procs, p, want) # {} /\ \A i \in Kids(procs, p, want) : procs[i].state # "ZOMBIE"
    BY <2>1, IInvFacts DEF NoMissed
  <2>4. \A i \in Slot : i # current_proc => dead[i] = procs[i]
    BY <1>2
  <2>5. \A i \in Slot : (woken[i].state = "UNUSED") <=> (procs[i].state = "UNUSED")
    BY <1>2, <1>3, IInvFacts
  <2>6. Kids(woken, p, want) = Kids(procs, p, want)
    BY <1>3, <2>5 DEF Kids
  <2>7. current_proc \notin Kids(procs, p, want)
    BY <2>2 DEF Kids
  <2>8. ASSUME NEW i \in Kids(procs, p, want) PROVE woken[i].state # "ZOMBIE"
    BY <1>3, <2>3, <2>4, <2>7 DEF Kids
  <2> QED BY <2>3, <2>6, <2>8
<1>6. woken[Idle].state = "RUNNABLE" /\ ~woken[Idle].is_user
  BY <1>1, <1>2, <1>3, IInvFacts
<1>7. \A i \in Slot : woken[i].state # "UNUSED" => woken[i].pid = i + 1
  BY <1>2, <1>3, IInvFacts
<1>8. YieldOK(woken, "exit", want')
  BY <1>1, <1>3, <1>5, <1>6, <1>7 DEF YieldOK
<1>9. "exit" \in Location
  BY DEF Location
<1>10. /\ procs' \in [Slot -> Process]
       /\ current_proc' \in Slot
       /\ pc' \in [Slot -> Location]
       /\ IdleInv' /\ PidInv' /\ OnlyRunnableRuns' /\ NoMissedExit'
  BY <1>1, <1>8, <1>9, YieldKeepsInvariant
<1> QED BY <1>1, <1>10 DEF IInv, TypeOK

(* A pass of waitpid that finds a zombie frees its slot: the zombie is not *)
(* a child of anybody who is blocked for it.                               *)
LEMMA ReapStep ==
  ASSUME IInv, NEW pid \in WaitArg, Reap(pid), current_proc # Idle
  PROVE  IInv'
<1>1. PICK z \in ZombieChildren(procs, pid) :
        procs' = [procs EXCEPT ![z] = mark_process_unused] /\ Forget({z})
  BY Zenon DEF Reap
<1>2. /\ pc' = [pc EXCEPT ![current_proc] = "run"]
      /\ current_proc' = current_proc /\ want' = want /\ waiters' = waiters
  BY DEF Reap
<1>3. z \in Slot /\ procs[z].state = "ZOMBIE" /\ z # Idle /\ z # current_proc
  BY IInvFacts DEF ZombieChildren, Children
<1>4. mark_process_unused \in Process /\ mark_process_unused.state = "UNUSED"
  BY IInvFacts DEF mark_process_unused, Process, State
<1>5. /\ procs' \in [Slot -> Process]
      /\ procs'[z] = mark_process_unused
      /\ \A i \in Slot : i # z => procs'[i] = procs[i]
  BY <1>1, <1>3, <1>4, IInvFacts
<1>6. TypeOK'
  BY <1>1, <1>2, <1>5, IInvFacts DEF TypeOK, Forget, Location
<1>7. IdleInv' /\ PidInv' /\ OnlyRunnableRuns'
  BY <1>2, <1>3, <1>4, <1>5, IInvFacts DEF IdleInv, PidInv, OnlyRunnableRuns, Me
<1>8. QuietChange(procs, procs', pc, pc')
  BY <1>2, <1>3, <1>4, <1>5 DEF QuietChange
<1>9. NoMissed(procs', pc', want')
  BY <1>2, <1>8, IInvFacts, NoMissedStable
<1> QED BY <1>6, <1>7, <1>9 DEF IInv, NoMissedExit, NoMissed, Kids

(* A pass of waitpid that finds only live children blocks the caller.      *)
LEMMA BlockStep ==
  ASSUME IInv, NEW pid \in WaitArg, BlockForChild(pid), current_proc # Idle
  PROVE  IInv'
<1> DEFINE blocked == [procs EXCEPT ![current_proc].state = "BLOCKED"]
           loc == [pc EXCEPT ![current_proc] = "waitpid"]
<1>1. /\ yield(blocked, "waitpid")
      /\ want' = [want EXCEPT ![current_proc] = pid]
      /\ waiters' = waiters /\ creator' = creator
      /\ ZombieChildren(procs, pid) = {} /\ Children(procs, pid) # {}
  BY DEF BlockForChild
<1>2. /\ blocked \in [Slot -> Process]
      /\ blocked[current_proc].state = "BLOCKED"
      /\ \A i \in Slot : /\ i # current_proc => blocked[i] = procs[i]
                         /\ blocked[i].pid = procs[i].pid
                         /\ blocked[i].parent_pid = procs[i].parent_pid
                         /\ blocked[i].state = "UNUSED" <=> procs[i].state = "UNUSED"
                         /\ blocked[i].state = "ZOMBIE" <=> procs[i].state = "ZOMBIE"
  BY IInvFacts DEF Process, State
<1> HIDE DEF blocked
<1>3. NoMissed(blocked, loc, want')
  <2> SUFFICES ASSUME NEW p \in Slot, blocked[p].state = "BLOCKED", loc[p] = "waitpid"
               PROVE  /\ Kids(blocked, p, want') # {}
                      /\ \A i \in Kids(blocked, p, want') : blocked[i].state # "ZOMBIE"
    BY DEF NoMissed
  <2>1. CASE p = current_proc
    <3>1. want'[p] = pid
      BY <1>1, <2>1, IInvFacts
    <3>2. Kids(blocked, p, want') = Children(procs, pid)
      BY <1>2, <2>1, <3>1 DEF Kids, Children, Me
    <3> QED BY <1>1, <1>2, <3>2, Zenon DEF ZombieChildren, Children
  <2>2. CASE p # current_proc
    <3>1. procs[p].state = "BLOCKED" /\ pc[p] = "waitpid" /\ want'[p] = want[p]
      BY <1>1, <1>2, <2>2
    <3> QED BY <1>2, <3>1, IInvFacts DEF NoMissed, Kids
  <2> QED BY <2>1, <2>2
<1>5. YieldOK(blocked, "waitpid", want')
  BY <1>2, <1>3, IInvFacts DEF YieldOK
<1>6. "waitpid" \in Location
  BY DEF Location
<1>7. /\ procs' \in [Slot -> Process]
      /\ current_proc' \in Slot
      /\ pc' \in [Slot -> Location]
      /\ IdleInv' /\ PidInv' /\ OnlyRunnableRuns' /\ NoMissedExit'
  BY <1>1, <1>5, <1>6, YieldKeepsInvariant, Zenon
<1> QED BY <1>1, <1>7, Zenon DEF IInv, TypeOK

(* waitpid, called or resumed: idle is no user process and is never in it. *)
LEMMA WaitStep ==
  ASSUME IInv,
         (\E pid \in WaitArg : proc_waitpid(pid)) \/ proc_waitpid_resume
  PROVE  IInv'
<1>1. current_proc # Idle
  BY IInvFacts DEF proc_waitpid, proc_waitpid_resume, Me, AtLocation
<1>2. want[current_proc] \in WaitArg
  BY IInvFacts
<1>3. PICK pid \in WaitArg : Reap(pid) \/ BlockForChild(pid)
  BY <1>2 DEF proc_waitpid, proc_waitpid_resume
<1> QED BY <1>1, <1>3, ReapStep, BlockStep

(* The three parts of waitq_sleep.                                         *)
LEMMA EnqueueStep == IInv /\ waitq_sleep_enqueue => IInv'
<1> SUFFICES ASSUME IInv, waitq_sleep_enqueue PROVE IInv'
  OBVIOUS
<1>1. /\ current_proc # Idle
      /\ waiters' = waiters \cup {current_proc}
      /\ pc' = [pc EXCEPT ![current_proc] = "enqueued"]
      /\ procs' = procs /\ current_proc' = current_proc /\ want' = want /\ creator' = creator
  BY DEF waitq_sleep_enqueue
<1>2. TypeOK' /\ IdleInv' /\ PidInv' /\ OnlyRunnableRuns'
  BY <1>1, IInvFacts DEF TypeOK, IdleInv, PidInv, OnlyRunnableRuns, Me, Location
<1>3. QuietChange(procs, procs', pc, pc')
  BY <1>1 DEF QuietChange
<1>4. NoMissed(procs', pc', want')
  BY <1>1, <1>3, IInvFacts, NoMissedStable
<1> QED BY <1>2, <1>4 DEF IInv, NoMissedExit, NoMissed, Kids

(* BLOCKED and away: nobody's child is a zombie that was not one before.   *)
LEMMA SleepStep == IInv /\ waitq_sleep_block => IInv'
<1> SUFFICES ASSUME IInv, waitq_sleep_block PROVE IInv'
  OBVIOUS
<1> DEFINE blocked == [procs EXCEPT ![current_proc].state = "BLOCKED"]
           loc == [pc EXCEPT ![current_proc] = "asleep"]
<1>1. /\ yield(blocked, "asleep")
      /\ current_proc # Idle
      /\ want' = want /\ waiters' = waiters /\ creator' = creator
  BY IInvFacts DEF waitq_sleep_block, AtLocation
<1>2. /\ blocked \in [Slot -> Process]
      /\ \A i \in Slot : /\ i # current_proc => blocked[i] = procs[i]
                         /\ blocked[i].pid = procs[i].pid
                         /\ blocked[i].parent_pid = procs[i].parent_pid
                         /\ blocked[i].state = "UNUSED" <=> procs[i].state = "UNUSED"
                         /\ blocked[i].state = "ZOMBIE" <=> procs[i].state = "ZOMBIE"
  BY IInvFacts DEF Process, State
<1> HIDE DEF blocked
<1>3. NoMissed(blocked, loc, want)
  <2> SUFFICES ASSUME NEW p \in Slot, blocked[p].state = "BLOCKED", loc[p] = "waitpid"
               PROVE  /\ Kids(blocked, p, want) # {}
                      /\ \A i \in Kids(blocked, p, want) : blocked[i].state # "ZOMBIE"
    BY DEF NoMissed
  <2> QED BY <1>2, IInvFacts DEF NoMissed, Kids
<1>5. YieldOK(blocked, "asleep", want')
  BY <1>1, <1>2, <1>3, IInvFacts DEF YieldOK
<1>6. "asleep" \in Location
  BY DEF Location
<1>7. /\ procs' \in [Slot -> Process]
      /\ current_proc' \in Slot
      /\ pc' \in [Slot -> Location]
      /\ IdleInv' /\ PidInv' /\ OnlyRunnableRuns' /\ NoMissedExit'
  BY <1>1, <1>5, <1>6, YieldKeepsInvariant
<1> QED BY <1>1, <1>7 DEF IInv, TypeOK

(* Whoever has the CPU again has been made RUNNABLE by the waker.          *)
LEMMA WakeReturnStep == IInv /\ waitq_sleep_return => IInv'
<1> SUFFICES ASSUME IInv, waitq_sleep_return PROVE IInv'
  OBVIOUS
<1>1. /\ procs' = procs /\ current_proc' = current_proc
      /\ pc' = [pc EXCEPT ![current_proc] = "run"]
      /\ want' = want /\ waiters' = waiters /\ creator' = creator
  BY IInvFacts DEF waitq_sleep_return, Me
<1>2. TypeOK' /\ IdleInv' /\ PidInv' /\ OnlyRunnableRuns'
  BY <1>1, IInvFacts DEF TypeOK, IdleInv, PidInv, OnlyRunnableRuns, Me, Location
<1>3. QuietChange(procs, procs', pc, pc')
  BY <1>1 DEF QuietChange
<1>4. NoMissed(procs', pc', want')
  BY <1>1, <1>3, IInvFacts, NoMissedStable
<1> QED BY <1>2, <1>4 DEF IInv, NoMissedExit, NoMissed, Kids

(* The interrupt handler makes the queued sleepers RUNNABLE.               *)
LEMMA WakeAllStep == IInv /\ waitq_wake_all => IInv'
<1> SUFFICES ASSUME IInv, waitq_wake_all PROVE IInv'
  OBVIOUS
<1>1. /\ procs' = [i \in Slot |-> IF i \in waiters /\ procs[i].state = "BLOCKED"
                                  THEN [procs[i] EXCEPT !.state = "RUNNABLE"]
                                  ELSE procs[i]]
      /\ waiters' = {} /\ current_proc' = current_proc /\ pc' = pc
      /\ want' = want /\ creator' = creator
  BY DEF waitq_wake_all
<1>2. /\ procs' \in [Slot -> Process]
      /\ \A i \in Slot : /\ procs'[i].pid = procs[i].pid
                         /\ procs'[i].parent_pid = procs[i].parent_pid
                         /\ procs'[i].is_user = procs[i].is_user
                         /\ \/ procs'[i].state = procs[i].state
                            \/ procs[i].state = "BLOCKED" /\ procs'[i].state = "RUNNABLE"
  BY <1>1, IInvFacts DEF Process, State
<1>3. TypeOK' /\ IdleInv' /\ PidInv' /\ OnlyRunnableRuns'
  BY <1>1, <1>2, IInvFacts DEF TypeOK, IdleInv, PidInv, OnlyRunnableRuns, Me
<1>4. QuietChange(procs, procs', pc, pc')
  BY <1>1 DEF QuietChange
<1>5. NoMissed(procs', pc', want')
  BY <1>1, <1>4, IInvFacts, NoMissedStable
<1> QED BY <1>3, <1>5 DEF IInv, NoMissedExit, NoMissed, Kids

----------------------------------------------------------------------------
(* The table that one iteration of the scheduler loop yields with: idle    *)
(* itself is alive, so the loop never gets to create_process.              *)
LEMMA KernelMainTable ==
  ASSUME IInv, kernel_main
  PROVE  /\ yield(proc_reap_orphan_zombies(procs), "run")
         /\ Forget(OrphanZombies(procs))
         /\ current_proc = Idle /\ want' = want /\ waiters' = waiters
<1> DEFINE reaped == proc_reap_orphan_zombies(procs)
<1>1. reaped[Idle] = procs[Idle]
  BY IInvFacts DEF proc_reap_orphan_zombies, OrphanZombies
<1> HIDE DEF reaped
<1>3. has_live_app_proc(reaped)
  BY <1>1, IInvFacts DEF has_live_app_proc
<1>4. /\ yield(IF has_live_app_proc(reaped) THEN reaped ELSE create_process(reaped), "run")
      /\ Forget(OrphanZombies(procs))
      /\ current_proc = Idle /\ want' = want /\ waiters' = waiters
  BY DEF kernel_main, reaped
<1>5. yield(reaped, "run")
  BY <1>3, <1>4
<1> QED BY <1>4, <1>5 DEF reaped

(* The reaper frees zombies only, and never slot Idle.                     *)
LEMMA ReapedTable ==
  ASSUME IInv
  PROVE  /\ proc_reap_orphan_zombies(procs) \in [Slot -> Process]
         /\ \A i \in Slot :
              \/ proc_reap_orphan_zombies(procs)[i] = procs[i]
              \/ /\ i # Idle
                 /\ procs[i].state = "ZOMBIE"
                 /\ proc_reap_orphan_zombies(procs)[i] = mark_process_unused
<1>1. mark_process_unused \in Process
  BY IInvFacts DEF mark_process_unused, Process, State
<1> QED BY <1>1, IInvFacts DEF proc_reap_orphan_zombies, OrphanZombies

(* An iteration of the scheduler loop preserves the invariant.             *)
LEMMA KernelMainStep == IInv /\ kernel_main => IInv'
<1> SUFFICES ASSUME IInv, kernel_main PROVE IInv'
  OBVIOUS
<1> DEFINE reaped == proc_reap_orphan_zombies(procs)
           loc == [pc EXCEPT ![current_proc] = "run"]
<1>1. /\ yield(reaped, "run") /\ Forget(OrphanZombies(procs))
      /\ current_proc = Idle /\ want' = want /\ waiters' = waiters
  BY KernelMainTable
<1>2. /\ reaped \in [Slot -> Process]
      /\ \A i \in Slot : \/ reaped[i] = procs[i]
                         \/ /\ i # Idle
                            /\ procs[i].state = "ZOMBIE"
                            /\ reaped[i] = mark_process_unused
  BY ReapedTable
<1> HIDE DEF reaped
<1>3. mark_process_unused.state = "UNUSED"
  BY DEF mark_process_unused
<1>4. QuietChange(procs, reaped, pc, loc)
  BY <1>2, <1>3 DEF QuietChange
<1>5. NoMissed(reaped, loc, want)
  BY <1>4, IInvFacts, NoMissedStable
<1>6. YieldOK(reaped, "run", want')
  BY <1>1, <1>2, <1>3, <1>5, IInvFacts DEF YieldOK
<1>7. "run" \in Location
  BY DEF Location
<1>8. /\ procs' \in [Slot -> Process]
      /\ current_proc' \in Slot
      /\ pc' \in [Slot -> Location]
      /\ IdleInv' /\ PidInv' /\ OnlyRunnableRuns' /\ NoMissedExit'
  BY <1>1, <1>6, <1>7, YieldKeepsInvariant
<1>9. creator' \in [Slot -> Slot \cup {NoSlot}]
  BY <1>1, IInvFacts DEF Forget
<1> QED BY <1>1, <1>8, <1>9 DEF IInv, TypeOK

(* Every step keeps the invariant.                                         *)
LEMMA NextIInv == IInv /\ [Next]_vars => IInv'
<1> SUFFICES ASSUME IInv, [Next]_vars PROVE IInv'
  OBVIOUS
<1>1. CASE kernel_main
  BY <1>1, KernelMainStep
<1>2. CASE sys_yield
  BY <1>2, SysYieldStep
<1>3. CASE create_user_process
  BY <1>3, CreateStep
<1>4. CASE proc_fork
  BY <1>4, ForkStep
<1>5. CASE \E status \in Status : proc_exit(status)
  BY <1>5, ExitStep
<1>6. CASE (\E pid \in WaitArg : proc_waitpid(pid)) \/ proc_waitpid_resume
  BY <1>6, WaitStep
<1>7. CASE waitq_sleep_enqueue
  BY <1>7, EnqueueStep
<1>8. CASE waitq_sleep_block
  BY <1>8, SleepStep
<1>9. CASE waitq_sleep_return
  BY <1>9, WakeReturnStep
<1>10. CASE waitq_wake_all
  BY <1>10, WakeAllStep
<1>11. CASE UNCHANGED vars
  BY <1>11 DEF vars, IInv, TypeOK, IdleInv, PidInv, OnlyRunnableRuns, Me, NoMissedExit
<1> QED
  BY <1>1, <1>2, <1>3, <1>4, <1>5, <1>6, <1>7, <1>8, <1>9, <1>10, <1>11
  DEF Next, Running

(* The inductive invariant holds in every reachable state.                 *)
THEOREM Invariance == Spec => []IInv
BY InitIInv, NextIInv, PTL DEF Spec

(* The process table and the kernel's bookkeeping keep their types.        *)
THEOREM TypeCorrect == Spec => []TypeOK
<1>1. IInv => TypeOK
  BY DEF IInv
<1> QED BY <1>1, Invariance, PTL

(* yield() never hands the CPU to a zombie, a blocked process or a freed   *)
(* slot, for every number of slots and every priority.                     *)
THEOREM RunnableRuns == Spec => []OnlyRunnableRuns
<1>1. IInv => OnlyRunnableRuns
  BY DEF IInv
<1> QED BY <1>1, Invariance, PTL

(* No exit is missed: nobody stays blocked in waitpid with a zombie child, *)
(* or without any child left to wait for.                                  *)
THEOREM ExitsAreSeen == Spec => []NoMissedExit
<1>1. IInv => NoMissedExit
  BY DEF IInv
<1> QED BY <1>1, Invariance, PTL

----------------------------------------------------------------------------
(* A yield from a table that has at most freed dead slots leaves the dead  *)
(* dead: budgets and priorities of slots that are not RUNNABLE stay.       *)
LEMMA YieldLeavesDead ==
  ASSUME IInv, NEW P \in [Slot -> Process], NEW l \in Location,
         P[Idle].state = "RUNNABLE", yield(P, l),
         \A i \in Slot :
           /\ procs[i].state = "ZOMBIE" => P[i] \in {procs[i], mark_process_unused}
           /\ procs[i].state = "UNUSED" => P[i] = procs[i]
  PROVE  \A i \in Slot : StaysDead(i)
<1>1. SameButBudget(P, procs')
  BY YieldLemma DEF IInv
<1>2. mark_process_unused.state = "UNUSED"
  BY DEF mark_process_unused
<1> QED BY <1>1, <1>2 DEF SameButBudget, StaysDead

(* No step revives a zombie or a free slot.                                *)
LEMMA NextDead == IInv /\ [Next]_vars => [\A i \in Slot : StaysDead(i)]_vars
<1> SUFFICES ASSUME IInv, Next PROVE \A i \in Slot : StaysDead(i)
  OBVIOUS
<1>1. CASE kernel_main
  <2>1. yield(proc_reap_orphan_zombies(procs), "run")
    BY <1>1, KernelMainTable
  <2> QED BY <2>1, ReapedTable, YieldLeavesDead, IInvFacts DEF Location
<1>2. CASE sys_yield
  BY <1>2, YieldLeavesDead, IInvFacts DEF sys_yield, Location
<1>3. CASE create_user_process
  <2>1. PICK i \in alloc_process_slot(procs) :
          procs' = [procs EXCEPT ![i] = init_process_common(i + 1, 0, TRUE, PROC_PRIORITY_DEF)]
    BY <1>3, Zenon DEF create_user_process
  <2> QED BY <2>1 DEF alloc_process_slot, init_process_common, StaysDead
<1>4. CASE proc_fork
  <2>1. PICK i \in alloc_process_slot(procs) :
          procs' = [procs EXCEPT ![i] = init_process_common(i + 1, Me.pid, TRUE, Me.priority)]
    BY <1>4, Zenon DEF proc_fork
  <2> QED BY <2>1 DEF alloc_process_slot, init_process_common, StaysDead
<1>5. CASE \E status \in Status : proc_exit(status)
  <2>1. PICK status \in Status : proc_exit(status)
    BY <1>5
  <2> DEFINE mid == [procs EXCEPT ![current_proc].exit_status = status]
             dead == [procs EXCEPT ![current_proc].exit_status = status,
                                   ![current_proc].state = "ZOMBIE"]
             parent == find_process_by_pid(dead, Me.parent_pid)
             woken == [i \in Slot |-> IF i \in parent /\ dead[i].state = "BLOCKED"
                                      THEN [dead[i] EXCEPT !.state = "RUNNABLE"]
                                      ELSE dead[i]]
  <2>2. yield(woken, "exit") /\ current_proc # Idle
    BY <2>1 DEF proc_exit
  <2>3. mid \in [Slot -> Process] /\ \A i \in Slot : i # current_proc => mid[i] = procs[i]
    BY IInvFacts DEF Process
  <2>4. dead = [mid EXCEPT ![current_proc].state = "ZOMBIE"]
    OBVIOUS
  <2> HIDE DEF mid, dead
  <2>5. dead \in [Slot -> Process] /\ \A i \in Slot : i # current_proc => dead[i] = procs[i]
    BY <2>3, <2>4, IInvFacts DEF Process, State
  <2> HIDE DEF parent
  <2>6. /\ woken \in [Slot -> Process]
        /\ \A i \in Slot : i # current_proc =>
             woken[i] = procs[i] \/ procs[i].state = "BLOCKED"
    <3>1. \A i \in Slot : dead[i] \in Process /\ [dead[i] EXCEPT !.state = "RUNNABLE"] \in Process
      BY <2>5 DEF Process, State
    <3> QED BY <2>5, <3>1
  <2> HIDE DEF woken
  <2> QED BY <2>2, <2>6, YieldLeavesDead, IInvFacts DEF Location
<1>6. CASE \E pid \in WaitArg : Reap(pid)
  <2>1. PICK pid \in WaitArg : Reap(pid)
    BY <1>6
  <2>2. PICK z \in ZombieChildren(procs, pid) :
          procs' = [procs EXCEPT ![z] = mark_process_unused]
    BY <2>1, Zenon DEF Reap
  <2> QED BY <2>2 DEF StaysDead, ZombieChildren, Children
<1>7. CASE \E l \in Location : yield([procs EXCEPT ![current_proc].state = "BLOCKED"], l)
                               /\ current_proc # Idle
  <2>1. PICK l \in Location : yield([procs EXCEPT ![current_proc].state = "BLOCKED"], l)
    BY <1>7
  <2> DEFINE blocked == [procs EXCEPT ![current_proc].state = "BLOCKED"]
  <2>2. /\ blocked \in [Slot -> Process]
        /\ \A i \in Slot : i # current_proc => blocked[i] = procs[i]
    BY IInvFacts DEF Process, State
  <2> HIDE DEF blocked
  <2>3. yield(blocked, l)
    BY <2>1 DEF blocked
  <2> QED BY <1>7, <2>2, <2>3, YieldLeavesDead, IInvFacts
<1>8. CASE waitq_sleep_block
  BY <1>7, <1>8, IInvFacts DEF waitq_sleep_block, AtLocation, Location
<1>9. CASE (\E pid \in WaitArg : proc_waitpid(pid)) \/ proc_waitpid_resume
  <2>1. current_proc # Idle
    BY <1>9, IInvFacts DEF proc_waitpid, proc_waitpid_resume, Me, AtLocation
  <2>2. PICK pid \in WaitArg : Reap(pid) \/ BlockForChild(pid)
    BY <1>9, IInvFacts DEF proc_waitpid, proc_waitpid_resume
  <2> QED BY <1>6, <1>7, <2>1, <2>2 DEF BlockForChild, Location
<1>10. CASE waitq_sleep_enqueue
  BY <1>10 DEF waitq_sleep_enqueue, StaysDead
<1>11. CASE waitq_sleep_return
  BY <1>11 DEF waitq_sleep_return, Me, StaysDead
<1>12. CASE waitq_wake_all
  BY <1>12 DEF waitq_wake_all, StaysDead
<1> QED
  BY <1>1, <1>2, <1>3, <1>4, <1>5, <1>8, <1>9, <1>10, <1>11, <1>12 DEF Next, Running

(* No late wakeup revives a slot: zombies are only reaped, free slots only *)
(* reused.                                                                 *)
THEOREM DeadStay == Spec => DeadStayDead
BY Invariance, NextDead, PTL DEF Spec, DeadStayDead

----------------------------------------------------------------------------
(* A process that was forked by a process that still exists names its slot *)
(* by the parent's pid.                                                    *)
CreatorInv ==
  \A c \in Slot :
    creator[c] # NoSlot => /\ procs[c].state # "UNUSED"
                           /\ procs[c].parent_pid = creator[c] + 1

(* A yield from a table in which the slots that keep their creator also    *)
(* keep their parent.                                                      *)
LEMMA YieldKeepsCreators ==
  ASSUME IInv, CreatorInv, NEW P \in [Slot -> Process], NEW l \in Location,
         P[Idle].state = "RUNNABLE", yield(P, l),
         \A c \in Slot :
           creator'[c] # NoSlot => /\ creator'[c] = creator[c]
                                   /\ P[c].state # "UNUSED"
                                   /\ P[c].parent_pid = procs[c].parent_pid
  PROVE  CreatorInv'
<1>1. SameButBudget(P, procs')
  BY YieldLemma DEF IInv
<1> QED BY <1>1 DEF SameButBudget, CreatorInv

(* Freeing a set of slots.                                                 *)
LEMMA ForgetLemma ==
  ASSUME IInv, NEW slots \in SUBSET Slot, Forget(slots), NEW c \in Slot, creator'[c] # NoSlot
  PROVE  c \notin slots /\ creator'[c] = creator[c]
BY DEF Forget

(* Every step keeps CreatorInv: fork records the pid of its caller, which  *)
(* is its slot plus one, and whoever frees a slot forgets its children.    *)
LEMMA NextCreator == IInv /\ CreatorInv /\ [Next]_vars => CreatorInv'
<1> SUFFICES ASSUME IInv, CreatorInv, [Next]_vars PROVE CreatorInv'
  OBVIOUS
<1>1. CASE kernel_main
  <2> DEFINE reaped == proc_reap_orphan_zombies(procs)
  <2>1. yield(reaped, "run") /\ Forget(OrphanZombies(procs)) /\ OrphanZombies(procs) \subseteq Slot
    BY <1>1, KernelMainTable DEF OrphanZombies
  <2>2. \A c \in Slot : creator'[c] # NoSlot => creator'[c] = creator[c] /\ c \notin OrphanZombies(procs)
    BY <2>1, ForgetLemma
  <2>3. reaped \in [Slot -> Process] /\ reaped[Idle].state = "RUNNABLE"
    BY ReapedTable, IInvFacts
  <2>4. \A c \in Slot : c \notin OrphanZombies(procs) => reaped[c] = procs[c]
    BY DEF proc_reap_orphan_zombies
  <2> HIDE DEF reaped
  <2>5. "run" \in Location
    BY DEF Location
  <2> QED BY <2>1, <2>2, <2>3, <2>4, <2>5, YieldKeepsCreators DEF CreatorInv
<1>2. CASE sys_yield
  BY <1>2, YieldKeepsCreators, IInvFacts DEF sys_yield, Location, CreatorInv
<1>3. CASE create_user_process
  <2>1. PICK i \in alloc_process_slot(procs) :
          procs' = [procs EXCEPT ![i] = init_process_common(i + 1, 0, TRUE, PROC_PRIORITY_DEF)]
    BY <1>3, Zenon DEF create_user_process
  <2>2. creator' = creator
    BY <1>3, Zenon DEF create_user_process
  <2> QED BY <2>1, <2>2, IInvFacts, Zenon DEF alloc_process_slot, CreatorInv
<1>4. CASE proc_fork
  <2>1. PICK i \in alloc_process_slot(procs) :
          /\ procs' = [procs EXCEPT ![i] = init_process_common(i + 1, Me.pid, TRUE, Me.priority)]
          /\ creator' = [creator EXCEPT ![i] = current_proc]
    BY <1>4, Zenon DEF proc_fork
  <2>2. Me.pid = current_proc + 1
    BY IInvFacts DEF Me
  <2> QED BY <2>1, <2>2, IInvFacts, Zenon DEF alloc_process_slot, init_process_common, CreatorInv
<1>5. CASE \E status \in Status : proc_exit(status)
  <2>1. PICK status \in Status : proc_exit(status)
    BY <1>5
  <2> DEFINE mid == [procs EXCEPT ![current_proc].exit_status = status]
             dead == [procs EXCEPT ![current_proc].exit_status = status,
                                   ![current_proc].state = "ZOMBIE"]
             parent == find_process_by_pid(dead, Me.parent_pid)
             woken == [i \in Slot |-> IF i \in parent /\ dead[i].state = "BLOCKED"
                                      THEN [dead[i] EXCEPT !.state = "RUNNABLE"]
                                      ELSE dead[i]]
  <2>2. yield(woken, "exit") /\ current_proc # Idle /\ creator' = creator
    BY <2>1 DEF proc_exit
  <2>3. /\ mid \in [Slot -> Process]
        /\ \A i \in Slot : mid[i].state = procs[i].state /\ mid[i].parent_pid = procs[i].parent_pid
    BY IInvFacts DEF Process
  <2>4. dead = [mid EXCEPT ![current_proc].state = "ZOMBIE"]
    OBVIOUS
  <2> HIDE DEF mid, dead
  <2>5. /\ dead \in [Slot -> Process]
        /\ \A i \in Slot : /\ dead[i].parent_pid = procs[i].parent_pid
                           /\ i # current_proc => dead[i].state = procs[i].state
                           /\ procs[i].state # "UNUSED" => dead[i].state # "UNUSED"
    BY <2>3, <2>4, IInvFacts DEF Process, State
  <2> HIDE DEF parent
  <2>6. /\ woken \in [Slot -> Process]
        /\ \A i \in Slot : /\ woken[i].parent_pid = procs[i].parent_pid
                           /\ woken[i].state \in {dead[i].state, "RUNNABLE"}
    <3>1. \A i \in Slot : /\ dead[i] \in Process /\ [dead[i] EXCEPT !.state = "RUNNABLE"] \in Process
                          /\ [dead[i] EXCEPT !.state = "RUNNABLE"].parent_pid = dead[i].parent_pid
                          /\ [dead[i] EXCEPT !.state = "RUNNABLE"].state = "RUNNABLE"
      BY <2>5 DEF Process, State
    <3> QED BY <2>5, <3>1
  <2> HIDE DEF woken
  <2>7. woken[Idle].state = "RUNNABLE"
    BY <2>2, <2>5, <2>6, IInvFacts
  <2>8. "exit" \in Location
    BY DEF Location
  <2> QED BY <2>2, <2>5, <2>6, <2>7, <2>8, YieldKeepsCreators DEF CreatorInv
<1>6. CASE \E pid \in WaitArg : Reap(pid)
  <2>1. PICK pid \in WaitArg : Reap(pid)
    BY <1>6
  <2>2. PICK z \in ZombieChildren(procs, pid) :
          procs' = [procs EXCEPT ![z] = mark_process_unused] /\ Forget({z})
    BY <2>1, Zenon DEF Reap
  <2>3. z \in Slot /\ \A c \in Slot : creator'[c] # NoSlot => c # z /\ creator'[c] = creator[c]
    BY <2>2, ForgetLemma DEF ZombieChildren, Children
  <2>4. \A c \in Slot : c # z => procs'[c] = procs[c]
    BY <2>2, <2>3, IInvFacts, Zenon
  <2> QED BY <2>3, <2>4, Zenon DEF CreatorInv
<1>7. CASE /\ \E l \in Location : yield([procs EXCEPT ![current_proc].state = "BLOCKED"], l)
           /\ current_proc # Idle /\ creator' = creator
  <2>1. PICK l \in Location : yield([procs EXCEPT ![current_proc].state = "BLOCKED"], l)
    BY <1>7
  <2> DEFINE blocked == [procs EXCEPT ![current_proc].state = "BLOCKED"]
  <2>2. /\ blocked \in [Slot -> Process]
        /\ \A i \in Slot : /\ blocked[i].parent_pid = procs[i].parent_pid
                           /\ blocked[i].state \in {procs[i].state, "BLOCKED"}
                           /\ i # current_proc => blocked[i] = procs[i]
    BY IInvFacts DEF Process, State
  <2> HIDE DEF blocked
  <2>3. yield(blocked, l)
    BY <2>1 DEF blocked
  <2> QED BY <1>7, <2>2, <2>3, YieldKeepsCreators, IInvFacts DEF CreatorInv
<1>8. CASE waitq_sleep_block
  BY <1>7, <1>8, IInvFacts DEF waitq_sleep_block, AtLocation, Location
<1>9. CASE (\E pid \in WaitArg : proc_waitpid(pid)) \/ proc_waitpid_resume
  <2>1. current_proc # Idle
    BY <1>9, IInvFacts DEF proc_waitpid, proc_waitpid_resume, Me, AtLocation
  <2>2. PICK pid \in WaitArg : Reap(pid) \/ BlockForChild(pid)
    BY <1>9, IInvFacts DEF proc_waitpid, proc_waitpid_resume
  <2> QED BY <1>6, <1>7, <2>1, <2>2 DEF BlockForChild, Location
<1>10. CASE waitq_sleep_enqueue
  BY <1>10 DEF waitq_sleep_enqueue, CreatorInv
<1>11. CASE waitq_sleep_return
  BY <1>11 DEF waitq_sleep_return, CreatorInv
<1>12. CASE waitq_wake_all
  <2>1. \A i \in Slot : /\ procs'[i].parent_pid = procs[i].parent_pid
                        /\ procs[i].state # "UNUSED" => procs'[i].state # "UNUSED"
    BY <1>12 DEF waitq_wake_all, Process
  <2>2. creator' = creator
    BY <1>12 DEF waitq_wake_all
  <2> QED BY <2>1, <2>2 DEF CreatorInv
<1>13. CASE UNCHANGED vars
  BY <1>13 DEF vars, CreatorInv
<1> QED
  BY <1>1, <1>2, <1>3, <1>4, <1>5, <1>8, <1>9, <1>10, <1>11, <1>12, <1>13 DEF Next, Running

(* A child whose creator still exists is a child of it and of nobody else: *)
(* only orphans can be taken over under a reused pid.                      *)
THEOREM OnlyOrphansAreAdopted == Spec => []StrangersAreOrphans
<1>1. Init => CreatorInv
  BY DEF Init, CreatorInv
<1>2. IInv /\ CreatorInv => StrangersAreOrphans
  <2> SUFFICES ASSUME IInv, CreatorInv, NEW p \in Slot, NEW c \in Slot,
                      procs[p].state # "UNUSED", procs[c].state # "UNUSED",
                      procs[c].parent_pid = procs[p].pid, creator[c] # NoSlot
               PROVE  creator[c] = p
    BY DEF StrangersAreOrphans
  <2>1. procs[p].pid = p + 1 /\ procs[c].parent_pid = creator[c] + 1 /\ creator[c] \in Slot
    BY IInvFacts DEF CreatorInv
  <2> QED BY <2>1 DEF Slot
<1> QED BY <1>1, <1>2, Invariance, NextCreator, PTL DEF Spec

----------------------------------------------------------------------------
(* The block driver and its callers.                                       *)

(* The locals of a call in progress, and where it can be.                  *)
InCall(k) == "op" \in DOMAIN k /\ "step" \in DOMAIN k /\ k.op \in {"mount", "read"}

ReadStep == {"super", "gd", "inode", "leaf", "data"}

(* Who owns which slot: I are the slots in use, D those with an answer, A, *)
(* T and U those in the available ring, at the device, and in the used     *)
(* ring; lp, ix, rq and ds are loop, slot_idx, request and desc.           *)
Owned(I, D, lp, ix, rq, ds, A, T, U) ==
  /\ \A i \in BlkSlot : i \in I <=> \E c \in Caller : lp[c] = "answer" /\ ix[c] = i
  /\ \A c, d \in Caller : c # d /\ lp[c] = "answer" /\ lp[d] = "answer" => ix[c] # ix[d]
  /\ A \cap T = {} /\ A \cap U = {} /\ T \cap U = {}
  /\ \A i \in A \cup T \cup U :
       /\ i \in I /\ i \notin D
       /\ \E c \in Caller : lp[c] = "answer" /\ ix[c] = i /\ rq[c] = ds[i]

InUse == {i \in BlkSlot : blk_slots[i].in_use}
Done == {i \in BlkSlot : blk_slots[i].done}

SlotRecord == [in_use : BOOLEAN, done : BOOLEAN, status : {"none", "ok", "error"}]

BlkTypeOK ==
  /\ blk_slots \in [BlkSlot -> SlotRecord]
  /\ desc = [i \in BlkSlot |-> desc[i]]
  /\ avail \in Seq(BlkSlot) /\ taken \in SUBSET BlkSlot /\ used \in Seq(BlkSlot)
  /\ loop \in [Caller -> {"none", "slot", "answer"}]
  /\ slot_idx \in [Caller -> BlkSlot]
  /\ request = [c \in Caller |-> request[c]]
  /\ call = [c \in Caller |-> call[c]]

StorageInv ==
  /\ BlkTypeOK
  /\ \A c \in Caller : loop[c] # "none" => InCall(call[c]) /\ call[c].step \in ReadStep
  /\ Owned(InUse, Done, loop, slot_idx, request, desc, Range(avail), taken, Range(used))
  /\ IsInjective(avail) /\ IsInjective(used)

----------------------------------------------------------------------------
(* Numbers and sequences.                                                  *)

LEMMA MinFacts ==
  ASSUME NEW S, S \subseteq Nat, S # {}
  PROVE  Min(S) \in S
<1>1. IsWellFoundedOn(OpToRel(<, Nat), Nat)
  BY NatLessThanWellFounded, Zenon
<1> DEFINE R == OpToRel(<, Nat)
<1>2. \A x, y \in Nat : x < y => <<x, y>> \in R
  BY DEF OpToRel
<1> HIDE DEF R
<1>3. PICK x \in S : \A y \in S : ~ (<<y, x>> \in R)
  BY <1>1, WFMin, Zenon DEF R
<1>4. ASSUME NEW y \in S PROVE x =< y
  <2>1. x \in Nat /\ y \in Nat /\ ~ (<<y, x>> \in R)
    BY <1>3
  <2>2. ~ (y < x)
    BY <1>2, <2>1
  <2> QED BY <2>2
<1> QED BY <1>4, Zenon DEF Min

LEMMA EmptyRing == Range(<<>>) = {} /\ IsInjective(<<>>) /\ <<>> \in Seq(BlkSlot)
BY DEF Range, IsInjective

LEMMA AppendRing ==
  ASSUME NEW s \in Seq(BlkSlot), NEW x \in BlkSlot, x \notin Range(s), IsInjective(s)
  PROVE  /\ Append(s, x) \in Seq(BlkSlot) /\ Range(Append(s, x)) = Range(s) \cup {x}
         /\ IsInjective(Append(s, x))
<1> DEFINE t == Append(s, x)
<1>1. /\ t \in Seq(BlkSlot) /\ Len(t) = Len(s) + 1 /\ t[Len(s) + 1] = x
      /\ \A i \in 1 .. Len(s) : t[i] = s[i]
  OBVIOUS
<1> HIDE DEF t
<1>6. \A i \in DOMAIN s : s[i] # x
  BY DEF Range
<1>7. Range(t) = Range(s) \cup {x}
  BY <1>1 DEF Range
<1>8. IsInjective(t)
  BY <1>1, <1>6 DEF IsInjective
<1> QED BY <1>7, <1>8 DEF t

LEMMA TailRing ==
  ASSUME NEW s \in Seq(BlkSlot), s # <<>>, IsInjective(s)
  PROVE  /\ Tail(s) \in Seq(BlkSlot) /\ IsInjective(Tail(s))
         /\ Head(s) \in Range(s) /\ Range(Tail(s)) = Range(s) \ {Head(s)}
<1> DEFINE t == Tail(s)
<1>1. t \in Seq(BlkSlot) /\ Len(t) = Len(s) - 1 /\ Head(s) = s[1] /\ Len(s) \in Nat /\ Len(s) > 0
  OBVIOUS
<1>2. \A i \in 1 .. Len(t) : t[i] = s[i + 1]
  OBVIOUS
<1> HIDE DEF t
<1>4. \A i \in DOMAIN t : i \in Nat /\ i + 1 \in DOMAIN s /\ t[i] = s[i + 1] /\ i + 1 # 1
  BY <1>1, <1>2
<1>5. \A i \in DOMAIN s : i # 1 => i - 1 \in DOMAIN t /\ t[i - 1] = s[i]
  BY <1>1, <1>2
<1>7. \A i \in DOMAIN s : s[i] = s[1] => i = 1
  BY DEF IsInjective
<1>8. IsInjective(t)
  <2> SUFFICES ASSUME NEW i \in DOMAIN t, NEW j \in DOMAIN t, t[i] = t[j] PROVE i = j
    BY DEF IsInjective
  <2>1. i + 1 = j + 1
    BY <1>4 DEF IsInjective
  <2> QED BY <2>1
<1>9. Range(t) = Range(s) \ {s[1]}
  <2>1. \A i \in DOMAIN t : t[i] \in Range(s) /\ t[i] # s[1]
    BY <1>4, <1>7 DEF Range
  <2>2. \A i \in DOMAIN s : s[i] # s[1] => s[i] \in Range(t)
    BY <1>5 DEF Range
  <2> QED BY <2>1, <2>2 DEF Range
<1>10. s[1] \in Range(s)
  BY DEF Range
<1> QED BY <1>8, <1>9, <1>10 DEF t

----------------------------------------------------------------------------
(* The locals of a call: whatever the disk holds, the next step is to read *)
(* another block, or the end.                                              *)

Ready(k) == InCall(k) /\ k.step \in ReadStep \cup {"end"}

LEMMA EndReady ==
  ASSUME NEW k, InCall(k), NEW n
  PROVE  Ready(End(k, n))
BY DEF InCall, Ready, End, ReadStep

LEMMA ReadBlockReady ==
  ASSUME NEW k, InCall(k), NEW step \in ReadStep, NEW block
  PROVE  Ready(read_block(k, step, block))
BY DEF InCall, Ready, read_block, ReadStep

LEMMA NoSuchInodeReady ==
  ASSUME NEW k, InCall(k)
  PROVE  Ready(NoSuchInode(k))
BY EndReady DEF NoSuchInode

LEMMA ReadInodeReady ==
  ASSUME NEW k, InCall(k)
  PROVE  Ready(read_inode(k))
BY NoSuchInodeReady, ReadBlockReady DEF read_inode, load_group_desc, ReadStep

LEMMA FindStep ==
  ASSUME NEW k
  PROVE  extent_find_physical(k).step \in ReadStep
BY DEF extent_find_physical, ReadStep

LEMMA ScanReady ==
  ASSUME NEW k, InCall(k), NEW off
  PROVE  Ready(scan_root_dir(k, off))
<1> DEFINE next == Chunks(k, off, SECTORS)
<1>1. InCall(next)
  BY DEF Chunks, InCall
<1> HIDE DEF next
<1>2. extent_find_physical(next).step \in ReadStep
  BY FindStep
<1>3. Ready(read_block(next, extent_find_physical(next).step, extent_find_physical(next).block))
  BY <1>1, <1>2, ReadBlockReady
<1>4. Ready(End(k, 0))
  BY EndReady
<1> QED BY <1>3, <1>4 DEF scan_root_dir, next

LEMMA ReturnReady ==
  ASSUME NEW k, InCall(k)
  PROVE  Ready(Return(k))
<1>1. InCall(AddFiles(k))
  BY DEF AddFiles, InCall
<1>2. Ready(scan_root_dir(AddFiles(k), k.off + SECTORS))
  BY <1>1, ScanReady
<1> QED BY <1>2, EndReady DEF Return

(* Where Step leaves a call: at "loop", inode_read_data goes on.           *)
Stepped(k) == InCall(k) /\ k.step \in ReadStep \cup {"end", "loop"}

LEMMA ReadyIsStepped == \A k : Ready(k) => Stepped(k)
BY DEF Ready, Stepped

LEMMA InodeReadDataReady ==
  ASSUME NEW k, Stepped(k)
  PROVE  Ready(inode_read_data(k))
<1>1. InCall(k) /\ (k.step # "loop" => Ready(k))
  BY DEF Stepped, Ready
<1>2. Ready(Return(k))
  BY <1>1, ReturnReady
<1>3. Ready(read_block(k, extent_find_physical(k).step, extent_find_physical(k).block))
  BY <1>1, FindStep, ReadBlockReady
<1> QED BY <1>1, <1>2, <1>3 DEF inode_read_data

LEMMA AfterStepped ==
  ASSUME NEW k, InCall(k), k.step \in ReadStep
  PROVE  Stepped(After(k))
<1>1. Stepped(AfterSuper(k))
  <2>1. InCall([k EXCEPT !.inum = ROOT_INODE])
    BY DEF InCall
  <2>2. Ready(read_inode([k EXCEPT !.inum = ROOT_INODE]))
    BY <2>1, ReadInodeReady
  <2>3. Ready(End(k, At("sbraw", 0).super))
    BY EndReady
  <2> QED BY <2>2, <2>3, ReadyIsStepped DEF AfterSuper
<1>2. Stepped(AfterGroupDesc(k))
  BY NoSuchInodeReady, ReadBlockReady, ReadyIsStepped DEF AfterGroupDesc, ReadStep
<1>3. Stepped(AfterInode(k))
  <2> DEFINE ino == At("block_buf", InodeSector(k) % SECTORS).inodes[1 + (Local(k) % InodesPerSector)]
             with == [k EXCEPT !.ino = ino]
             chunks == Chunks(with, k.off, k.len)
  <2> HIDE DEF ino
  <2>1. InCall(with)
    BY DEF InCall
  <2> HIDE DEF with
  <2>2. InCall(chunks)
    BY <2>1 DEF Chunks, InCall
  <2> HIDE DEF chunks
  <2>3. Stepped([chunks EXCEPT !.step = "loop"])
    BY <2>2 DEF Stepped, InCall
  <2>4. Stepped(NoSuchInode(k)) /\ Stepped(scan_root_dir(with, 0)) /\ Stepped(End(k, 0 - 1)) /\ Stepped(End(k, 0))
    BY <2>1, NoSuchInodeReady, ScanReady, EndReady, ReadyIsStepped
  <2> QED BY <2>3, <2>4 DEF AfterInode, chunks, with, ino
<1>4. Stepped(AfterLeaf(k))
  BY ReturnReady, ReadBlockReady, ReadyIsStepped DEF AfterLeaf, ReadStep
<1>5. Stepped(AfterData(k))
  BY DEF AfterData, Stepped, InCall
<1> QED BY <1>1, <1>2, <1>3, <1>4, <1>5 DEF After, ReadStep

LEMMA StepReady ==
  ASSUME NEW k, InCall(k), k.step \in ReadStep, NEW ok \in BOOLEAN
  PROVE  Ready(inode_read_data(Step(k, ok)))
<1>1. Stepped(AfterError(k))
  <2> DEFINE f == [k EXCEPT !.failed = TRUE]
  <2>1. InCall(f)
    BY DEF InCall
  <2> HIDE DEF f
  <2>2. /\ Stepped(End(f, IF k.part = 0 THEN 0 - 11 ELSE 0 - 12))
        /\ Stepped(NoSuchInode(f)) /\ Stepped(Return(f))
    BY <2>1, EndReady, NoSuchInodeReady, ReturnReady, ReadyIsStepped
  <2> QED BY <2>2 DEF AfterError, ReadStep, f
<1>2. Stepped([k EXCEPT !.part = @ + 1])
  BY DEF Stepped, InCall
<1>3. Stepped(Step(k, ok))
  BY <1>1, <1>2, AfterStepped DEF Step
<1> QED BY <1>3, InodeReadDataReady

----------------------------------------------------------------------------
(* Slots.                                                                  *)

LEMMA SlotFacts == BlkSlot \subseteq Nat /\ 0 \in BlkSlot
BY VirtioBlkAssumption DEF BlkSlot

LEMMA RingsInSlots ==
  ASSUME StorageInv
  PROVE  /\ Range(avail) \subseteq BlkSlot /\ Range(used) \subseteq BlkSlot /\ taken \subseteq BlkSlot
         /\ Range(used) \subseteq InUse
<1>1. avail \in Seq(BlkSlot) /\ used \in Seq(BlkSlot) /\ taken \subseteq BlkSlot
  BY DEF StorageInv, BlkTypeOK
<1>2. Range(avail) \subseteq BlkSlot /\ Range(used) \subseteq BlkSlot
  BY <1>1 DEF Range
<1> QED BY <1>1, <1>2 DEF StorageInv, Owned

(* The used ring is worked off: its slots have their answer.               *)
LEMMA ProcessUsed ==
  ASSUME StorageInv
  PROVE  LET s == blk_process_used_locked
         IN  /\ s \in [BlkSlot -> SlotRecord]
             /\ {i \in BlkSlot : s[i].in_use} = InUse
             /\ {i \in BlkSlot : s[i].done} = Done \cup Range(used)
<1> DEFINE s == blk_process_used_locked
<1>1. blk_slots \in [BlkSlot -> SlotRecord]
  BY DEF StorageInv, BlkTypeOK
<1>2. ASSUME NEW i \in BlkSlot
      PROVE  /\ s[i] \in SlotRecord /\ s[i].in_use = blk_slots[i].in_use
             /\ i \in Range(used) => s[i].done = TRUE
             /\ i \notin Range(used) => s[i].done = blk_slots[i].done
  <2>1. blk_slots[i] \in SlotRecord
    BY <1>1
  <2>2. i \in Range(used) => blk_slots[i].in_use
    BY RingsInSlots DEF InUse
  <2>3. s[i] = IF i \in Range(used) /\ blk_slots[i].in_use
               THEN [blk_slots[i] EXCEPT !.done = TRUE] ELSE blk_slots[i]
    BY DEF blk_process_used_locked
  <2> HIDE DEF s
  <2>4. CASE i \in Range(used)
    <3>1. s[i] = [blk_slots[i] EXCEPT !.done = TRUE]
      BY <2>2, <2>3, <2>4
    <3> QED BY <2>1, <2>4, <3>1, Zenon DEF SlotRecord
  <2>5. CASE i \notin Range(used)
    BY <2>1, <2>3, <2>5
  <2> QED BY <2>4, <2>5, Zenon
<1>3. s \in [BlkSlot -> SlotRecord]
  <2>1. s = [i \in BlkSlot |-> s[i]]
    BY DEF blk_process_used_locked
  <2> HIDE DEF s
  <2> QED BY <1>2, <2>1, Zenon
<1> HIDE DEF s
<1>4. {i \in BlkSlot : s[i].in_use} = InUse
  BY <1>2, Zenon DEF InUse
<1>5. {i \in BlkSlot : s[i].done} = Done \cup Range(used)
  BY <1>2, RingsInSlots, Zenon DEF Done
<1> QED BY <1>3, <1>4, <1>5 DEF s

LEMMA OwnedAfterProcessing ==
  ASSUME StorageInv
  PROVE  Owned(InUse, Done \cup Range(used), loop, slot_idx, request, desc, Range(avail), taken, {})
<1> DEFINE A == Range(avail)
           U == Range(used)
<1> HIDE DEF A, U
<1>1. Owned(InUse, Done, loop, slot_idx, request, desc, A, taken, U)
  BY DEF StorageInv, A, U
<1>2. Owned(InUse, Done \cup U, loop, slot_idx, request, desc, A, taken, {})
  BY <1>1 DEF Owned
<1> QED BY <1>2 DEF A, U

(* What the slots are when one of them is overwritten.                     *)
LEMMA SlotWrite ==
  ASSUME NEW s \in [BlkSlot -> SlotRecord], NEW i \in BlkSlot, NEW r \in SlotRecord
  PROVE  LET t == [s EXCEPT ![i] = r]
         IN  /\ t \in [BlkSlot -> SlotRecord]
             /\ {j \in BlkSlot : t[j].in_use} = {j \in BlkSlot : IF j = i THEN r.in_use ELSE s[j].in_use}
             /\ {j \in BlkSlot : t[j].done} = {j \in BlkSlot : IF j = i THEN r.done ELSE s[j].done}
OBVIOUS

(* A slot is found: the request of c is in the available ring.             *)
LEMMA OwnedSubmit ==
  ASSUME NEW I, NEW D, NEW A, NEW T, NEW ds, ds = [j \in BlkSlot |-> ds[j]],
         Owned(I, D, loop, slot_idx, request, ds, A, T, {}),
         A \subseteq BlkSlot, T \subseteq BlkSlot,
         NEW c \in Caller, loop[c] = "slot", NEW i \in BlkSlot, i \notin I,
         loop \in [Caller -> {"none", "slot", "answer"}], slot_idx \in [Caller -> BlkSlot]
  PROVE  /\ i \notin A
         /\ Owned(I \cup {i}, D \ {i}, [loop EXCEPT ![c] = "answer"], [slot_idx EXCEPT ![c] = i],
                  request, [ds EXCEPT ![i] = request[c]], A \cup {i}, T, {})
<1> DEFINE lp == [loop EXCEPT ![c] = "answer"]
           ix == [slot_idx EXCEPT ![c] = i]
           new == [ds EXCEPT ![i] = request[c]]
<1>1. /\ lp[c] = "answer" /\ ix[c] = i /\ new[i] = request[c]
      /\ \A d \in Caller : d # c => lp[d] = loop[d] /\ ix[d] = slot_idx[d]
      /\ \A j \in BlkSlot : j # i => new[j] = ds[j]
  OBVIOUS
<1> HIDE DEF lp, ix, new
<1>2. i \notin A /\ i \notin T
  BY DEF Owned
<1>4. \A j \in BlkSlot : j \in I \cup {i} <=> \E d \in Caller : lp[d] = "answer" /\ ix[d] = j
  <2> QED BY <1>1 DEF Owned
<1>5. \A d, e \in Caller : d # e /\ lp[d] = "answer" /\ lp[e] = "answer" => ix[d] # ix[e]
  BY <1>1 DEF Owned
<1>6. ASSUME NEW j \in (A \cup {i}) \cup T
      PROVE  /\ j \in I \cup {i} /\ j \notin D \ {i}
             /\ \E d \in Caller : lp[d] = "answer" /\ ix[d] = j /\ request[d] = new[j]
  <2>1. CASE j = i
    BY <1>1, <2>1
  <2>2. CASE j # i
    <3>1. j \in BlkSlot /\ j \in I /\ j \notin D
      BY <2>2 DEF Owned
    <3>2. PICK d \in Caller : loop[d] = "answer" /\ slot_idx[d] = j /\ request[d] = ds[j]
      BY <2>2 DEF Owned
    <3>3. lp[d] = "answer" /\ ix[d] = j /\ request[d] = new[j]
      BY <1>1, <3>1, <3>2
    <3> QED BY <3>1, <3>3
  <2> QED BY <2>1, <2>2
<1>8. Owned(I \cup {i}, D \ {i}, lp, ix, request, new, A \cup {i}, T, {})
  BY <1>4, <1>5, <1>6 DEF Owned
<1> QED BY <1>2, <1>8 DEF lp, ix, new

(* c takes the answer from its slot and goes on with another loop or none, *)
(* and another request.                                                    *)
LEMMA OwnedReturn ==
  ASSUME NEW I, NEW D, NEW A, NEW T,
         Owned(I, D, loop, slot_idx, request, desc, A, T, {}),
         A \subseteq BlkSlot, T \subseteq BlkSlot,
         NEW c \in Caller, loop[c] = "answer", slot_idx[c] \in D,
         loop \in [Caller -> {"none", "slot", "answer"}], slot_idx \in [Caller -> BlkSlot],
         request = [d \in Caller |-> request[d]], NEW l \in {"none", "slot"}, NEW r
  PROVE  Owned(I \ {slot_idx[c]}, D \ {slot_idx[c]}, [loop EXCEPT ![c] = l], slot_idx,
               [request EXCEPT ![c] = r], desc, A, T, {})
<1> DEFINE i == slot_idx[c]
           lp == [loop EXCEPT ![c] = l]
           rq == [request EXCEPT ![c] = r]
<1>1. /\ lp[c] = l /\ l # "answer"
      /\ \A d \in Caller : d # c => lp[d] = loop[d] /\ rq[d] = request[d]
  OBVIOUS
<1> HIDE DEF lp, rq
<1>3. \A j \in BlkSlot : j \in I \ {i} <=> \E d \in Caller : lp[d] = "answer" /\ slot_idx[d] = j
  BY <1>1 DEF Owned
<1>4. \A d, e \in Caller : d # e /\ lp[d] = "answer" /\ lp[e] = "answer" => slot_idx[d] # slot_idx[e]
  BY <1>1 DEF Owned
<1>5. ASSUME NEW j \in A \cup T
      PROVE  /\ j \in I \ {i} /\ j \notin D \ {i}
             /\ \E d \in Caller : lp[d] = "answer" /\ slot_idx[d] = j /\ rq[d] = desc[j]
  <2>1. j # i /\ j \in I /\ j \notin D
    BY DEF Owned
  <2>2. PICK d \in Caller : loop[d] = "answer" /\ slot_idx[d] = j /\ request[d] = desc[j]
    BY DEF Owned
  <2> QED BY <1>1, <2>1, <2>2
<1>7. Owned(I \ {i}, D \ {i}, lp, slot_idx, rq, desc, A, T, {})
  BY <1>3, <1>4, <1>5 DEF Owned
<1> QED BY <1>7 DEF i, lp, rq

(* A caller outside blk_read gets another loop or request.                 *)
LEMMA OwnedIdle ==
  ASSUME NEW I, NEW D, NEW A, NEW T, NEW U,
         Owned(I, D, loop, slot_idx, request, desc, A, T, U),
         NEW c \in Caller, loop[c] # "answer",
         loop \in [Caller -> {"none", "slot", "answer"}],
         request = [d \in Caller |-> request[d]], NEW l \in {"none", "slot"}, NEW r
  PROVE  Owned(I, D, [loop EXCEPT ![c] = l], slot_idx, [request EXCEPT ![c] = r], desc, A, T, U)
<1> DEFINE lp == [loop EXCEPT ![c] = l]
           rq == [request EXCEPT ![c] = r]
<1>1. /\ lp[c] # "answer"
      /\ \A d \in Caller : d # c => lp[d] = loop[d] /\ rq[d] = request[d]
  OBVIOUS
<1> HIDE DEF lp, rq
<1>2. \A d \in Caller : (lp[d] = "answer" <=> loop[d] = "answer") /\ (lp[d] = "answer" => rq[d] = request[d])
  BY <1>1
<1>3. Owned(I, D, lp, slot_idx, rq, desc, A, T, U)
  BY <1>2 DEF Owned
<1> QED BY <1>3 DEF lp, rq

----------------------------------------------------------------------------
(* The steps.                                                              *)

CallsAreReady == \A c \in Caller : loop[c] # "none" => InCall(call[c]) /\ call[c].step \in ReadStep

LEMMA StorageFacts ==
  ASSUME StorageInv
  PROVE  /\ BlkTypeOK /\ CallsAreReady
         /\ Owned(InUse, Done, loop, slot_idx, request, desc, Range(avail), taken, Range(used))
         /\ IsInjective(avail) /\ IsInjective(used)
BY DEF StorageInv, CallsAreReady

LEMMA StorageInit == Ext4Init => StorageInv
<1> SUFFICES ASSUME Ext4Init PROVE StorageInv
  OBVIOUS
<1>1. blk_slots = [i \in BlkSlot |-> FreeSlot] /\ FreeSlot \in SlotRecord
  BY DEF Ext4Init, BlkInit, FreeSlot, SlotRecord
<1>2. InUse = {} /\ Done = {}
  BY <1>1 DEF InUse, Done, FreeSlot
<1>3. avail = <<>> /\ used = <<>> /\ taken = {} /\ loop = [c \in Caller |-> "none"]
  BY DEF Ext4Init, BlkInit
<1>4. BlkTypeOK
  <2>1. slot_idx \in [Caller -> BlkSlot]
    BY SlotFacts DEF Ext4Init, BlkInit
  <2> QED BY <1>1, <2>1 DEF Ext4Init, BlkInit, BlkTypeOK
<1>5. Owned({}, {}, loop, slot_idx, request, desc, {}, {}, {})
  BY <1>3 DEF Owned
<1> QED BY <1>2, <1>3, <1>4, <1>5, EmptyRing, Zenon DEF StorageInv

(* c goes on with the locals k.                                            *)
LEMMA ContinueFacts ==
  ASSUME BlkTypeOK, NEW c \in Caller, NEW k, Ready(k), NEW runs, NEW calls,
         calls = [d \in Caller |-> calls[d]],
         \A d \in Caller : d # c /\ loop[d] # "none" => InCall(calls[d]) /\ calls[d].step \in ReadStep,
         Continue(c, k, runs, calls)
  PROVE  /\ CallsAreReady' /\ call' = [d \in Caller |-> call'[d]]
         /\ \E l \in {"none", "slot"} : loop' = [loop EXCEPT ![c] = l]
         /\ \E r : request' = [request EXCEPT ![c] = r]
         /\ loop' \in [Caller -> {"none", "slot", "answer"}]
         /\ request' = [d \in Caller |-> request'[d]]
<1> DEFINE l == IF k.step = "end" THEN "none" ELSE "slot"
<1>1. call' = [calls EXCEPT ![c] = k] /\ loop' = [loop EXCEPT ![c] = l]
  BY DEF Continue
<1>2. \E r : request' = [request EXCEPT ![c] = r]
  BY Zenon DEF Continue
<1>3. /\ l \in {"none", "slot"} /\ (l # "none" => k.step \in ReadStep) /\ InCall(k)
  BY DEF Ready
<1> HIDE DEF l
<1>4. loop \in [Caller -> {"none", "slot", "answer"}] /\ request = [d \in Caller |-> request[d]]
  BY DEF BlkTypeOK
<1>5. loop' \in [Caller -> {"none", "slot", "answer"}] /\ request' = [d \in Caller |-> request'[d]]
  BY <1>1, <1>2, <1>3, <1>4
<1>7. /\ call'[c] = k /\ loop'[c] = l
      /\ \A d \in Caller : d # c => call'[d] = calls[d] /\ loop'[d] = loop[d]
  BY <1>1, <1>4
<1>8. CallsAreReady'
  BY <1>3, <1>7 DEF CallsAreReady
<1> QED BY <1>1, <1>2, <1>3, <1>5, <1>8, Zenon

LEMMA SlotStep ==
  ASSUME StorageInv, NEW c \in Caller, blk_read_slot(c), FsUnchanged
  PROVE  StorageInv'
<1> DEFINE slots == blk_process_used_locked
           free == {j \in BlkSlot : ~slots[j].in_use}
           i == Min(free)
           D == Done \cup Range(used)
<1>1. /\ slots \in [BlkSlot -> SlotRecord] /\ {j \in BlkSlot : slots[j].in_use} = InUse
      /\ {j \in BlkSlot : slots[j].done} = D
  BY ProcessUsed
<1>2. Owned(InUse, D, loop, slot_idx, request, desc, Range(avail), taken, {})
  BY OwnedAfterProcessing
<1>3. loop[c] = "slot" /\ used' = <<>> /\ UNCHANGED <<taken, request, call>>
  BY DEF blk_read_slot, FsUnchanged
<1>4. /\ BlkTypeOK /\ CallsAreReady /\ IsInjective(avail)
      /\ Range(avail) \subseteq BlkSlot /\ taken \subseteq BlkSlot
  BY StorageFacts, RingsInSlots
<1>5. CASE free = {}
  <2>1. blk_slots' = slots /\ UNCHANGED <<desc, avail, loop, slot_idx>>
    BY <1>5 DEF blk_read_slot
  <2> HIDE DEF slots, D
  <2>2. InUse' = InUse /\ Done' = D
    BY <1>1, <2>1 DEF InUse, Done
  <2>3. BlkTypeOK'
    BY <1>1, <1>3, <1>4, <2>1 DEF BlkTypeOK
  <2>4. Range(used') = {} /\ IsInjective(used')
    BY <1>3, EmptyRing
  <2> QED BY <1>2, <1>3, <2>1, <2>2, <2>3, <2>4, Zenon DEF StorageInv, CallsAreReady
<1>6. CASE free # {}
  <2> DEFINE r == [in_use |-> TRUE, done |-> FALSE, status |-> "none"]
  <2>1. /\ blk_slots' = [slots EXCEPT ![i] = r] /\ avail' = Append(avail, i)
        /\ loop' = [loop EXCEPT ![c] = "answer"] /\ slot_idx' = [slot_idx EXCEPT ![c] = i]
        /\ desc' = [desc EXCEPT ![i] = request[c]]
    BY <1>6 DEF blk_read_slot
  <2>2. i \in free
    BY <1>6, MinFacts, SlotFacts, Zenon
  <2>3. i \in BlkSlot /\ i \notin InUse /\ r \in SlotRecord /\ r.in_use = TRUE /\ r.done = FALSE
    BY <1>1, <2>2 DEF SlotRecord
  <2> HIDE DEF slots, free, i, D, r
  <2>4. /\ blk_slots' \in [BlkSlot -> SlotRecord] /\ InUse' = InUse \cup {i} /\ Done' = D \ {i}
    BY <1>1, <2>1, <2>3 DEF InUse, Done
  <2>5. /\ loop \in [Caller -> {"none", "slot", "answer"}] /\ slot_idx \in [Caller -> BlkSlot]
        /\ desc = [j \in BlkSlot |-> desc[j]] /\ avail \in Seq(BlkSlot)
        /\ request = [d \in Caller |-> request[d]] /\ call = [d \in Caller |-> call[d]]
    BY <1>4 DEF BlkTypeOK
  <2>6. /\ i \notin Range(avail)
        /\ Owned(InUse', Done', loop', slot_idx', request, desc', Range(avail) \cup {i}, taken, {})
    <3>1. /\ i \notin Range(avail)
          /\ Owned(InUse \cup {i}, D \ {i}, [loop EXCEPT ![c] = "answer"], [slot_idx EXCEPT ![c] = i],
                   request, [desc EXCEPT ![i] = request[c]], Range(avail) \cup {i}, taken, {})
      <4> DEFINE A == Range(avail)
                 I == InUse
      <4>1. /\ Owned(I, D, loop, slot_idx, request, desc, A, taken, {})
            /\ A \subseteq BlkSlot /\ taken \subseteq BlkSlot /\ loop[c] = "slot"
            /\ i \in BlkSlot /\ i \notin I
        BY <1>2, <1>3, <1>4, <2>3
      <4> HIDE DEF A, I
      <4>2. /\ i \notin A
            /\ Owned(I \cup {i}, D \ {i}, [loop EXCEPT ![c] = "answer"], [slot_idx EXCEPT ![c] = i],
                     request, [desc EXCEPT ![i] = request[c]], A \cup {i}, taken, {})
        BY ONLY <4>1, <2>5, OwnedSubmit, Zenon
      <4> QED BY <4>2 DEF A, I
    <3> QED BY <3>1, <2>1, <2>4
  <2>7. avail' \in Seq(BlkSlot) /\ Range(avail') = Range(avail) \cup {i} /\ IsInjective(avail')
    BY <1>4, <2>1, <2>3, <2>5, <2>6, AppendRing
  <2>8. /\ loop' \in [Caller -> {"none", "slot", "answer"}] /\ slot_idx' \in [Caller -> BlkSlot]
        /\ desc' = [j \in BlkSlot |-> desc'[j]]
    BY <2>1, <2>3, <2>5, Zenon
  <2>9. BlkTypeOK'
    BY <1>3, <1>4, <2>4, <2>7, <2>8 DEF BlkTypeOK
  <2>10. CallsAreReady'
    <3>1. \A d \in Caller : loop'[d] # "none" => loop[d] # "none"
      BY <1>3, <2>1, <2>5, Zenon
    <3> QED BY <1>3, <1>4, <3>1, Zenon DEF CallsAreReady
  <2>11. Range(used') = {} /\ IsInjective(used')
    BY <1>3, EmptyRing
  <2> QED BY <1>3, <2>6, <2>7, <2>9, <2>10, <2>11, Zenon DEF StorageInv, CallsAreReady
<1> QED BY <1>5, <1>6

(* The used ring is worked off and nothing else of the slots changes.      *)
LEMMA ProcessStep ==
  ASSUME StorageInv, blk_slots' = blk_process_used_locked, used' = <<>>,
         UNCHANGED <<desc, avail, taken, loop, request, slot_idx, call>>
  PROVE  StorageInv'
<1> DEFINE slots == blk_process_used_locked
           D == Done \cup Range(used)
<1>1. /\ slots \in [BlkSlot -> SlotRecord] /\ {j \in BlkSlot : slots[j].in_use} = InUse
      /\ {j \in BlkSlot : slots[j].done} = D
  BY ProcessUsed
<1>2. Owned(InUse, D, loop, slot_idx, request, desc, Range(avail), taken, {})
  BY OwnedAfterProcessing
<1>3. BlkTypeOK /\ CallsAreReady /\ IsInjective(avail)
  BY StorageFacts
<1>4. blk_slots' = slots
  OBVIOUS
<1> HIDE DEF slots, D
<1>5. InUse' = InUse /\ Done' = D
  BY <1>1, <1>4 DEF InUse, Done
<1>6. BlkTypeOK'
  BY <1>1, <1>3, <1>4 DEF BlkTypeOK
<1>7. Range(used') = {} /\ IsInjective(used')
  BY EmptyRing
<1> QED BY <1>2, <1>5, <1>6, <1>7, Zenon DEF StorageInv, CallsAreReady

LEMMA ReaderSleeps ==
  ASSUME StorageInv, NEW c \in Caller, blk_read_sleep(c), FsUnchanged
  PROVE  StorageInv'
BY ProcessStep DEF blk_read_sleep, FsUnchanged

LEMMA IrqStep ==
  ASSUME StorageInv, blk_handle_irq, FsUnchanged
  PROVE  StorageInv'
BY ProcessStep DEF blk_handle_irq, FsUnchanged

(* blk_read returns: the slot is given back, and the call goes on.         *)
LEMMA ReturnStep ==
  ASSUME StorageInv, NEW c \in Caller, Reads(c)
  PROVE  StorageInv'
<1> DEFINE slots == blk_process_used_locked
           i == slot_idx[c]
           D == Done \cup Range(used)
           k == inode_read_data(Step(call[c], ReadOk(c)))
<1>1. /\ slots \in [BlkSlot -> SlotRecord] /\ {j \in BlkSlot : slots[j].in_use} = InUse
      /\ {j \in BlkSlot : slots[j].done} = D
  BY ProcessUsed
<1>2. Owned(InUse, D, loop, slot_idx, request, desc, Range(avail), taken, {})
  BY OwnedAfterProcessing
<1>3. /\ BlkTypeOK /\ CallsAreReady /\ IsInjective(avail)
      /\ Range(avail) \subseteq BlkSlot /\ taken \subseteq BlkSlot
  BY StorageFacts, RingsInSlots
<1>4. /\ loop[c] = "answer" /\ slots[i].done /\ used' = <<>>
      /\ blk_slots' = [slots EXCEPT ![i].done = FALSE, ![i].in_use = FALSE]
      /\ UNCHANGED <<desc, avail, taken, slot_idx>>
  BY DEF Reads, blk_read_return
<1>5. Continue(c, k, Woken, call)
  BY DEF Reads
<1>6. Ready(k)
  <2>1. InCall(call[c]) /\ call[c].step \in ReadStep
    BY <1>3, <1>4 DEF CallsAreReady
  <2>2. ReadOk(c) \in BOOLEAN
    BY DEF ReadOk
  <2> QED BY <2>1, <2>2, StepReady
<1>7. /\ loop \in [Caller -> {"none", "slot", "answer"}] /\ slot_idx \in [Caller -> BlkSlot]
      /\ request = [d \in Caller |-> request[d]] /\ call = [d \in Caller |-> call[d]]
  BY <1>3 DEF BlkTypeOK
<1>8. i \in BlkSlot /\ i \in D
  BY <1>1, <1>4, <1>7
<1> HIDE DEF slots, i, D, k
<1>9. /\ CallsAreReady' /\ call' = [d \in Caller |-> call'[d]]
      /\ \E l \in {"none", "slot"} : loop' = [loop EXCEPT ![c] = l]
      /\ \E r : request' = [request EXCEPT ![c] = r]
      /\ loop' \in [Caller -> {"none", "slot", "answer"}]
      /\ request' = [d \in Caller |-> request'[d]]
  BY <1>3, <1>5, <1>6, <1>7, ContinueFacts DEF CallsAreReady
<1>10. blk_slots' \in [BlkSlot -> SlotRecord] /\ InUse' = InUse \ {i} /\ Done' = D \ {i}
  <2> DEFINE q == [slots[i] EXCEPT !.done = FALSE]
             r == [q EXCEPT !.in_use = FALSE]
  <2>1. blk_slots' = [slots EXCEPT ![i] = r]
    BY <1>4, Zenon
  <2>2. slots[i] \in SlotRecord
    BY <1>1, <1>8
  <2>3. q \in SlotRecord /\ q.done = FALSE
    BY <2>2, Zenon DEF SlotRecord
  <2> HIDE DEF q
  <2>4. r \in SlotRecord /\ r.in_use = FALSE /\ r.done = FALSE
    BY <2>3, Zenon DEF SlotRecord
  <2> HIDE DEF r
  <2> QED BY <1>1, <2>1, <2>4, Zenon DEF InUse, Done
<1>11. Owned(InUse', Done', loop', slot_idx, request', desc, Range(avail), taken, {})
  <2>1. PICK l \in {"none", "slot"} : loop' = [loop EXCEPT ![c] = l]
    BY <1>9, Zenon
  <2>2. PICK r : request' = [request EXCEPT ![c] = r]
    BY <1>9, Zenon
  <2>3. Owned(InUse \ {i}, D \ {i}, [loop EXCEPT ![c] = l], slot_idx, [request EXCEPT ![c] = r],
              desc, Range(avail), taken, {})
    <3> DEFINE A == Range(avail)
               I == InUse
    <3>1. /\ Owned(I, D, loop, slot_idx, request, desc, A, taken, {})
          /\ A \subseteq BlkSlot /\ taken \subseteq BlkSlot /\ loop[c] = "answer"
          /\ slot_idx[c] \in D
      BY <1>2, <1>3, <1>4, <1>8 DEF i
    <3> HIDE DEF A, I
    <3>2. Owned(I \ {slot_idx[c]}, D \ {slot_idx[c]}, [loop EXCEPT ![c] = l], slot_idx,
                [request EXCEPT ![c] = r], desc, A, taken, {})
      BY ONLY <3>1, <1>7, OwnedReturn, Zenon
    <3> QED BY <3>2, Zenon DEF A, I, i
  <2> QED BY <2>1, <2>2, <2>3, <1>10
<1>12. BlkTypeOK'
  BY <1>3, <1>4, <1>9, <1>10 DEF BlkTypeOK
<1>13. Range(used') = {} /\ IsInjective(used')
  BY <1>4, EmptyRing
<1> QED BY <1>4, <1>9, <1>11, <1>12, <1>13, Zenon DEF StorageInv, CallsAreReady

(* A caller that waits for no slot and no answer begins or ends a call.    *)
LEMMA IdleStep ==
  ASSUME StorageInv, NEW c \in Caller, loop[c] # "answer",
         UNCHANGED <<blk_slots, desc, avail, taken, used, slot_idx>>,
         CallsAreReady', call' = [d \in Caller |-> call'[d]],
         \E l \in {"none", "slot"} : loop' = [loop EXCEPT ![c] = l],
         \E r : request' = [request EXCEPT ![c] = r]
  PROVE  StorageInv'
<1>1. PICK l \in {"none", "slot"} : loop' = [loop EXCEPT ![c] = l]
  BY Zenon
<1>2. PICK r : request' = [request EXCEPT ![c] = r]
  BY Zenon
<1>3. /\ BlkTypeOK /\ IsInjective(avail) /\ IsInjective(used)
      /\ Owned(InUse, Done, loop, slot_idx, request, desc, Range(avail), taken, Range(used))
  BY StorageFacts
<1>4. /\ loop \in [Caller -> {"none", "slot", "answer"}] /\ request = [d \in Caller |-> request[d]]
  BY <1>3 DEF BlkTypeOK
<1>5. Owned(InUse, Done, loop', slot_idx, request', desc, Range(avail), taken, Range(used))
  <2> DEFINE A == Range(avail)
             U == Range(used)
             I == InUse
             D == Done
  <2>1. Owned(I, D, loop, slot_idx, request, desc, A, taken, U)
    BY <1>3
  <2> HIDE DEF A, U, I, D
  <2>2. Owned(I, D, [loop EXCEPT ![c] = l], slot_idx, [request EXCEPT ![c] = r], desc, A, taken, U)
    BY ONLY <2>1, <1>4, loop[c] # "answer", OwnedIdle, Zenon
  <2> QED BY <1>1, <1>2, <2>2, Zenon DEF A, U, I, D
<1>6. BlkTypeOK'
  <2> QED BY <1>3 DEF BlkTypeOK
<1>7. InUse' = InUse /\ Done' = Done
  BY DEF InUse, Done
<1> QED BY <1>5, <1>6, <1>7 DEF StorageInv, CallsAreReady

LEMMA ReadFileStep ==
  ASSUME StorageInv, NEW c \in Caller, NEW len, ext4_read_file(c, len)
  PROVE  StorageInv'
<1> DEFINE k == [NoCall EXCEPT !.op = "read", !.inum = root_files[fd[c].file].inode,
                               !.off = fd[c].offset, !.len = len, !.alone = (Busy = {})]
<1>1. BlkTypeOK /\ CallsAreReady
  BY StorageFacts
<1>2. loop[c] = "none"
  BY <1>1 DEF ext4_read_file, Begins, Busy, CallsAreReady, InCall
<1>3. /\ Continue(c, read_inode(k), run, Others(c))
      /\ UNCHANGED <<blk_slots, desc, avail, taken, used, slot_idx>>
  BY DEF ext4_read_file, rings
<1>4. InCall(k)
  BY DEF NoCall, InCall
<1> HIDE DEF k
<1>5. Ready(read_inode(k))
  BY <1>4, ReadInodeReady
<1>6. Others(c) = [d \in Caller |-> Others(c)[d]]
  BY DEF Others
<1>7. \A d \in Caller : d # c /\ loop[d] # "none" => InCall(Others(c)[d]) /\ Others(c)[d].step \in ReadStep
  <2> SUFFICES ASSUME NEW d \in Caller, loop[d] # "none"
               PROVE  InCall(Others(c)[d]) /\ Others(c)[d].step \in ReadStep
    OBVIOUS
  <2>1. InCall(call[d]) /\ call[d].step \in ReadStep
    BY <1>1 DEF CallsAreReady
  <2>2. Others(c)[d] = call[d] \/ Others(c)[d] = [call[d] EXCEPT !.alone = FALSE]
    BY DEF Others
  <2> QED BY <2>1, <2>2 DEF InCall
<1>8. /\ CallsAreReady' /\ call' = [d \in Caller |-> call'[d]]
      /\ \E l \in {"none", "slot"} : loop' = [loop EXCEPT ![c] = l]
      /\ \E r : request' = [request EXCEPT ![c] = r]
  BY <1>1, <1>3, <1>5, <1>6, <1>7, ContinueFacts
<1> QED BY <1>2, <1>3, <1>8, IdleStep, Zenon

(* A call returns to its caller.                                           *)
LEMMA ReturnsStep ==
  ASSUME StorageInv, NEW c \in Caller, call[c].step = "end", call' = [call EXCEPT ![c] = NoCall],
         UNCHANGED <<blk_slots, desc, avail, taken, used, slot_idx, loop, request>>
  PROVE  StorageInv'
<1>1. /\ BlkTypeOK /\ CallsAreReady
  BY StorageFacts
<1>2. loop[c] = "none"
  BY <1>1 DEF CallsAreReady, ReadStep
<1>3. /\ loop = [d \in Caller |-> loop[d]] /\ request = [d \in Caller |-> request[d]]
      /\ call = [d \in Caller |-> call[d]]
  BY <1>1 DEF BlkTypeOK
<1>4. loop' = [loop EXCEPT ![c] = "none"] /\ request' = [request EXCEPT ![c] = request[c]]
  BY <1>2, <1>3, Zenon
<1>5. CallsAreReady' /\ call' = [d \in Caller |-> call'[d]]
  BY <1>1, <1>2, <1>3 DEF CallsAreReady
<1> QED BY <1>2, <1>4, <1>5, IdleStep, Zenon

LEMMA MountStep ==
  ASSUME StorageInv, NEW c \in Caller, ext4_mount(c)
  PROVE  StorageInv'
<1> DEFINE k == [NoCall EXCEPT !.op = "mount"]
           next == read_block(k, "super", 2 \div SECTORS)
<1>1. BlkTypeOK /\ CallsAreReady
  BY StorageFacts
<1>2. /\ Busy = {} /\ blk_init /\ UNCHANGED slot_idx /\ Continue(c, next, run, call)
  BY DEF ext4_mount
<1>3. \A d \in Caller : loop[d] = "none"
  BY <1>1, <1>2 DEF Busy, CallsAreReady, InCall
<1>4. Ready(next)
  <2>1. InCall(k)
    BY DEF NoCall, InCall
  <2>2. "super" \in ReadStep
    BY DEF ReadStep
  <2> QED BY <2>1, <2>2, ReadBlockReady
<1> HIDE DEF k, next
<1>5. call = [d \in Caller |-> call[d]] /\ loop \in [Caller -> {"none", "slot", "answer"}]
  BY <1>1 DEF BlkTypeOK
<1>6. /\ CallsAreReady' /\ call' = [d \in Caller |-> call'[d]]
      /\ \E l \in {"none", "slot"} : loop' = [loop EXCEPT ![c] = l]
      /\ loop' \in [Caller -> {"none", "slot", "answer"}]
      /\ request' = [d \in Caller |-> request'[d]]
  BY <1>1, <1>2, <1>4, <1>5, ContinueFacts DEF CallsAreReady
<1>7. /\ blk_slots' = [i \in BlkSlot |-> FreeSlot] /\ desc' = [i \in BlkSlot |-> NoRequest]
      /\ avail' = <<>> /\ taken' = {} /\ used' = <<>>
  BY <1>2 DEF blk_init
<1>8. blk_slots' \in [BlkSlot -> SlotRecord] /\ InUse' = {} /\ Done' = {}
  BY <1>7 DEF InUse, Done, FreeSlot, SlotRecord
<1>9. BlkTypeOK'
  BY <1>1, <1>2, <1>6, <1>7, <1>8 DEF BlkTypeOK
<1>10. \A d \in Caller : loop'[d] # "answer"
  BY <1>3, <1>6
<1>11. Owned({}, {}, loop', slot_idx', request', desc', {}, {}, {})
  BY <1>10 DEF Owned
<1>12. /\ Range(avail') = {} /\ IsInjective(avail') /\ Range(used') = {} /\ IsInjective(used')
  BY <1>7, EmptyRing
<1> QED BY <1>6, <1>7, <1>8, <1>9, <1>11, <1>12, Zenon DEF StorageInv, CallsAreReady

(* The device takes the next request, and puts one it holds into the used  *)
(* ring.                                                                   *)
LEMMA OwnedTake ==
  ASSUME NEW I, NEW D, NEW lp, NEW ix, NEW rq, NEW ds, NEW A, NEW T, NEW U, NEW h \in A,
         Owned(I, D, lp, ix, rq, ds, A, T, U)
  PROVE  Owned(I, D, lp, ix, rq, ds, A \ {h}, T \cup {h}, U)
BY DEF Owned

LEMMA TakeStep ==
  ASSUME StorageInv, device_takes, FsUnchanged
  PROVE  StorageInv'
<1> DEFINE h == Head(avail)
<1>1. /\ BlkTypeOK /\ CallsAreReady /\ IsInjective(avail) /\ IsInjective(used)
      /\ Owned(InUse, Done, loop, slot_idx, request, desc, Range(avail), taken, Range(used))
      /\ Range(avail) \subseteq BlkSlot /\ taken \subseteq BlkSlot
  BY StorageFacts, RingsInSlots
<1>2. /\ avail # <<>> /\ taken' = taken \cup {h} /\ avail' = Tail(avail)
      /\ UNCHANGED <<blk_slots, desc, used, loop, request, slot_idx, call>>
  BY DEF device_takes, FsUnchanged
<1>3. avail \in Seq(BlkSlot)
  BY <1>1 DEF BlkTypeOK
<1>4. /\ avail' \in Seq(BlkSlot) /\ IsInjective(avail')
      /\ h \in Range(avail) /\ Range(avail') = Range(avail) \ {h}
  BY <1>1, <1>2, <1>3, TailRing
<1> HIDE DEF h
<1>5. Owned(InUse, Done, loop, slot_idx, request, desc, Range(avail'), taken', Range(used))
  <2>1. Owned(InUse, Done, loop, slot_idx, request, desc, Range(avail) \ {h}, taken \cup {h}, Range(used))
    BY <1>1, <1>4, OwnedTake
  <2> QED BY <1>2, <1>4, <2>1
<1>6. InUse' = InUse /\ Done' = Done
  BY <1>2 DEF InUse, Done
<1>7. BlkTypeOK'
  BY <1>1, <1>2, <1>4 DEF BlkTypeOK
<1> QED BY <1>2, <1>4, <1>5, <1>6, <1>7, Zenon DEF StorageInv, CallsAreReady

LEMMA CompleteStep ==
  ASSUME StorageInv, NEW i \in BlkSlot, NEW ok \in BOOLEAN, device_completes(i, ok), FsUnchanged
  PROVE  StorageInv'
<1> DEFINE s == IF ok THEN "ok" ELSE "error"
           r == [blk_slots[i] EXCEPT !.status = s]
<1>1. /\ BlkTypeOK /\ CallsAreReady /\ IsInjective(avail) /\ IsInjective(used)
      /\ Owned(InUse, Done, loop, slot_idx, request, desc, Range(avail), taken, Range(used))
  BY StorageFacts
<1>2. /\ i \in taken /\ taken' = taken \ {i} /\ used' = Append(used, i)
      /\ blk_slots' = [blk_slots EXCEPT ![i].status = s]
      /\ UNCHANGED <<desc, avail, loop, request, slot_idx, call>>
  BY DEF device_completes, FsUnchanged
<1>3. used \in Seq(BlkSlot) /\ blk_slots \in [BlkSlot -> SlotRecord]
  BY <1>1 DEF BlkTypeOK
<1>4. i \notin Range(used)
  BY <1>1, <1>2 DEF Owned
<1>5. used' \in Seq(BlkSlot) /\ Range(used') = Range(used) \cup {i} /\ IsInjective(used')
  BY <1>1, <1>2, <1>3, <1>4, AppendRing
<1>6. blk_slots' = [blk_slots EXCEPT ![i] = r]
  BY <1>2
<1>7. s \in {"none", "ok", "error"}
  OBVIOUS
<1> HIDE DEF s
<1>8. /\ r \in SlotRecord /\ r.in_use = blk_slots[i].in_use /\ r.done = blk_slots[i].done
  <2>1. blk_slots[i] \in SlotRecord
    BY <1>3
  <2> QED BY <2>1, <1>7 DEF SlotRecord
<1> HIDE DEF r
<1>9. blk_slots' \in [BlkSlot -> SlotRecord] /\ InUse' = InUse /\ Done' = Done
  BY <1>3, <1>6, <1>8 DEF InUse, Done
<1>10. Owned(InUse, Done, loop, slot_idx, request, desc, Range(avail), taken', Range(used'))
  BY <1>1, <1>2, <1>5 DEF Owned
<1>11. BlkTypeOK'
  BY <1>1, <1>2, <1>9 DEF BlkTypeOK
<1> QED BY <1>2, <1>5, <1>9, <1>10, <1>11 DEF StorageInv, CallsAreReady

LEMMA UnchangedStep ==
  ASSUME StorageInv, UNCHANGED <<blk_slots, desc, avail, taken, used, loop, request, slot_idx, call>>
  PROVE  StorageInv'
<1>1. InUse' = InUse /\ Done' = Done
  BY DEF InUse, Done
<1>2. BlkTypeOK'
  BY DEF StorageInv, BlkTypeOK
<1> QED BY <1>1, <1>2, Zenon DEF StorageInv

LEMMA StorageNext == StorageInv /\ [Ext4Next]_ext4_vars => StorageInv'
<1> SUFFICES ASSUME StorageInv, [Ext4Next]_ext4_vars PROVE StorageInv'
  OBVIOUS
<1>1. ASSUME NEW c \in Caller, InKernel(c) PROVE StorageInv'
  <2>1. CASE Reads(c)
    BY <2>1, ReturnStep
  <2>2. CASE ext4_mount_returns(c)
    BY <2>2, ReturnsStep, Zenon DEF ext4_mount_returns, rings
  <2>3. CASE fs_read_returns(c)
    BY <2>3, ReturnsStep, Zenon DEF fs_read_returns, rings
  <2>4. CASE blk_read_slot(c) /\ FsUnchanged
    BY <2>4, SlotStep
  <2>5. CASE blk_read_sleep(c) /\ FsUnchanged
    BY <2>5, ReaderSleeps
  <2> QED BY <1>1, <2>1, <2>2, <2>3, <2>4, <2>5 DEF InKernel
<1>2. ASSUME NEW c \in Caller, ext4_mount(c) PROVE StorageInv'
  BY <1>2, MountStep
<1>3. ASSUME NEW c \in Caller, NEW name \in DOMAIN Files, open_ext4_readonly(c, name) PROVE StorageInv'
  BY <1>3, UnchangedStep DEF open_ext4_readonly, blkVars, rings
<1>4. ASSUME NEW c \in Caller, NEW len \in Length, ext4_read_file(c, len) PROVE StorageInv'
  BY <1>4, ReadFileStep
<1>5. CASE blk_handle_irq /\ FsUnchanged
  BY <1>5, IrqStep
<1>6. CASE Device /\ FsUnchanged
  <2>1. CASE device_takes
    BY <1>6, <2>1, TakeStep
  <2>2. ASSUME NEW i \in BlkSlot, NEW ok \in BOOLEAN, device_completes(i, ok) PROVE StorageInv'
    BY <1>6, <2>2, CompleteStep
  <2>3. CASE device_notifies
    BY <1>6, <2>3, UnchangedStep DEF device_notifies, FsUnchanged
  <2> QED BY <1>6, <2>1, <2>2, <2>3 DEF Device
<1>7. CASE UNCHANGED ext4_vars
  BY <1>7, UnchangedStep DEF ext4_vars, blkVars, rings
<1> QED BY <1>1, <1>2, <1>3, <1>4, <1>5, <1>6, <1>7 DEF Ext4Next

(* The inductive invariant holds in every state, for every number of slots *)
(* and callers, every disk, and every order in which the device answers.   *)
THEOREM StorageInvariance == Ext4Spec => []StorageInv
BY StorageInit, StorageNext, PTL DEF Ext4Spec

(* A slot in use belongs to exactly one caller of blk_read, and whatever   *)
(* the device holds is the request of such a slot, once.                   *)
THEOREM SlotsStayOwned == Ext4Spec => []SlotsAreOwned
<1>1. StorageInv => SlotsAreOwned
  <2> SUFFICES ASSUME StorageInv PROVE SlotsAreOwned
    OBVIOUS
  <2>1. /\ IsInjective(avail) /\ IsInjective(used)
        /\ Owned(InUse, Done, loop, slot_idx, request, desc, Range(avail), taken, Range(used))
        /\ Range(avail) \subseteq BlkSlot /\ Range(used) \subseteq BlkSlot /\ taken \subseteq BlkSlot
    BY StorageFacts, RingsInSlots
  <2>2. \A i \in BlkSlot : (i \in InUse <=> blk_slots[i].in_use) /\ (i \in Done <=> blk_slots[i].done)
    BY DEF InUse, Done
  <2> HIDE DEF StorageInv
  <2> QED BY <2>1, <2>2, Zenon DEF Owned, SlotsAreOwned, SlotOf
<1> QED BY <1>1, StorageInvariance, PTL
=============================================================================
