------------------------------- MODULE Sched -------------------------------
(***************************************************************************)
(* The process table and the scheduler's decision (kernel/process/sched.c, *)
(* struct process in kernel/include/kernel/proc.h).                        *)
(*                                                                         *)
(* Everything here is a function of a process table P, so that a caller    *)
(* that first changes the table and then calls yield() is one step: the    *)
(* kernel is cooperative and nothing runs between the two.                 *)
(***************************************************************************)
EXTENDS Integers

CONSTANTS
  PROC_MAX,          \* number of slots of procs[]
  PROC_PRIORITY_DEF, \* priority of the user processes
  Status             \* exit statuses that are told apart

ASSUME SchedAssumption ==
  /\ PROC_MAX \in Nat \ {0}
  /\ PROC_PRIORITY_DEF \in Nat \ {0}
  /\ 0 \in Status

PROC_PRIORITY_MIN == 1

Slot == 0 .. PROC_MAX - 1
Pid  == 0 .. PROC_MAX    \* 0 is "no process"

State == {"UNUSED", "RUNNABLE", "BLOCKED", "ZOMBIE"}

(* The fields of struct process the scheduler, fork, exit and wait use.    *)
Process == [state : State, pid : Pid, parent_pid : Pid, is_user : BOOLEAN,
            priority : Nat, budget : Nat, exit_status : Status]

(* A slot after its memset to zero; PROC_UNUSED is 0.                      *)
mark_process_unused ==
  [state |-> "UNUSED", pid |-> 0, parent_pid |-> 0, is_user |-> FALSE,
   priority |-> 0, budget |-> 0, exit_status |-> 0]

init_process_common(pid, parent_pid, is_user, priority) ==
  [state |-> "RUNNABLE", pid |-> pid, parent_pid |-> parent_pid,
   is_user |-> is_user, priority |-> priority, budget |-> priority,
   exit_status |-> 0]

(* alloc_process_slot: the lowest unused slot; the empty set is NULL.      *)
alloc_process_slot(P) ==
  {i \in Slot : /\ P[i].state = "UNUSED"
                /\ \A j \in Slot : j < i => P[j].state # "UNUSED"}

----------------------------------------------------------------------------
(* Mutant: the state is not looked at.                                     *)
is_schedulable_any_state(proc) == proc.pid > 0

is_schedulable(proc) == proc.state = "RUNNABLE" /\ proc.pid > 0

is_eligible_for_pick(proc) == is_schedulable(proc) /\ proc.budget > 0

Eligible(P) == {i \in Slot : is_eligible_for_pick(P[i])}

(* How far slot i is in a scan that starts after slot start.               *)
ScanPos(start, i) == IF i > start THEN i - start ELSE i - start + PROC_MAX

(* The scan keeps the first slot with the largest budget; the empty set is *)
(* the -1 of a scan that meets no eligible slot.                           *)
pick_next_runnable_index(P, start) ==
  {i \in Eligible(P) :
     \A j \in Eligible(P) :
       \/ P[i].budget > P[j].budget
       \/ P[i].budget = P[j].budget /\ ScanPos(start, i) <= ScanPos(start, j)}

refill_budgets(P) ==
  [i \in Slot |->
     IF is_schedulable(P[i])
     THEN LET prio == IF P[i].priority < 1 THEN 1 ELSE P[i].priority
          IN  [P[i] EXCEPT !.priority = prio, !.budget = prio]
     ELSE P[i]]

(* Mutant: the caller's budget is not charged.                             *)
YieldTableNoCharge(P, cur) ==
  IF pick_next_runnable_index(P, cur) = {} THEN refill_budgets(P) ELSE P

(* yield() called by slot cur: the table it leaves, and the slot that runs *)
(* next in that table.  A process that is no longer RUNNABLE keeps its     *)
(* budget.                                                                 *)
YieldTable(P, cur) ==
  LET charged == IF is_eligible_for_pick(P[cur])
                 THEN [P EXCEPT ![cur].budget = @ - 1] ELSE P
  IN  IF pick_next_runnable_index(charged, cur) = {}
      THEN refill_budgets(charged) ELSE charged

YieldNext(table, cur, idle) ==
  LET next == pick_next_runnable_index(table, cur)
  IN  IF next = {} THEN {idle} ELSE next
=============================================================================
