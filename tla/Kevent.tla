------------------------------- MODULE Kevent -------------------------------
(***************************************************************************)
(* The kernel event queue (kernel/event/event.c): a ring of KEVENT_Q_CAP   *)
(* events that interrupt handlers push to and the shell and SYS_GET_EVENT  *)
(* pop from.  Each operation holds g_lock with interrupts off: one step.   *)
(***************************************************************************)
EXTENDS Integers, Sequences

CONSTANTS
  KEVENT_Q_CAP,  \* size of the ring; one entry is kept free
  Payload,       \* what an event carries (type, a, b, c, d)
  None,          \* what a consumer has before its first event
  MaxSeq         \* bound: how many events are ever pushed

ASSUME KeventAssumption ==
  /\ KEVENT_Q_CAP \in Nat \ {0, 1}
  /\ MaxSeq \in Nat
  /\ None \notin [payload : Payload, seq : Nat]

VARIABLES
  g_q,           \* the ring; an entry holds its last event when it is free
  g_head,        \* the oldest event
  g_tail,        \* the entry the next event goes to
  g_seq,         \* the number of the next event
  out,           \* the event the last successful kevent_pop returned
  rc             \* the last kevent_pop's result

keventVars == <<g_q, g_head, g_tail, g_seq, out, rc>>

Index == 0 .. KEVENT_Q_CAP - 1

KEvent == [payload : Payload, seq : Nat]

(* kevent_init, before interrupts are enabled.                             *)
kevent_init ==
  /\ g_q = [i \in Index |-> None]
  /\ g_head = 0
  /\ g_tail = 0
  /\ g_seq = 0
  /\ out = None
  /\ rc = 0

(* Mutant: the newest event overwrites the ring without moving g_head.     *)
kevent_push_no_drop(p) ==
  /\ g_seq < MaxSeq
  /\ g_q' = [g_q EXCEPT ![g_tail] = [payload |-> p, seq |-> g_seq]]
  /\ g_seq' = g_seq + 1
  /\ g_tail' = (g_tail + 1) % KEVENT_Q_CAP
  /\ UNCHANGED <<g_head, out, rc>>

kevent_push(p) ==
  LET next == (g_tail + 1) % KEVENT_Q_CAP
  IN  /\ g_seq < MaxSeq
      /\ g_head' = IF next = g_head THEN (g_head + 1) % KEVENT_Q_CAP ELSE g_head
      /\ g_q' = [g_q EXCEPT ![g_tail] = [payload |-> p, seq |-> g_seq]]
      /\ g_seq' = g_seq + 1
      /\ g_tail' = next
      /\ UNCHANGED <<out, rc>>

kevent_pop ==
  \/ /\ g_head = g_tail
     /\ rc' = 0
     /\ UNCHANGED <<g_q, g_head, g_tail, g_seq, out>>
  \/ /\ g_head # g_tail
     /\ out' = g_q[g_head]
     /\ g_head' = (g_head + 1) % KEVENT_Q_CAP
     /\ rc' = 1
     /\ UNCHANGED <<g_q, g_tail, g_seq>>

KeventNext == (\E p \in Payload : kevent_push(p)) \/ kevent_pop

KeventSpec == kevent_init /\ [][KeventNext]_keventVars

----------------------------------------------------------------------------
KeventTypeOK ==
  /\ g_q \in [Index -> KEvent \cup {None}]
  /\ g_head \in Index
  /\ g_tail \in Index
  /\ g_seq \in 0 .. MaxSeq
  /\ out \in KEvent \cup {None}
  /\ rc \in {0, 1}

(* The events in the ring, oldest first.                                   *)
Count == IF g_head <= g_tail THEN g_tail - g_head ELSE g_tail - g_head + KEVENT_Q_CAP

Entry(k) == IF g_head + k < KEVENT_Q_CAP THEN g_head + k ELSE g_head + k - KEVENT_Q_CAP

Held == [k \in 1 .. Count |-> g_q[Entry(k - 1)]]

(* The ring holds the newest events without a gap, whatever mix of pushes, *)
(* overflows and pops led here: the k-th from the end has number g_seq - k. *)
NewestWithoutGap ==
  \A k \in 1 .. Count : Held[k].seq = g_seq - Count + k - 1

(* A consumer sees each event at most once and in the order of the         *)
(* interrupts: what it is given next is newer than what it was given last. *)
InOrder ==
  [][out' # out /\ out # None => out'.seq > out.seq]_keventVars

(* Nothing is lost unless the ring was full: the oldest event held is the  *)
(* one after the last event the consumer was given, or the ring holds as   *)
(* many events as it can.                                                  *)
Expected == IF out = None THEN 0 ELSE out.seq + 1

LossOnlyWhenFull ==
  /\ Expected <= g_seq - Count
  /\ Expected < g_seq - Count => Count = KEVENT_Q_CAP - 1

(* The ring implements the queue it stands for: a FIFO of KEVENT_Q_CAP - 1 *)
(* events that drops its oldest event when it is full.                     *)
Queue ==
  INSTANCE KeventQueue WITH Cap <- KEVENT_Q_CAP - 1, queue <- Held, seq <- g_seq

ImplementsQueue == Queue!Spec
=============================================================================
