---------------------------- MODULE KeventQueue ----------------------------
(***************************************************************************)
(* What the kernel event queue promises its users: a FIFO of at most Cap   *)
(* events that numbers the events it is given and, when it is full, gives  *)
(* up its oldest event for the new one.                                    *)
(***************************************************************************)
EXTENDS Naturals, Sequences

CONSTANTS
  Cap,       \* how many events the queue holds
  Payload,   \* what an event carries
  None       \* what a consumer has before its first event

VARIABLES
  queue,     \* the events held, oldest first
  seq,       \* the number of the next event
  out,       \* the event the last successful pop returned
  rc         \* the last pop's result: 1 for an event, 0 for none

vars == <<queue, seq, out, rc>>

Init == queue = <<>> /\ seq = 0 /\ out = None /\ rc = 0

Push(p) ==
  /\ queue' = Append(IF Len(queue) = Cap THEN Tail(queue) ELSE queue,
                     [payload |-> p, seq |-> seq])
  /\ seq' = seq + 1
  /\ UNCHANGED <<out, rc>>

Pop ==
  /\ queue # <<>>
  /\ out' = Head(queue)
  /\ queue' = Tail(queue)
  /\ rc' = 1
  /\ UNCHANGED seq

PopEmpty ==
  /\ queue = <<>>
  /\ rc' = 0
  /\ UNCHANGED <<queue, seq, out>>

Next == (\E p \in Payload : Push(p)) \/ Pop \/ PopEmpty

Spec == Init /\ [][Next]_vars
=============================================================================
