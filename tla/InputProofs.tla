---------------------------- MODULE InputProofs ----------------------------
(***************************************************************************)
(* The path of a key.  First the kernel event queue, for every ring size,  *)
(* every set of payloads and any number of events: its invariants, and     *)
(* that it implements KeventQueue.  Then the driver, the queue and the     *)
(* console together: what was pressed is forgotten by no part of the path, *)
(* and the characters read are those of the keys sent, in their order.     *)
(***************************************************************************)
EXTENDS Input, WellFoundedInduction, TLAPS

----------------------------------------------------------------------------
(* The kernel event queue.                                                 *)

(* Every entry between the head and the tail holds an event.               *)
HeldEvents == \A k \in 0 .. Count - 1 : g_q[Entry(k)] \in KEvent

(* NewestWithoutGap, counted from 0.                                       *)
HeldNumbers == \A k \in 0 .. Count - 1 : g_q[Entry(k)].seq = g_seq - Count + k

KeventInv == KeventTypeOK /\ HeldEvents /\ HeldNumbers /\ LossOnlyWhenFull

----------------------------------------------------------------------------
(* What the code's "% KEVENT_Q_CAP" does to an index plus one.             *)
LEMMA Wrap ==
  ASSUME NEW i \in Index
  PROVE  (i + 1) % KEVENT_Q_CAP = IF i + 1 = KEVENT_Q_CAP THEN 0 ELSE i + 1
<1>1. CASE i + 1 = KEVENT_Q_CAP
  BY <1>1, KeventAssumption, SMTT(30) DEF Index
<1>2. CASE i + 1 # KEVENT_Q_CAP
  BY <1>2, KeventAssumption, SMTT(30) DEF Index
<1> QED BY <1>1, <1>2

(* The events held are the entries from g_head up to the one before        *)
(* g_tail, all different.                                                  *)
LEMMA RingFacts ==
  ASSUME KeventTypeOK
  PROVE  /\ KEVENT_Q_CAP \in Nat /\ KEVENT_Q_CAP > 1
         /\ g_head \in Index /\ g_tail \in Index /\ g_seq \in Nat
         /\ Count \in 0 .. KEVENT_Q_CAP - 1
         /\ \A k \in 0 .. KEVENT_Q_CAP - 1 : Entry(k) \in Index
         /\ Entry(0) = g_head
         /\ Entry(Count) = g_tail
         /\ \A k \in 0 .. Count - 1 : Entry(k) # g_tail
         /\ Count = 0 <=> g_head = g_tail
BY KeventAssumption DEF KeventTypeOK, Index, Count, Entry

(* When the head moves on by one, so does every entry counted from it.     *)
LEMMA EntryShift ==
  ASSUME KeventTypeOK, g_head' = IF g_head + 1 = KEVENT_Q_CAP THEN 0 ELSE g_head + 1
  PROVE  \A k \in 0 .. KEVENT_Q_CAP - 2 : Entry(k)' = Entry(k + 1)
<1>1. KEVENT_Q_CAP \in Nat /\ g_head \in Int /\ 0 <= g_head /\ g_head < KEVENT_Q_CAP
  BY KeventAssumption DEF KeventTypeOK, Index
<1> TAKE k \in 0 .. KEVENT_Q_CAP - 2
<1>2. CASE g_head + 1 = KEVENT_Q_CAP
  BY <1>1, <1>2 DEF Entry
<1>3. CASE g_head + 1 # KEVENT_Q_CAP
  BY <1>1, <1>3 DEF Entry
<1> QED BY <1>2, <1>3

(* A push into a ring with room appends to what is held.                   *)
LEMMA PushRoom ==
  ASSUME KeventInv, NEW p \in Payload, kevent_push(p),
         (g_tail + 1) % KEVENT_Q_CAP # g_head
  PROVE  /\ Count < KEVENT_Q_CAP - 1
         /\ Count' = Count + 1
         /\ \A k \in 0 .. KEVENT_Q_CAP - 1 : Entry(k)' = Entry(k)
         /\ \A k \in 0 .. Count - 1 : g_q'[Entry(k)] = g_q[Entry(k)]
         /\ g_q'[Entry(Count)] = [payload |-> p, seq |-> g_seq]
<1>1. KeventTypeOK
  BY DEF KeventInv
<1>2. /\ g_head' = g_head
      /\ g_tail' = IF g_tail + 1 = KEVENT_Q_CAP THEN 0 ELSE g_tail + 1
      /\ g_q' = [g_q EXCEPT ![g_tail] = [payload |-> p, seq |-> g_seq]]
      /\ g_tail' # g_head
  BY <1>1, Wrap DEF kevent_push, KeventTypeOK
<1>3. /\ Count < KEVENT_Q_CAP - 1
      /\ Count' = Count + 1
      /\ \A k \in 0 .. KEVENT_Q_CAP - 1 : Entry(k)' = Entry(k)
  BY <1>1, <1>2, RingFacts DEF Count, Entry, Index
<1>4. g_q \in [Index -> KEvent \cup {None}]
  BY <1>1 DEF KeventTypeOK
<1>5. \A k \in 0 .. Count - 1 : Entry(k) \in Index /\ Entry(k) # g_tail
  BY <1>1, RingFacts
<1>6. \A k \in 0 .. Count - 1 : g_q'[Entry(k)] = g_q[Entry(k)]
  BY <1>2, <1>4, <1>5
<1>7. g_q'[Entry(Count)] = [payload |-> p, seq |-> g_seq]
  BY <1>1, <1>2, <1>4, RingFacts
<1> QED BY <1>3, <1>6, <1>7

(* A push into a full ring drops the oldest event and appends.             *)
LEMMA PushFull ==
  ASSUME KeventInv, NEW p \in Payload, kevent_push(p),
         (g_tail + 1) % KEVENT_Q_CAP = g_head
  PROVE  /\ Count = KEVENT_Q_CAP - 1
         /\ Count' = Count
         /\ \A k \in 0 .. Count - 1 : Entry(k)' = Entry(k + 1)
         /\ \A k \in 0 .. Count - 1 : g_q'[Entry(k)] = g_q[Entry(k)]
         /\ g_q'[Entry(Count)] = [payload |-> p, seq |-> g_seq]
<1>1. KeventTypeOK
  BY DEF KeventInv
<1>2. /\ g_head' = IF g_head + 1 = KEVENT_Q_CAP THEN 0 ELSE g_head + 1
      /\ g_tail' = IF g_tail + 1 = KEVENT_Q_CAP THEN 0 ELSE g_tail + 1
      /\ g_q' = [g_q EXCEPT ![g_tail] = [payload |-> p, seq |-> g_seq]]
      /\ g_tail' = g_head
  BY <1>1, Wrap DEF kevent_push, KeventTypeOK
<1>3. /\ Count = KEVENT_Q_CAP - 1
      /\ Count' = Count
      /\ \A k \in 0 .. Count - 1 : Entry(k)' = Entry(k + 1)
  <2>1. Count = KEVENT_Q_CAP - 1 /\ Count' = Count
    BY <1>1, <1>2, RingFacts DEF Count, Index
  <2>2. \A k \in 0 .. KEVENT_Q_CAP - 2 : Entry(k)' = Entry(k + 1)
    BY <1>1, <1>2, EntryShift
  <2> QED BY <1>1, <2>1, <2>2, RingFacts
<1>4. g_q \in [Index -> KEvent \cup {None}]
  BY <1>1 DEF KeventTypeOK
<1>5. \A k \in 0 .. Count - 1 : Entry(k) \in Index /\ Entry(k) # g_tail
  BY <1>1, RingFacts
<1>6. \A k \in 0 .. Count - 1 : g_q'[Entry(k)] = g_q[Entry(k)]
  BY <1>2, <1>4, <1>5
<1>7. g_q'[Entry(Count)] = [payload |-> p, seq |-> g_seq]
  BY <1>1, <1>2, <1>4, RingFacts
<1> QED BY <1>3, <1>6, <1>7

(* A pop takes the oldest event.                                           *)
LEMMA PopOne ==
  ASSUME KeventInv, kevent_pop, g_head # g_tail
  PROVE  /\ Count > 0
         /\ Count' = Count - 1
         /\ \A k \in 0 .. Count - 2 : Entry(k)' = Entry(k + 1)
         /\ out' = g_q[Entry(0)] /\ rc' = 1 /\ g_q' = g_q /\ g_seq' = g_seq
<1>1. KeventTypeOK
  BY DEF KeventInv
<1>2. /\ g_head' = IF g_head + 1 = KEVENT_Q_CAP THEN 0 ELSE g_head + 1
      /\ g_tail' = g_tail /\ g_q' = g_q /\ g_seq' = g_seq
      /\ out' = g_q[g_head] /\ rc' = 1
  BY <1>1, Wrap DEF kevent_pop, KeventTypeOK
<1>3. /\ Count > 0
      /\ Count' = Count - 1
      /\ \A k \in 0 .. Count - 2 : Entry(k)' = Entry(k + 1)
  <2>1. Count > 0 /\ Count' = Count - 1
    BY <1>1, <1>2, RingFacts DEF Count, Index
  <2>2. \A k \in 0 .. KEVENT_Q_CAP - 2 : Entry(k)' = Entry(k + 1)
    BY <1>1, <1>2, EntryShift
  <2> QED BY <1>1, <2>1, <2>2, RingFacts
<1> QED BY <1>1, <1>2, <1>3, RingFacts

----------------------------------------------------------------------------
(* The queue starts empty.                                                 *)
LEMMA KeventInit == kevent_init => KeventInv
<1> SUFFICES ASSUME kevent_init PROVE KeventInv
  OBVIOUS
<1>1. KeventTypeOK
  BY KeventAssumption DEF kevent_init, KeventTypeOK, Index
<1>2. Count = 0
  BY DEF kevent_init, Count
<1>3. HeldEvents /\ HeldNumbers
  BY <1>2 DEF HeldEvents, HeldNumbers
<1>4. LossOnlyWhenFull
  BY <1>2 DEF kevent_init, LossOnlyWhenFull, Expected
<1> QED BY <1>1, <1>3, <1>4 DEF KeventInv

(* What the types leave of a push, whether it drops an event or not.       *)
LEMMA PushType ==
  ASSUME KeventInv, NEW p \in Payload, kevent_push(p)
  PROVE  /\ KeventTypeOK'
         /\ [payload |-> p, seq |-> g_seq] \in KEvent
         /\ g_seq' = g_seq + 1 /\ out' = out /\ g_seq \in Nat
<1>1. KeventTypeOK
  BY DEF KeventInv
<1>2. (g_tail + 1) % KEVENT_Q_CAP \in Index /\ (g_head + 1) % KEVENT_Q_CAP \in Index
  BY <1>1, RingFacts, Wrap DEF Index
<1>3. [payload |-> p, seq |-> g_seq] \in KEvent
  BY <1>1, RingFacts DEF KEvent
<1>4. g_seq + 1 \in 0 .. MaxSeq
  BY <1>1, KeventAssumption DEF kevent_push, KeventTypeOK
<1> QED BY <1>1, <1>2, <1>3, <1>4, RingFacts DEF kevent_push, KeventTypeOK

(* A push keeps the invariant: the numbers stay consecutive, and an event  *)
(* is only dropped from a full ring.                                       *)
LEMMA PushStep ==
  ASSUME KeventInv, NEW p \in Payload, kevent_push(p)
  PROVE  KeventInv'
<1> DEFINE e == [payload |-> p, seq |-> g_seq]
<1>1. KeventTypeOK' /\ e \in KEvent /\ e.seq = g_seq /\ g_seq' = g_seq + 1 /\ out' = out /\ g_seq \in Nat
  BY PushType
<1>2. KeventTypeOK /\ Count \in 0 .. KEVENT_Q_CAP - 1 /\ KEVENT_Q_CAP \in Nat
  BY RingFacts DEF KeventInv
<1>3. Expected \in Nat /\ Expected' = Expected
  BY <1>1, <1>2 DEF Expected, KeventTypeOK, KEvent
<1> HIDE DEF e
<1>4. CASE (g_tail + 1) % KEVENT_Q_CAP # g_head
  <2>1. /\ Count < KEVENT_Q_CAP - 1
        /\ Count' = Count + 1
        /\ \A k \in 0 .. KEVENT_Q_CAP - 1 : Entry(k)' = Entry(k)
        /\ \A k \in 0 .. Count - 1 : g_q'[Entry(k)] = g_q[Entry(k)]
        /\ g_q'[Entry(Count)] = e
    BY <1>4, PushRoom DEF e
  <2>2. ASSUME NEW k \in 0 .. Count' - 1
        PROVE  g_q'[Entry(k)'] \in KEvent /\ g_q'[Entry(k)'].seq = g_seq' - Count' + k
    <3>1. Entry(k)' = Entry(k)
      BY <1>2, <2>1
    <3>2. CASE k = Count
      BY <1>1, <1>2, <2>1, <3>1, <3>2
    <3>3. CASE k \in 0 .. Count - 1
      <4>1. g_q[Entry(k)] \in KEvent /\ g_q[Entry(k)].seq = g_seq - Count + k
        BY <3>3 DEF KeventInv, HeldEvents, HeldNumbers
      <4> QED BY <1>1, <1>2, <2>1, <3>1, <3>3, <4>1
    <3> QED BY <1>2, <2>1, <3>2, <3>3
  <2>3. HeldEvents' /\ HeldNumbers'
    BY <2>2 DEF HeldEvents, HeldNumbers
  <2>4. LossOnlyWhenFull'
    BY <1>1, <1>2, <1>3, <2>1 DEF KeventInv, LossOnlyWhenFull
  <2> QED BY <1>1, <2>3, <2>4 DEF KeventInv
<1>5. CASE (g_tail + 1) % KEVENT_Q_CAP = g_head
  <2>1. /\ Count = KEVENT_Q_CAP - 1
        /\ Count' = Count
        /\ \A k \in 0 .. Count - 1 : Entry(k)' = Entry(k + 1)
        /\ \A k \in 0 .. Count - 1 : g_q'[Entry(k)] = g_q[Entry(k)]
        /\ g_q'[Entry(Count)] = e
    BY <1>5, PushFull DEF e
  <2>2. ASSUME NEW k \in 0 .. Count' - 1
        PROVE  g_q'[Entry(k)'] \in KEvent /\ g_q'[Entry(k)'].seq = g_seq' - Count' + k
    <3>1. Entry(k)' = Entry(k + 1)
      BY <1>2, <2>1
    <3>2. CASE k + 1 = Count
      BY <1>1, <1>2, <2>1, <3>1, <3>2
    <3>3. CASE k + 1 \in 0 .. Count - 1
      <4>1. g_q[Entry(k + 1)] \in KEvent /\ g_q[Entry(k + 1)].seq = g_seq - Count + (k + 1)
        BY <3>3 DEF KeventInv, HeldEvents, HeldNumbers
      <4> QED BY <1>1, <1>2, <2>1, <3>1, <3>3, <4>1
    <3> QED BY <1>2, <2>1, <3>2, <3>3
  <2>3. HeldEvents' /\ HeldNumbers'
    BY <2>2 DEF HeldEvents, HeldNumbers
  <2>4. LossOnlyWhenFull'
    BY <1>1, <1>2, <1>3, <2>1 DEF KeventInv, LossOnlyWhenFull
  <2> QED BY <1>1, <2>3, <2>4 DEF KeventInv
<1> QED BY <1>4, <1>5

(* A pop keeps the invariant: the consumer gets the oldest event.          *)
LEMMA PopStep ==
  ASSUME KeventInv, kevent_pop
  PROVE  KeventInv'
<1>1. KeventTypeOK /\ Count \in 0 .. KEVENT_Q_CAP - 1 /\ KEVENT_Q_CAP \in Nat /\ g_seq \in Nat
  BY RingFacts DEF KeventInv
<1>2. CASE g_head = g_tail
  <2>1. g_q' = g_q /\ g_head' = g_head /\ g_tail' = g_tail /\ g_seq' = g_seq /\ out' = out /\ rc' = 0
    BY <1>2 DEF kevent_pop
  <2> QED BY <2>1 DEF KeventInv, KeventTypeOK, HeldEvents, HeldNumbers, LossOnlyWhenFull, Expected, Count, Entry
<1>3. CASE g_head # g_tail
  <2>1. /\ Count > 0
        /\ Count' = Count - 1
        /\ \A k \in 0 .. Count - 2 : Entry(k)' = Entry(k + 1)
        /\ out' = g_q[Entry(0)] /\ rc' = 1 /\ g_q' = g_q /\ g_seq' = g_seq
    BY <1>3, PopOne
  <2>2. out' \in KEvent /\ out'.seq = g_seq - Count
    BY <1>1, <2>1 DEF KeventInv, HeldEvents, HeldNumbers
  <2>3. KeventTypeOK'
    <3>1. g_head' \in Index /\ g_tail' \in Index
      BY <1>1, <1>3, Wrap, RingFacts DEF kevent_pop, Index
    <3> QED BY <1>1, <2>1, <2>2, <3>1 DEF KeventTypeOK
  <2>4. ASSUME NEW k \in 0 .. Count' - 1
        PROVE  g_q'[Entry(k)'] \in KEvent /\ g_q'[Entry(k)'].seq = g_seq' - Count' + k
    <3>1. k + 1 \in 0 .. Count - 1 /\ Entry(k)' = Entry(k + 1)
      BY <1>1, <2>1
    <3>2. g_q[Entry(k + 1)] \in KEvent /\ g_q[Entry(k + 1)].seq = g_seq - Count + (k + 1)
      BY <3>1 DEF KeventInv, HeldEvents, HeldNumbers
    <3> QED BY <1>1, <2>1, <3>1, <3>2
  <2>5. HeldEvents' /\ HeldNumbers'
    BY <2>4 DEF HeldEvents, HeldNumbers
  <2>6. Expected' = g_seq - Count + 1
    BY <2>2, KeventAssumption DEF Expected, KEvent
  <2>7. LossOnlyWhenFull'
    BY <1>1, <2>1, <2>6 DEF LossOnlyWhenFull
  <2> QED BY <2>3, <2>5, <2>7 DEF KeventInv
<1> QED BY <1>2, <1>3

(* The inductive invariant holds in every reachable state.                 *)
THEOREM Invariance == KeventSpec => []KeventInv
<1>1. KeventInv /\ [KeventNext]_keventVars => KeventInv'
  <2> SUFFICES ASSUME KeventInv, [KeventNext]_keventVars PROVE KeventInv'
    OBVIOUS
  <2>1. CASE UNCHANGED keventVars
    BY <2>1 DEF keventVars, KeventInv, KeventTypeOK, HeldEvents, HeldNumbers, LossOnlyWhenFull, Expected, Count, Entry
  <2> QED BY <2>1, PushStep, PopStep DEF KeventNext
<1> QED BY <1>1, KeventInit, PTL DEF KeventSpec

(* The ring and its indices keep their types.                              *)
THEOREM TypeCorrect == KeventSpec => []KeventTypeOK
<1>1. KeventInv => KeventTypeOK
  BY DEF KeventInv
<1> QED BY <1>1, Invariance, PTL

(* The ring holds the newest events, numbered consecutively.               *)
THEOREM NewestHeld == KeventSpec => []NewestWithoutGap
<1>1. ASSUME KeventInv PROVE NewestWithoutGap
  <2>1. Count \in Nat /\ g_seq \in Nat
    BY <1>1, RingFacts DEF KeventInv
  <2>2. ASSUME NEW k \in 1 .. Count PROVE Held[k].seq = g_seq - Count + k - 1
    <3>1. k - 1 \in 0 .. Count - 1 /\ Held[k] = g_q[Entry(k - 1)]
      BY <2>1 DEF Held
    <3>2. g_q[Entry(k - 1)].seq = g_seq - Count + (k - 1)
      BY <1>1, <3>1 DEF KeventInv, HeldNumbers
    <3> QED BY <2>1, <3>1, <3>2
  <2> QED BY <2>2 DEF NewestWithoutGap
<1> QED BY <1>1, Invariance, PTL

(* An event is lost to the consumer only when the ring was full.           *)
THEOREM LossIsOverflow == KeventSpec => []LossOnlyWhenFull
<1>1. KeventInv => LossOnlyWhenFull
  BY DEF KeventInv
<1> QED BY <1>1, Invariance, PTL

----------------------------------------------------------------------------
(* What is held is a sequence of events of the abstract queue.             *)
HeldIsSeq ==
  /\ Held \in Seq(KEvent)
  /\ Len(Held) = Count
  /\ \A k \in 1 .. Count : Held[k] = g_q[Entry(k - 1)]

(* What the ring holds is a sequence of as many events as it counts.       *)
LEMMA HeldSeq == KeventInv => HeldIsSeq
<1> SUFFICES ASSUME KeventInv PROVE HeldIsSeq
  OBVIOUS
<1>1. Count \in Nat
  BY RingFacts DEF KeventInv
<1>2. \A k \in 1 .. Count : k - 1 \in 0 .. Count - 1
  BY <1>1
<1>3. \A k \in 1 .. Count : g_q[Entry(k - 1)] \in KEvent
  BY <1>2 DEF KeventInv, HeldEvents
<1> QED BY <1>1, <1>3 DEF Held, HeldIsSeq

(* A push appends to the abstract queue, less its oldest event when full.  *)
LEMMA PushRefines ==
  ASSUME KeventInv, NEW p \in Payload, kevent_push(p)
  PROVE  Queue!Push(p)
<1> DEFINE e == [payload |-> p, seq |-> g_seq]
<1>1. KeventInv'
  BY PushStep
<1>2. Count \in 0 .. KEVENT_Q_CAP - 1 /\ KEVENT_Q_CAP \in Nat
  BY RingFacts DEF KeventInv
<1>3. /\ Held \in Seq(KEvent) /\ Len(Held) = Count
      /\ \A k \in 1 .. Count : Held[k] = g_q[Entry(k - 1)]
  BY HeldSeq DEF HeldIsSeq
<1>4. /\ Held' \in Seq(KEvent) /\ Len(Held') = Count'
      /\ \A k \in 1 .. Count' : Held'[k] = g_q'[Entry(k - 1)']
  <2>1. HeldIsSeq'
    BY <1>1, HeldSeq, PTL
  <2> QED BY <2>1 DEF HeldIsSeq
<1>5. e \in KEvent /\ g_seq' = g_seq + 1 /\ out' = out /\ rc' = rc
  BY PushType, Zenon DEF kevent_push
<1> HIDE DEF e
<1>6. CASE (g_tail + 1) % KEVENT_Q_CAP # g_head
  <2>1. /\ Count < KEVENT_Q_CAP - 1
        /\ Count' = Count + 1
        /\ \A k \in 0 .. KEVENT_Q_CAP - 1 : Entry(k)' = Entry(k)
        /\ \A k \in 0 .. Count - 1 : g_q'[Entry(k)] = g_q[Entry(k)]
        /\ g_q'[Entry(Count)] = e
    BY <1>6, PushRoom DEF e
  <2>0. /\ \A k \in 1 .. Count : Append(Held, e)[k] = Held[k]
        /\ Append(Held, e)[Count + 1] = e
    BY <1>2, <1>3, <1>5
  <2>2. ASSUME NEW k \in 1 .. Count + 1
        PROVE  Held'[k] = Append(Held, e)[k]
    <3>1. Held'[k] = g_q'[Entry(k - 1)]
      BY <1>2, <1>4, <2>1
    <3>2. CASE k = Count + 1
      <4>1. k - 1 = Count
        BY <1>2, <3>2
      <4> QED BY <2>0, <2>1, <3>1, <3>2, <4>1, Zenon
    <3>3. CASE k \in 1 .. Count
      <4>1. k - 1 \in 0 .. Count - 1
        BY <1>2, <3>3
      <4> QED BY <1>3, <2>0, <2>1, <3>1, <3>3, <4>1
    <3>4. k = Count + 1 \/ k \in 1 .. Count
      BY <1>2
    <3> QED BY <3>2, <3>3, <3>4, Zenon
  <2>3. Append(Held, e) \in Seq(KEvent) /\ Len(Append(Held, e)) = Count + 1
    BY <1>3, <1>5
  <2>4. Held' = Append(Held, e)
    BY <1>2, <1>4, <2>1, <2>2, <2>3
  <2>5. Len(Held) # KEVENT_Q_CAP - 1
    BY <1>2, <1>3, <2>1
  <2> QED BY <1>5, <2>4, <2>5 DEF Queue!Push, e
<1>7. CASE (g_tail + 1) % KEVENT_Q_CAP = g_head
  <2>1. /\ Count = KEVENT_Q_CAP - 1
        /\ Count' = Count
        /\ \A k \in 0 .. Count - 1 : Entry(k)' = Entry(k + 1)
        /\ \A k \in 0 .. Count - 1 : g_q'[Entry(k)] = g_q[Entry(k)]
        /\ g_q'[Entry(Count)] = e
    BY <1>7, PushFull DEF e
  <2>2. Count > 0
    BY <1>2, <2>1, RingFacts DEF KeventInv
  <2>3. /\ Tail(Held) \in Seq(KEvent) /\ Len(Tail(Held)) = Count - 1
        /\ \A k \in 1 .. Count - 1 : Tail(Held)[k] = Held[k + 1]
    BY <1>2, <1>3, <2>2
  <2> DEFINE rest == Tail(Held)
  <2> HIDE DEF rest
  <2>4. /\ rest \in Seq(KEvent) /\ Len(rest) = Count - 1
        /\ \A k \in 1 .. Count - 1 : rest[k] = Held[k + 1]
    BY <2>3 DEF rest
  <2>5. /\ Append(rest, e) \in Seq(KEvent) /\ Len(Append(rest, e)) = Count
        /\ \A k \in 1 .. Count - 1 : Append(rest, e)[k] = rest[k]
        /\ Append(rest, e)[Count] = e
    BY <1>2, <1>5, <2>2, <2>4
  <2>6. ASSUME NEW k \in 1 .. Count
        PROVE  Held'[k] = Append(rest, e)[k]
    <3>1. k - 1 \in 0 .. Count - 1 /\ (k - 1) + 1 = k
      BY <1>2
    <3>2. Held'[k] = g_q'[Entry(k)]
      BY <1>4, <2>1, <3>1
    <3>3. CASE k = Count
      BY <2>1, <2>5, <3>2, <3>3
    <3>4. CASE k \in 1 .. Count - 1
      <4>1. k \in 0 .. Count - 1 /\ k + 1 \in 1 .. Count /\ (k + 1) - 1 = k
        BY <1>2, <3>4
      <4>2. Append(rest, e)[k] = g_q[Entry(k)]
        BY <1>3, <2>4, <2>5, <3>4, <4>1
      <4> QED BY <2>1, <3>2, <4>1, <4>2
    <3>5. k = Count \/ k \in 1 .. Count - 1
      BY <1>2
    <3> QED BY <3>3, <3>4, <3>5, Zenon
  <2>7. Held' = Append(rest, e)
    BY <1>2, <1>4, <2>1, <2>5, <2>6
  <2>8. Len(Held) = KEVENT_Q_CAP - 1
    BY <1>3, <2>1
  <2> QED BY <1>5, <2>7, <2>8 DEF Queue!Push, e, rest
<1> QED BY <1>6, <1>7

(* A pop takes the head of the abstract queue, or finds it empty.          *)
LEMMA PopRefines ==
  ASSUME KeventInv, kevent_pop
  PROVE  Queue!Pop \/ Queue!PopEmpty
<1>1. KeventInv'
  BY PopStep
<1>2. Count \in 0 .. KEVENT_Q_CAP - 1 /\ KEVENT_Q_CAP \in Nat /\ (Count = 0 <=> g_head = g_tail)
  BY RingFacts DEF KeventInv
<1>3. /\ Held \in Seq(KEvent) /\ Len(Held) = Count
      /\ \A k \in 1 .. Count : Held[k] = g_q[Entry(k - 1)]
  BY HeldSeq DEF HeldIsSeq
<1>4. /\ Held' \in Seq(KEvent) /\ Len(Held') = Count'
      /\ \A k \in 1 .. Count' : Held'[k] = g_q'[Entry(k - 1)']
  <2>1. HeldIsSeq'
    BY <1>1, HeldSeq, PTL
  <2> QED BY <2>1 DEF HeldIsSeq
<1>5. CASE g_head = g_tail
  <2>1. g_q' = g_q /\ g_head' = g_head /\ g_tail' = g_tail /\ g_seq' = g_seq /\ out' = out /\ rc' = 0
    BY <1>5 DEF kevent_pop
  <2>2. Held' = Held
    BY <2>1 DEF Held, Count, Entry
  <2>3. Held = <<>>
    BY <1>2, <1>3, <1>5
  <2> QED BY <2>1, <2>2, <2>3 DEF Queue!PopEmpty
<1>6. CASE g_head # g_tail
  <2>1. /\ Count > 0
        /\ Count' = Count - 1
        /\ \A k \in 0 .. Count - 2 : Entry(k)' = Entry(k + 1)
        /\ out' = g_q[Entry(0)] /\ rc' = 1 /\ g_q' = g_q /\ g_seq' = g_seq
    BY <1>6, PopOne
  <2>2. /\ Tail(Held) \in Seq(KEvent) /\ Len(Tail(Held)) = Count - 1
        /\ \A k \in 1 .. Count - 1 : Tail(Held)[k] = Held[k + 1]
        /\ Head(Held) = Held[1] /\ Held # <<>>
    BY <1>2, <1>3, <2>1
  <2> DEFINE rest == Tail(Held)
  <2> HIDE DEF rest
  <2>3. ASSUME NEW k \in 1 .. Count - 1 PROVE Held'[k] = rest[k]
    <3>1. k - 1 \in 0 .. Count - 2 /\ (k - 1) + 1 = k /\ (k + 1) - 1 = k /\ k + 1 \in 1 .. Count
      BY <1>2
    <3>2. Held'[k] = g_q[Entry(k)]
      BY <1>4, <2>1, <3>1
    <3>3. rest[k] = g_q[Entry(k)]
      BY <1>3, <2>2, <3>1 DEF rest
    <3> QED BY <3>2, <3>3
  <2>4. rest \in Seq(KEvent) /\ Len(rest) = Count - 1
    BY <2>2 DEF rest
  <2>5. Held' = rest
    BY <1>2, <1>4, <2>1, <2>3, <2>4, SMTT(30)
  <2>6. Held[1] = g_q[Entry(0)]
    BY <1>2, <1>3, <2>1
  <2> QED BY <2>1, <2>2, <2>5, <2>6 DEF Queue!Pop, rest
<1> QED BY <1>5, <1>6

(* The ring of event.c implements the bounded drop-oldest FIFO.            *)
THEOREM RingImplementsQueue == KeventSpec => ImplementsQueue
<1>1. kevent_init => Queue!Init
  <2> SUFFICES ASSUME kevent_init PROVE Queue!Init
    OBVIOUS
  <2>1. KeventInv /\ Count = 0
    BY KeventInit DEF kevent_init, Count
  <2>2. Held = <<>>
    BY <2>1, HeldSeq DEF HeldIsSeq
  <2> QED BY <2>2 DEF kevent_init, Queue!Init
<1>2. KeventInv /\ [KeventNext]_keventVars => [Queue!Next]_(Queue!vars)
  <2> SUFFICES ASSUME KeventInv, [KeventNext]_keventVars PROVE [Queue!Next]_(Queue!vars)
    OBVIOUS
  <2>1. CASE UNCHANGED keventVars
    BY <2>1 DEF keventVars, Queue!vars, Held, Count, Entry
  <2>2. CASE KeventNext
    BY <2>2, PushRefines, PopRefines DEF KeventNext, Queue!Next
  <2> QED BY <2>1, <2>2
<1> QED BY <1>1, <1>2, Invariance, PTL DEF KeventSpec, ImplementsQueue, Queue!Spec

(* A consumer never sees an event again, nor an older one than its last.   *)
THEOREM ConsumersSeeOrder == KeventSpec => InOrder
<1>1. KeventInv /\ [KeventNext]_keventVars => [out' # out /\ out # None => out'.seq > out.seq]_keventVars
  <2> SUFFICES ASSUME KeventInv, KeventNext, out' # out, out # None PROVE out'.seq > out.seq
    OBVIOUS
  <2>1. kevent_pop /\ g_head # g_tail
    BY DEF KeventNext, kevent_push, kevent_pop
  <2>2. Count > 0 /\ out' = g_q[Entry(0)]
    BY <2>1, PopOne
  <2>3. Count \in Nat /\ g_seq \in Nat /\ out.seq \in Nat
    BY RingFacts DEF KeventInv, KeventTypeOK, KEvent
  <2>4. out'.seq = g_seq - Count
    BY <2>2, <2>3 DEF KeventInv, HeldNumbers
  <2>5. out.seq + 1 <= g_seq - Count
    BY DEF KeventInv, LossOnlyWhenFull, Expected
  <2> QED BY <2>3, <2>4, <2>5
<1> QED BY <1>1, Invariance, PTL DEF KeventSpec, InOrder

----------------------------------------------------------------------------
(* Induction over the natural numbers, with a set in place of a formula.   *)
LEMMA Induction ==
  ASSUME NEW S, 0 \in S, \A n \in Nat : n \in S => n + 1 \in S
  PROVE  Nat \subseteq S
<1> SUFFICES ASSUME ~(Nat \subseteq S) PROVE FALSE
  OBVIOUS
<1> DEFINE R == OpToRel(<, Nat)
           bad == Nat \ S
<1>1. IsWellFoundedOn(R, Nat)
  BY NatLessThanWellFounded, Zenon
<1>2. \A x, y \in Nat : x < y => <<x, y>> \in R
  BY DEF OpToRel
<1>3. bad \subseteq Nat /\ bad # {}
  OBVIOUS
<1> HIDE DEF R, bad
<1>4. PICK x \in bad : \A y \in bad : ~ (<<y, x>> \in R)
  BY <1>1, <1>3, WFMin, Zenon
<1>5. x \in Nat /\ x \notin S
  BY <1>4 DEF bad
<1>6. x # 0 /\ x - 1 \in Nat /\ x - 1 < x /\ (x - 1) + 1 = x
  BY <1>5
<1>7. x - 1 \notin S
  BY <1>5, <1>6
<1>8. x - 1 \in bad
  BY <1>6, <1>7 DEF bad
<1> QED BY <1>2, <1>4, <1>5, <1>6, <1>8, Zenon

----------------------------------------------------------------------------
(* What keys mean.                                                         *)
Char == {"A", "a", "LF", "BS", "ESC", "["}

Shifts == {0, 1}

State == [shift : Shifts, chars : Seq(Char)]

LEMMA KeyCharsType ==
  ASSUME NEW ev, NEW shift
  PROVE  KeyChars(ev, shift) \in Seq(Char) /\ Len(KeyChars(ev, shift)) \in 0 .. 3
<1>1. /\ <<>> \in Seq(Char) /\ Len(<<>>) = 0
      /\ \A c \in Char : <<c>> \in Seq(Char) /\ Len(<<c>>) = 1
      /\ <<"ESC", "[", "A">> \in Seq(Char) /\ Len(<<"ESC", "[", "A">>) = 3
  BY DEF Char
<1>2. \/ KeyChars(ev, shift) = <<>>
      \/ KeyChars(ev, shift) = <<"ESC", "[", "A">>
      \/ \E c \in Char : KeyChars(ev, shift) = <<c>>
  BY DEF KeyChars, map_key_ascii, Char
<1> DEFINE chars == KeyChars(ev, shift)
<1> HIDE DEF chars
<1>3. chars = <<>> => chars \in Seq(Char) /\ Len(chars) \in 0 .. 3
  BY <1>1
<1>4. chars = <<"ESC", "[", "A">> => chars \in Seq(Char) /\ Len(chars) \in 0 .. 3
  BY <1>1
<1>5. (\E c \in Char : chars = <<c>>) => chars \in Seq(Char) /\ Len(chars) \in 0 .. 3
  BY <1>1
<1> QED BY <1>2, <1>3, <1>4, <1>5, Zenon DEF chars

LEMMA KeyType ==
  ASSUME NEW m \in State, NEW ev
  PROVE  Key(m, ev) \in State
<1>1. KeyChars(ev, m.shift) \in Seq(Char)
  BY KeyCharsType
<1>2. m.chars \o KeyChars(ev, m.shift) \in Seq(Char)
  BY <1>1 DEF State
<1> QED BY <1>2 DEF Key, State, Shifts

(* The states after each of a sequence of events.                          *)
IsRun(f, shift, evs) ==
  f = [k \in 0 .. Len(evs) |->
         IF k = 0 THEN [shift |-> shift, chars |-> <<>>] ELSE Key(f[k - 1], evs[k])]

LEMMA RunExists ==
  ASSUME NEW T, NEW evs \in Seq(T), NEW shift
  PROVE  \E f : IsRun(f, shift, evs)
<1> DEFINE first == [shift |-> shift, chars |-> <<>>]
           Upto(n, f) == f = [k \in 0 .. n |-> IF k = 0 THEN first ELSE Key(f[k - 1], evs[k])]
           S == {n \in Nat : \E f : Upto(n, f)}
<1> HIDE DEF first
<1>1. 0 \in S
  <2> DEFINE f == [k \in 0 .. 0 |-> first]
  <2>1. Upto(0, f)
    OBVIOUS
  <2> QED BY <2>1, Zenon
<1>2. ASSUME NEW n \in Nat, n \in S PROVE n + 1 \in S
  <2>1. PICK f : Upto(n, f)
    BY <1>2
  <2> DEFINE g == [k \in 0 .. n + 1 |-> IF k = n + 1 THEN Key(f[n], evs[n + 1]) ELSE f[k]]
             h == [k \in 0 .. n + 1 |-> IF k = 0 THEN first ELSE Key(g[k - 1], evs[k])]
  <2>2. ASSUME NEW k \in 0 .. n + 1 PROVE g[k] = h[k]
    <3>1. CASE k = n + 1
      <4>1. k # 0 /\ k - 1 = n /\ n \in 0 .. n + 1 /\ n # n + 1
        BY <3>1
      <4> QED BY <3>1, <4>1
    <3>2. CASE k # n + 1
      <4>1. k \in 0 .. n /\ (k # 0 => k - 1 \in 0 .. n + 1 /\ k - 1 # n + 1)
        BY <3>2
      <4>2. f[k] = IF k = 0 THEN first ELSE Key(f[k - 1], evs[k])
        BY <2>1, <4>1
      <4> QED BY <3>2, <4>1, <4>2
    <3> QED BY <3>1, <3>2
  <2>3. g = h
    BY <2>2, Zenon
  <2>4. Upto(n + 1, g)
    BY <2>3, Zenon
  <2>5. n + 1 \in Nat
    OBVIOUS
  <2> QED BY <2>4, <2>5, Zenon
<1> HIDE DEF S
<1>3. Nat \subseteq S
  BY <1>1, <1>2, Induction, Zenon
<1>4. Len(evs) \in Nat
  OBVIOUS
<1> QED BY <1>3, <1>4 DEF S, first, IsRun


(* After is the last state of that sequence.                               *)
LEMMA AfterRun ==
  ASSUME NEW T, NEW evs \in Seq(T), NEW shift
  PROVE  \E f : IsRun(f, shift, evs) /\ After(shift, evs) = f[Len(evs)]
<1> DEFINE f == CHOOSE f : IsRun(f, shift, evs)
<1>1. IsRun(f, shift, evs)
  BY RunExists, Zenon
<1>2. After(shift, evs) = f[Len(evs)]
  BY DEF After, IsRun
<1> QED BY <1>1, <1>2, Zenon

LEMMA RunEntries ==
  ASSUME NEW evs, Len(evs) \in Nat, NEW shift, NEW f, IsRun(f, shift, evs)
  PROVE  /\ f[0] = [shift |-> shift, chars |-> <<>>]
         /\ \A k \in 1 .. Len(evs) : f[k] = Key(f[k - 1], evs[k])
<1> DEFINE n == Len(evs)
           g == [k \in 0 .. n |-> IF k = 0 THEN [shift |-> shift, chars |-> <<>>] ELSE Key(f[k - 1], evs[k])]
<1>2. f = g
  BY Zenon DEF IsRun
<1> HIDE DEF n
<1>3. n \in Nat
  BY DEF n
<1>4. g[0] = [shift |-> shift, chars |-> <<>>]
  BY <1>3
<1>5. \A k \in 1 .. n : g[k] = Key(f[k - 1], evs[k])
  BY <1>3
<1> QED BY <1>2, <1>4, <1>5, Zenon DEF n

Extends(more, evs) == Len(evs) <= Len(more) /\ \A k \in 1 .. Len(evs) : more[k] = evs[k]

BothRun(f, evs, g, more, shift) ==
  Len(evs) \in Nat /\ Len(more) \in Nat /\ Extends(more, evs) /\ IsRun(f, shift, evs) /\ IsRun(g, shift, more)

(* The state after a prefix does not depend on what follows.               *)
LEMMA RunPrefix ==
  ASSUME NEW evs, NEW more, NEW shift, NEW f, NEW g, BothRun(f, evs, g, more, shift)
  PROVE  \A k \in 0 .. Len(evs) : g[k] = f[k]
<1> USE DEF BothRun
<1> DEFINE S == {k \in Nat : k <= Len(evs) => g[k] = f[k]}
<1>0. Len(evs) \in Nat /\ Len(more) \in Nat
  OBVIOUS
<1> HIDE DEF Extends
<1>1. /\ f[0] = [shift |-> shift, chars |-> <<>>]
      /\ \A k \in 1 .. Len(evs) : f[k] = Key(f[k - 1], evs[k])
  BY RunEntries, Zenon
<1>2. /\ g[0] = [shift |-> shift, chars |-> <<>>]
      /\ \A k \in 1 .. Len(more) : g[k] = Key(g[k - 1], more[k])
  BY RunEntries, Zenon
<1>3. 0 \in S
  BY <1>1, <1>2
<1>4. ASSUME NEW n \in Nat, n \in S PROVE n + 1 \in S
  <2>1. CASE n + 1 <= Len(evs)
    <3>1. n + 1 \in 1 .. Len(evs) /\ n + 1 \in 1 .. Len(more) /\ (n + 1) - 1 = n /\ n <= Len(evs)
      BY <1>0, <2>1 DEF Extends
    <3>2. g[n] = f[n]
      BY <1>4, <3>1
    <3>3. f[n + 1] = Key(f[n], evs[n + 1]) /\ g[n + 1] = Key(g[n], more[n + 1])
      BY <1>1, <1>2, <3>1
    <3>4. g[n + 1] = f[n + 1]
      BY <3>1, <3>2, <3>3 DEF Extends
    <3> QED BY <3>4
  <2>2. CASE ~(n + 1 <= Len(evs))
    BY <2>2
  <2> QED BY <2>1, <2>2
<1> HIDE DEF S
<1>5. Nat \subseteq S
  BY <1>3, <1>4, Induction, Zenon
<1> QED BY <1>0, <1>5 DEF S

(* One more event.                                                         *)
LEMMA AfterEmpty ==
  ASSUME NEW shift
  PROVE  After(shift, <<>>) = [shift |-> shift, chars |-> <<>>]
<1>1. <<>> \in Seq({}) /\ Len(<<>>) = 0
  OBVIOUS
<1>2. PICK f : IsRun(f, shift, <<>>) /\ After(shift, <<>>) = f[Len(<<>>)]
  BY <1>1, AfterRun, Zenon
<1>3. f[0] = [shift |-> shift, chars |-> <<>>]
  <2>1. Len(<<>>) \in Nat
    BY <1>1
  <2> QED BY <1>2, <2>1, RunEntries, Zenon
<1> QED BY <1>1, <1>2, <1>3

LEMMA AfterAppend ==
  ASSUME NEW T, NEW evs \in Seq(T), NEW ev \in T, NEW shift
  PROVE  After(shift, Append(evs, ev)) = Key(After(shift, evs), ev)
<1> DEFINE more == Append(evs, ev)
<1>1. /\ more \in Seq(T) /\ Len(more) = Len(evs) + 1 /\ Len(evs) \in Nat /\ more[Len(evs) + 1] = ev
      /\ \A k \in 1 .. Len(evs) : more[k] = evs[k]
  OBVIOUS
<1> HIDE DEF more
<1>2. PICK f : IsRun(f, shift, evs) /\ After(shift, evs) = f[Len(evs)]
  BY AfterRun, Zenon
<1>3. PICK g : IsRun(g, shift, more) /\ After(shift, more) = g[Len(more)]
  BY <1>1, AfterRun, Zenon
<1>4. Len(evs) <= Len(more) /\ Len(evs) + 1 \in 1 .. Len(more) /\ (Len(evs) + 1) - 1 = Len(evs) /\ Len(evs) \in 0 .. Len(evs)
  BY <1>1
<1>5. g[Len(evs) + 1] = Key(g[Len(evs)], ev)
  <2>1. \A k \in 1 .. Len(more) : g[k] = Key(g[k - 1], more[k])
    <3>1. Len(more) \in Nat
      BY <1>1
    <3> QED BY <1>3, <3>1, RunEntries, Zenon
  <2> QED BY <1>1, <1>4, <2>1
<1>6. g[Len(evs)] = f[Len(evs)]
  <2>0. Extends(more, evs)
    BY <1>1, <1>4 DEF Extends
  <2>1. \A k \in 0 .. Len(evs) : g[k] = f[k]
    <3>0. Len(evs) \in Nat /\ Len(more) \in Nat
      BY <1>1
    <3>1. BothRun(f, evs, g, more, shift)
      BY <1>2, <1>3, <2>0, <3>0, Zenon DEF BothRun
    <3> QED BY <3>1, RunPrefix
  <2> QED BY <1>4, <2>1
<1> QED BY <1>1, <1>2, <1>3, <1>5, <1>6 DEF more

(* Events one after the other: the state after the first ones is where the *)
(* others start from.                                                      *)
Then(a, b) == [shift |-> b.shift, chars |-> a.chars \o b.chars]

LEMMA SeqFacts ==
  ASSUME NEW T, NEW r \in Seq(T)
  PROVE  /\ Len(r) \in Nat /\ r \o <<>> = r /\ <<>> \o r = r
         /\ SubSeq(r, 1, 0) = <<>> /\ SubSeq(r, 1, Len(r)) = r
         /\ \A k \in 0 .. Len(r) : SubSeq(r, 1, k) \in Seq(T)
         /\ \A k \in 1 .. Len(r) : r[k] \in T /\ SubSeq(r, 1, k) = Append(SubSeq(r, 1, k - 1), r[k])
OBVIOUS

LEMMA AfterType ==
  ASSUME NEW T, NEW evs \in Seq(T), NEW shift \in Shifts
  PROVE  After(shift, evs) \in State
<1> DEFINE S == {k \in Nat : k <= Len(evs) => After(shift, SubSeq(evs, 1, k)) \in State}
<1>1. 0 \in S
  <2>1. [shift |-> shift, chars |-> <<>>] \in State
    BY DEF State
  <2> QED BY <2>1, AfterEmpty, SeqFacts, Zenon
<1>2. ASSUME NEW n \in Nat, n \in S PROVE n + 1 \in S
  <2>1. CASE n + 1 <= Len(evs)
    <3>1. n + 1 \in 1 .. Len(evs) /\ (n + 1) - 1 = n /\ n <= Len(evs) /\ n \in 0 .. Len(evs)
      BY <2>1, SeqFacts
    <3>2. After(shift, SubSeq(evs, 1, n)) \in State
      BY <1>2, <3>1
    <3>3. SubSeq(evs, 1, n + 1) = Append(SubSeq(evs, 1, n), evs[n + 1]) /\ evs[n + 1] \in T /\ SubSeq(evs, 1, n) \in Seq(T)
      BY <3>1, SeqFacts
    <3>4. After(shift, SubSeq(evs, 1, n + 1)) = Key(After(shift, SubSeq(evs, 1, n)), evs[n + 1])
      BY <3>3, AfterAppend, Zenon
    <3>5. After(shift, SubSeq(evs, 1, n + 1)) \in State
      BY <3>2, <3>4, KeyType, Zenon
    <3> QED BY <3>5
  <2>2. CASE ~(n + 1 <= Len(evs))
    BY <2>2
  <2> QED BY <2>1, <2>2
<1> HIDE DEF S
<1>3. Nat \subseteq S
  BY <1>1, <1>2, Induction, Zenon
<1>4. Len(evs) \in S /\ SubSeq(evs, 1, Len(evs)) = evs /\ Len(evs) <= Len(evs)
  BY <1>3, SeqFacts
<1> QED BY <1>4, Zenon DEF S

LEMMA AfterJoin ==
  ASSUME NEW T, NEW a \in Seq(T), NEW b \in Seq(T), NEW shift \in Shifts
  PROVE  After(shift, a \o b) = Then(After(shift, a), After(After(shift, a).shift, b))
<1> DEFINE m == After(shift, a)
           Holds(s) == After(shift, a \o s) = Then(m, After(m.shift, s))
           S == {k \in Nat : k <= Len(b) => Holds(SubSeq(b, 1, k))}
<1>0. m \in State /\ m.shift \in Shifts /\ m.chars \in Seq(Char)
  <2>1. m \in State
    BY AfterType
  <2> QED BY <2>1 DEF State
<1> HIDE DEF m
<1>1. 0 \in S
  <2>1. Holds(<<>>)
    <3>1. After(m.shift, <<>>) = [shift |-> m.shift, chars |-> <<>>]
      BY AfterEmpty
    <3>2. Then(m, [shift |-> m.shift, chars |-> <<>>]) = m
      BY <1>0 DEF Then, State
    <3>3. a \o <<>> = a
      BY SeqFacts
    <3> QED BY <3>1, <3>2, <3>3 DEF m
  <2> HIDE DEF Holds
  <2> QED BY <2>1, SeqFacts, Zenon
<1>2. ASSUME NEW n \in Nat, n \in S PROVE n + 1 \in S
  <2>1. CASE n + 1 <= Len(b)
    <3> DEFINE s == SubSeq(b, 1, n)
               e == b[n + 1]
    <3>1. n + 1 \in 1 .. Len(b) /\ (n + 1) - 1 = n /\ n <= Len(b) /\ n \in 0 .. Len(b)
      BY <2>1, SeqFacts
    <3>2. Holds(s)
      <4> HIDE DEF Holds
      <4> QED BY <1>2, <3>1
    <3>3. SubSeq(b, 1, n + 1) = Append(s, e) /\ e \in T /\ s \in Seq(T)
      BY <3>1, SeqFacts
    <3> HIDE DEF s, e
    <3>4. After(shift, a \o Append(s, e)) = Key(After(shift, a \o s), e)
      <4>1. a \o Append(s, e) = Append(a \o s, e) /\ a \o s \in Seq(T)
        BY <3>3
      <4> QED BY <3>3, <4>1, AfterAppend, Zenon
    <3>5. After(m.shift, Append(s, e)) = Key(After(m.shift, s), e)
      BY <1>0, <3>3, AfterAppend
    <3>6. ASSUME NEW r \in State
          PROVE  Key(Then(m, r), e) = Then(m, Key(r, e))
      <4>1. KeyChars(e, r.shift) \in Seq(Char) /\ r.chars \in Seq(Char)
        BY KeyCharsType DEF State
      <4>2. (m.chars \o r.chars) \o KeyChars(e, r.shift) = m.chars \o (r.chars \o KeyChars(e, r.shift))
        <5> DEFINE x == m.chars
                   y == r.chars
                   z == KeyChars(e, r.shift)
        <5>1. x \in Seq(Char) /\ y \in Seq(Char) /\ z \in Seq(Char)
          BY <1>0, <4>1
        <5> HIDE DEF x, y, z
        <5>2. (x \o y) \o z = x \o (y \o z)
          BY <5>1
        <5> QED BY <5>2 DEF x, y, z
      <4> QED BY <4>2, Zenon DEF Key, Then
    <3>7. After(m.shift, s) \in State
      BY <1>0, <3>3, AfterType
    <3>8. Holds(Append(s, e))
      BY <3>2, <3>4, <3>5, <3>6, <3>7, Zenon
    <3> HIDE DEF Holds
    <3>9. Holds(SubSeq(b, 1, n + 1))
      BY <3>3, <3>8, Zenon
    <3> QED BY <3>9
  <2>2. CASE ~(n + 1 <= Len(b))
    BY <2>2
  <2> QED BY <2>1, <2>2
<1> HIDE DEF S
<1>3. Nat \subseteq S
  BY <1>1, <1>2, Induction, Zenon
<1> HIDE DEF Holds
<1>4. Holds(b)
  <2>1. Len(b) \in S /\ SubSeq(b, 1, Len(b)) = b /\ Len(b) <= Len(b)
    BY <1>3, SeqFacts
  <2> QED BY <2>1, Zenon DEF S
<1> QED BY <1>4 DEF Holds, m


----------------------------------------------------------------------------
(* The shell's queue takes characters as long as it has room.              *)
Room(q) == INPUT_Q_SIZE - 1 - Len(q)

Taken(q, chars) == IF Len(chars) <= Room(q) THEN Len(chars) ELSE Room(q)

LEMMA PushAll ==
  ASSUME NEW q \in Seq(Char), Len(q) < INPUT_Q_SIZE, NEW chars \in Seq(Char)
  PROVE  /\ Taken(q, chars) \in 0 .. Len(chars) /\ Taken(q, chars) <= Room(q)
         /\ input_q_push_all(q, chars) = q \o SubSeq(chars, 1, Taken(q, chars))
<1> DEFINE D == 0 .. Len(chars)
           room == Room(q)
           Fit(k) == IF k <= room THEN k ELSE room
           Step(f, k) == IF k = 0 THEN q ELSE input_q_push(f[k - 1], chars[k])
           f == CHOOSE f : f = [k \in D |-> Step(f, k)]
           g == [k \in D |-> q \o SubSeq(chars, 1, Fit(k))]
<1>1. Len(chars) \in Nat /\ Len(q) \in Nat /\ room \in Nat /\ INPUT_Q_SIZE \in Nat /\ room = INPUT_Q_SIZE - 1 - Len(q)
  BY InputAssumption DEF Room
<1>2. input_q_push_all(q, chars) = f[Len(chars)]
  BY Zenon DEF input_q_push_all
<1> HIDE DEF room
<1>3. ASSUME NEW k \in D PROVE g[k] = Step(g, k)
  <2>1. CASE k = 0
    <3>1. g[k] = q \o SubSeq(chars, 1, 0)
      BY <1>1, <2>1
    <3> QED BY <2>1, <3>1, SeqFacts, Zenon
  <2>2. CASE k # 0
    <3>1. k - 1 \in D /\ k \in 1 .. Len(chars) /\ Fit(k - 1) \in 0 .. Len(chars)
      BY <1>1, <2>2
    <3> DEFINE s == SubSeq(chars, 1, Fit(k - 1))
    <3>2. s \in Seq(Char) /\ Len(s) = Fit(k - 1)
      BY <1>1, <3>1
    <3>3. g[k - 1] = q \o s
      BY <3>1
    <3>6. s = SubSeq(chars, 1, Fit(k - 1))
      OBVIOUS
    <3> HIDE DEF s
    <3>7. Len(q \o s) = Len(q) + Fit(k - 1)
      BY <3>2, SMTT(30)
    <3>4. CASE k <= room
      <4>1. Fit(k - 1) = k - 1 /\ Fit(k) = k /\ Len(q \o s) < INPUT_Q_SIZE - 1
        BY <1>1, <3>1, <3>4, <3>7
      <4>2. SubSeq(chars, 1, k) = Append(s, chars[k]) /\ chars[k] \in Char
        BY <3>1, <3>6, <4>1, SeqFacts
      <4>3. Append(q \o s, chars[k]) = q \o Append(s, chars[k])
        <5> DEFINE e == chars[k]
        <5>1. e \in Char /\ s \in Seq(Char)
          BY <3>2, <4>2
        <5> HIDE DEF e
        <5>2. Append(q \o s, e) = q \o Append(s, e)
          BY <5>1, SMTT(30)
        <5> QED BY <5>2 DEF e
      <4>4. g[k] = q \o SubSeq(chars, 1, k)
        BY <4>1
      <4>5. Step(g, k) = Append(q \o s, chars[k])
        BY <2>2, <3>3, <4>1, Zenon DEF input_q_push
      <4> QED BY <4>2, <4>3, <4>4, <4>5, Zenon
    <3>5. CASE k > room
      <4>1. Fit(k - 1) = room /\ Fit(k) = room /\ ~(Len(q \o s) < INPUT_Q_SIZE - 1)
        BY <1>1, <3>1, <3>5, <3>7
      <4>2. Step(g, k) = q \o s
        BY <2>2, <3>3, <4>1, Zenon DEF input_q_push
      <4>3. g[k] = q \o SubSeq(chars, 1, Fit(k))
        BY <3>1, Zenon
      <4> QED BY <3>6, <4>1, <4>2, <4>3, Zenon
    <3> QED BY <1>1, <3>1, <3>4, <3>5
  <2> QED BY <2>1, <2>2, Zenon
<1>4. g = [k \in D |-> Step(g, k)]
  BY <1>3, Zenon
<1>5. f = [k \in D |-> Step(f, k)]
  BY <1>4, Zenon
<1>6. g[Len(chars)] = q \o SubSeq(chars, 1, Fit(Len(chars)))
  BY <1>1
<1> HIDE DEF f, g
<1>7. Nat \subseteq {k \in Nat : k \in D => f[k] = g[k]}
  <2> DEFINE S == {k \in Nat : k \in D => f[k] = g[k]}
  <2>1. 0 \in S
    <3>1. 0 \in D
      BY <1>1
    <3>2. f[0] = Step(f, 0) /\ g[0] = Step(g, 0)
      BY <1>4, <1>5, <3>1, Zenon
    <3>3. f[0] = g[0]
      BY <3>2
    <3> QED BY <3>3
  <2>2. ASSUME NEW n \in Nat, n \in S PROVE n + 1 \in S
    <3>1. CASE n + 1 \in D
      <4>1. n \in D /\ (n + 1) - 1 = n /\ n + 1 # 0
        BY <1>1, <3>1
      <4>2. f[n + 1] = Step(f, n + 1) /\ g[n + 1] = Step(g, n + 1)
        BY <1>4, <1>5, <3>1, Zenon
      <4>3. f[n] = g[n]
        BY <2>2, <4>1
      <4>4. f[n + 1] = g[n + 1]
        BY <4>1, <4>2, <4>3
      <4> QED BY <4>4
    <3>2. CASE n + 1 \notin D
      BY <3>2
    <3> QED BY <3>1, <3>2
  <2> HIDE DEF S
  <2>3. Nat \subseteq S
    BY <2>1, <2>2, Induction, Zenon
  <2> QED BY <2>3 DEF S
<1>8. f[Len(chars)] = g[Len(chars)]
  BY <1>1, <1>7
<1>9. Fit(Len(chars)) = Taken(q, chars)
  BY DEF Taken, room
<1> QED BY <1>1, <1>2, <1>6, <1>8, <1>9 DEF Taken, room

----------------------------------------------------------------------------
(* The payloads of events.                                                 *)
PayloadsOf(h) == [i \in DOMAIN h |-> h[i].payload]

LEMMA PayloadFacts ==
  ASSUME NEW h \in Seq(KEvent)
  PROVE  /\ PayloadsOf(h) \in Seq(Payload) /\ Len(PayloadsOf(h)) = Len(h)
         /\ \A i \in 1 .. Len(h) : PayloadsOf(h)[i] = h[i].payload
<1>1. Len(h) \in Nat /\ DOMAIN h = 1 .. Len(h) /\ \A i \in 1 .. Len(h) : h[i] \in KEvent
  OBVIOUS
<1>2. \A i \in 1 .. Len(h) : h[i].payload \in Payload
  BY <1>1 DEF KEvent
<1>3. PayloadsOf(h) = [i \in 1 .. Len(h) |-> h[i].payload]
  BY <1>1 DEF PayloadsOf
<1> QED BY <1>1, <1>2, <1>3

LEMMA PayloadAppend ==
  ASSUME NEW h \in Seq(KEvent), NEW e \in KEvent
  PROVE  PayloadsOf(Append(h, e)) = Append(PayloadsOf(h), e.payload)
<1> DEFINE t == Append(h, e)
           p == PayloadsOf(h)
<1>1. t \in Seq(KEvent) /\ Len(t) = Len(h) + 1 /\ t[Len(h) + 1] = e /\ Len(h) \in Nat
      /\ \A i \in 1 .. Len(h) : t[i] = h[i]
  OBVIOUS
<1> HIDE DEF t
<1>2. /\ PayloadsOf(t) \in Seq(Payload) /\ Len(PayloadsOf(t)) = Len(h) + 1
      /\ \A i \in 1 .. Len(h) + 1 : PayloadsOf(t)[i] = t[i].payload
  BY <1>1, PayloadFacts
<1>3. /\ p \in Seq(Payload) /\ Len(p) = Len(h) /\ \A i \in 1 .. Len(h) : p[i] = h[i].payload
  BY PayloadFacts
<1>4. e.payload \in Payload
  BY DEF KEvent
<1> HIDE DEF p
<1> DEFINE u == PayloadsOf(t)
           v == Append(p, e.payload)
<1>5. v \in Seq(Payload) /\ Len(v) = Len(h) + 1 /\ v[Len(h) + 1] = e.payload /\ \A i \in 1 .. Len(h) : v[i] = p[i]
  BY <1>1, <1>3, <1>4
<1> HIDE DEF u, v
<1>6. ASSUME NEW i \in 1 .. Len(h) + 1 PROVE u[i] = v[i]
  BY <1>1, <1>2, <1>3, <1>5 DEF u
<1>7. u \in Seq(Payload) /\ Len(u) = Len(h) + 1
  BY <1>2 DEF u
<1>8. u = v
  BY <1>1, <1>5, <1>6, <1>7
<1> QED BY <1>8 DEF u, v, p, t

LEMMA PayloadTail ==
  ASSUME NEW h \in Seq(KEvent), h # <<>>
  PROVE  /\ PayloadsOf(h) # <<>> /\ Head(PayloadsOf(h)) = Head(h).payload
         /\ PayloadsOf(Tail(h)) = Tail(PayloadsOf(h))
<1> DEFINE t == Tail(h)
           p == PayloadsOf(h)
<1>1. /\ t \in Seq(KEvent) /\ Len(t) = Len(h) - 1 /\ Len(h) \in Nat /\ Len(h) > 0 /\ Head(h) = h[1]
      /\ \A i \in 1 .. Len(h) - 1 : t[i] = h[i + 1]
  OBVIOUS
<1> HIDE DEF t
<1>2. /\ PayloadsOf(t) \in Seq(Payload) /\ Len(PayloadsOf(t)) = Len(h) - 1
      /\ \A i \in 1 .. Len(h) - 1 : PayloadsOf(t)[i] = t[i].payload
  BY <1>1, PayloadFacts
<1>3. /\ p \in Seq(Payload) /\ Len(p) = Len(h) /\ \A i \in 1 .. Len(h) : p[i] = h[i].payload
  BY PayloadFacts
<1> HIDE DEF p
<1> DEFINE u == PayloadsOf(t)
           v == Tail(p)
<1>4. p # <<>> /\ Head(p) = p[1] /\ p[1] = h[1].payload
  BY <1>1, <1>3
<1>5. v \in Seq(Payload) /\ Len(v) = Len(h) - 1 /\ \A i \in 1 .. Len(h) - 1 : v[i] = p[i + 1]
  BY <1>1, <1>3
<1> HIDE DEF u, v
<1>6. ASSUME NEW i \in 1 .. Len(h) - 1 PROVE u[i] = v[i]
  <2>1. i + 1 \in 1 .. Len(h)
    BY <1>1
  <2>2. u[i] = h[i + 1].payload
    BY <1>1, <1>2 DEF u
  <2>3. v[i] = h[i + 1].payload
    BY <1>3, <1>5, <2>1
  <2> QED BY <2>2, <2>3
<1>7. u \in Seq(Payload) /\ Len(u) = Len(h) - 1
  BY <1>2 DEF u
<1>8. u = v
  BY <1>1, <1>5, <1>6, <1>7
<1> QED BY <1>1, <1>4, <1>8 DEF u, v, p, t


----------------------------------------------------------------------------
(* The inductive invariant.                                                *)
Types ==
  /\ vi_avail \in [Dev -> Nat]
  /\ vi_used \in [Dev -> Seq(Payload)]
  /\ isr \in [Dev -> BOOLEAN]
  /\ vi_rr_next \in Dev
  /\ hpc \in Dev \cup {Fetch, Off}
  /\ g_input_q \in Seq(Char) /\ Len(g_input_q) < INPUT_Q_SIZE
  /\ g_input_shift \in Shifts
  /\ spc \in Start .. Done
  /\ line \in Seq(Char \cup Console) /\ Len(line) < SHELL_MAX_LINE
  /\ typed \in Seq(Payload)
  /\ read \in Seq(Char)
  /\ lost \in BOOLEAN

(* A device's buffers are with the device or with the kernel, and only the *)
(* keyboard sends keys.                                                    *)
Rings ==
  /\ \A d \in Dev : vi_avail[d] + Len(vi_used[d]) = VI_QNUM
  /\ \A d \in Dev \ {0} : vi_used[d] \in Seq({Move})

(* The events in the kernel's queue, and all that the shell has got or     *)
(* will get if nothing is typed any more.                                  *)
Waiting == PayloadsOf(Held)
Way == After(g_input_shift, OnTheWay)
Sent == After(0, typed)
Text == (read \o g_input_q) \o Way.chars

(* The shell will end with the shift key as the keyboard left it.          *)
Keys == ~lost => Text = Sent.chars /\ Way.shift = Sent.shift


LEMMA Devices ==
  /\ vi_dev_count \in Nat /\ vi_dev_count > 0 /\ 0 \in Dev /\ VI_QNUM \in Nat /\ Dev \subseteq Nat
  /\ Off = -1 /\ Fetch = vi_dev_count /\ Off \notin Dev /\ Fetch \notin Dev /\ Fetch # Off
  /\ \A d \in Dev : d + 1 \in Dev \cup {Fetch} /\ d + 1 # Off /\ (d + 1) % vi_dev_count \in Dev
  /\ PollMax \in Nat /\ PollMax > 0 /\ Start = -1 /\ Done = PollMax + 1
  /\ INPUT_Q_SIZE \in Nat /\ INPUT_Q_SIZE > 0 /\ SHELL_MAX_LINE \in Nat /\ SHELL_MAX_LINE > 0
  /\ KeyEvent \subseteq Payload /\ Move \in Payload
BY InputAssumption DEF Dev, Off, Fetch, Start, Done

LEMMA WayFacts ==
  ASSUME Types, KeventInv
  PROVE  /\ Waiting \in Seq(Payload) /\ vi_used[0] \in Seq(Payload)
         /\ OnTheWay = Waiting \o vi_used[0] /\ OnTheWay \in Seq(Payload)
         /\ Way \in State /\ Way.shift \in Shifts /\ Way.chars \in Seq(Char)
         /\ Sent \in State /\ Sent.shift \in Shifts /\ Sent.chars \in Seq(Char)
         /\ Text \in Seq(Char) /\ read \o g_input_q \in Seq(Char)
<1>1. Held \in Seq(KEvent)
  BY HeldSeq DEF HeldIsSeq
<1>2. Waiting \in Seq(Payload)
  BY <1>1, PayloadFacts DEF Waiting
<1>3. vi_used[0] \in Seq(Payload)
  BY Devices DEF Types
<1>4. OnTheWay = Waiting \o vi_used[0]
  BY DEF OnTheWay, Waiting, PayloadsOf
<1>5. OnTheWay \in Seq(Payload)
  BY <1>2, <1>3, <1>4
<1>6. Way \in State
  BY <1>5, AfterType DEF Way, Types
<1>7. Sent \in State
  <2>1. 0 \in Shifts
    BY DEF Shifts
  <2> QED BY <2>1, AfterType DEF Sent, Types
<1>8. Way.chars \in Seq(Char) /\ Sent.chars \in Seq(Char) /\ Way.shift \in Shifts /\ Sent.shift \in Shifts
  BY <1>6, <1>7 DEF State
<1>9. read \o g_input_q \in Seq(Char)
  BY DEF Types
<1>10. Text \in Seq(Char)
  BY <1>8, <1>9 DEF Text
<1> QED BY <1>2, <1>3, <1>4, <1>5, <1>6, <1>7, <1>8, <1>9, <1>10

(* What the kernel's queue does to the events that wait in it.             *)
LEMMA WaitingPush ==
  ASSUME KeventInv, NEW p \in Payload, kevent_push(p)
  PROVE  /\ Waiting \in Seq(Payload)
         /\ Waiting' = Append(IF Count = KEVENT_Q_CAP - 1 THEN Tail(Waiting) ELSE Waiting, p)
         /\ Count = KEVENT_Q_CAP - 1 => Waiting # <<>> /\ Tail(Waiting) \in Seq(Payload)
<1> DEFINE e == [payload |-> p, seq |-> g_seq]
<1>1. Held \in Seq(KEvent) /\ Len(Held) = Count
  BY HeldSeq DEF HeldIsSeq
<1>2. e \in KEvent /\ e.payload = p
  BY PushType
<1>3. Held' = Append(IF Len(Held) = KEVENT_Q_CAP - 1 THEN Tail(Held) ELSE Held, e)
  BY PushRefines DEF Queue!Push
<1> HIDE DEF e
<1>4. Waiting \in Seq(Payload)
  BY <1>1, PayloadFacts DEF Waiting
<1>5. CASE Count = KEVENT_Q_CAP - 1
  <2>1. Held # <<>> /\ Tail(Held) \in Seq(KEvent)
    BY <1>1, <1>5, KeventAssumption
  <2>2. Waiting # <<>> /\ PayloadsOf(Tail(Held)) = Tail(Waiting)
    BY <1>1, <2>1, PayloadTail DEF Waiting
  <2>3. PayloadsOf(Append(Tail(Held), e)) = Append(Tail(Waiting), p)
    BY <1>2, <2>1, <2>2, PayloadAppend, Zenon
  <2>4. Waiting' = PayloadsOf(Append(Tail(Held), e))
    BY <1>1, <1>3, <1>5 DEF Waiting
  <2>5. Tail(Waiting) \in Seq(Payload)
    BY <1>4, <2>2
  <2> QED BY <1>4, <1>5, <2>2, <2>3, <2>4, <2>5
<1>6. CASE Count # KEVENT_Q_CAP - 1
  <2>1. PayloadsOf(Append(Held, e)) = Append(Waiting, p)
    BY <1>1, <1>2, PayloadAppend DEF Waiting
  <2>2. Waiting' = PayloadsOf(Append(Held, e))
    BY <1>1, <1>3, <1>6 DEF Waiting
  <2> QED BY <1>4, <1>6, <2>1, <2>2
<1> QED BY <1>5, <1>6

LEMMA WaitingPop ==
  ASSUME KeventInv, kevent_pop
  PROVE  /\ rc' = 1 => /\ Waiting # <<>> /\ out'.payload = Head(Waiting)
                       /\ Waiting' = Tail(Waiting)
         /\ rc' # 1 => Waiting' = Waiting
<1>1. Held \in Seq(KEvent)
  BY HeldSeq DEF HeldIsSeq
<1>2. CASE Queue!Pop
  <2>1. Held # <<>> /\ out' = Head(Held) /\ Held' = Tail(Held) /\ rc' = 1
    BY <1>2 DEF Queue!Pop
  <2>2. Waiting # <<>> /\ Head(Waiting) = Head(Held).payload /\ PayloadsOf(Tail(Held)) = Tail(Waiting)
    BY <1>1, <2>1, PayloadTail DEF Waiting
  <2>3. Waiting' = PayloadsOf(Tail(Held))
    BY <2>1 DEF Waiting
  <2> QED BY <2>1, <2>2, <2>3
<1>3. CASE Queue!PopEmpty
  <2>1. Held' = Held /\ rc' = 0
    BY <1>3 DEF Queue!PopEmpty
  <2>2. Waiting' = Waiting
    BY <2>1 DEF Waiting
  <2> QED BY <2>1, <2>2
<1> QED BY <1>2, <1>3, PopRefines


----------------------------------------------------------------------------
(* Sequences that are contained in others.                                 *)
Embedding(f, s, t) ==
  /\ f \in [1 .. Len(s) -> 1 .. Len(t)]
  /\ \A i, j \in 1 .. Len(s) : i < j => f[i] < f[j]
  /\ \A i \in 1 .. Len(s) : s[i] = t[f[i]]

Embeds(s, t) == \E f : Embedding(f, s, t)

LEMMA EmbedsSelf ==
  ASSUME NEW s \in Seq(Char)
  PROVE  Embeds(s, s)
<1> DEFINE f == [i \in 1 .. Len(s) |-> i]
<1>1. Embedding(f, s, s)
  BY DEF Embedding
<1> QED BY <1>1, Zenon DEF Embeds

LEMMA EmbedsAppend ==
  ASSUME NEW s \in Seq(Char), NEW t \in Seq(Char), NEW c \in Seq(Char), Embeds(s, t)
  PROVE  Embeds(s \o c, t \o c)
<1>1. PICK f : Embedding(f, s, t)
  BY Zenon DEF Embeds
<1> DEFINE sc == s \o c
           tc == t \o c
           n == Len(s)
           m == Len(t)
           l == Len(c)
           g == [i \in 1 .. n + l |-> IF i <= n THEN f[i] ELSE (i - n) + m]
<1>2. /\ n \in Nat /\ m \in Nat /\ l \in Nat /\ Len(sc) = n + l /\ Len(tc) = m + l
      /\ \A i \in 1 .. n + l : sc[i] = IF i <= n THEN s[i] ELSE c[i - n]
      /\ \A i \in 1 .. m + l : tc[i] = IF i <= m THEN t[i] ELSE c[i - m]
  OBVIOUS
<1>3. /\ \A i \in 1 .. n : f[i] \in 1 .. m /\ s[i] = t[f[i]]
      /\ \A i, j \in 1 .. n : i < j => f[i] < f[j]
  BY <1>1 DEF Embedding
<1> HIDE DEF sc, tc, n, m, l
<1>4. ASSUME NEW i \in 1 .. n + l
      PROVE  g[i] \in 1 .. m + l /\ sc[i] = tc[g[i]]
  <2>1. CASE i <= n
    <3>1. g[i] = f[i] /\ i \in 1 .. n
      BY <1>2, <2>1
    <3>2. f[i] \in 1 .. m /\ f[i] \in 1 .. m + l /\ s[i] = t[f[i]]
      BY <1>2, <1>3, <3>1
    <3>3. sc[i] = s[i] /\ tc[f[i]] = t[f[i]]
      BY <1>2, <2>1, <3>2
    <3> QED BY <3>1, <3>2, <3>3
  <2>2. CASE i > n
    <3>1. g[i] = (i - n) + m /\ (i - n) + m \in 1 .. m + l /\ ~((i - n) + m <= m) /\ ((i - n) + m) - m = i - n
      BY <1>2, <2>2
    <3>2. sc[i] = c[i - n] /\ tc[(i - n) + m] = c[i - n]
      BY <1>2, <2>2, <3>1
    <3> QED BY <3>1, <3>2
  <2> QED BY <1>2, <2>1, <2>2
<1>5. ASSUME NEW i \in 1 .. n + l, NEW j \in 1 .. n + l, i < j
      PROVE  g[i] < g[j]
  <2>1. CASE j <= n
    BY <1>2, <1>3, <1>5, <2>1
  <2>2. CASE i <= n /\ j > n
    <3>1. g[i] = f[i] /\ f[i] \in 1 .. m /\ g[j] = (j - n) + m
      BY <1>2, <1>3, <2>2
    <3> QED BY <1>2, <2>2, <3>1
  <2>3. CASE i > n
    BY <1>2, <1>5, <2>3
  <2> QED BY <1>2, <2>1, <2>2, <2>3
<1>6. g \in [1 .. n + l -> 1 .. m + l]
  BY <1>4
<1> HIDE DEF g
<1>7. Embedding(g, sc, tc)
  BY <1>2, <1>4, <1>5, <1>6 DEF Embedding
<1> QED BY <1>7, Zenon DEF Embeds, sc, tc

LEMMA EmbedsDrop ==
  ASSUME NEW a \in Seq(Char), NEW b \in Seq(Char), NEW c \in Seq(Char), NEW t \in Seq(Char),
         Embeds(a \o (b \o c), t)
  PROVE  Embeds(a \o c, t)
<1> DEFINE abc == a \o (b \o c)
           ac == a \o c
           n == Len(a)
           m == Len(b)
           l == Len(c)
<1>1. PICK f : Embedding(f, abc, t)
  BY Zenon DEF Embeds
<1> DEFINE g == [i \in 1 .. n + l |-> IF i <= n THEN f[i] ELSE f[i + m]]
<1>2. /\ n \in Nat /\ m \in Nat /\ l \in Nat /\ Len(t) \in Nat /\ Len(abc) = n + m + l /\ Len(ac) = n + l
      /\ \A i \in 1 .. n + l : ac[i] = IF i <= n THEN a[i] ELSE c[i - n]
      /\ \A i \in 1 .. n : abc[i] = a[i]
      /\ \A i \in 1 .. n + m + l : i > n + m => abc[i] = c[i - n - m]
  OBVIOUS
<1>3. /\ \A i \in 1 .. n + m + l : f[i] \in 1 .. Len(t) /\ abc[i] = t[f[i]]
      /\ \A i, j \in 1 .. n + m + l : i < j => f[i] < f[j]
  BY <1>1, <1>2 DEF Embedding
<1> HIDE DEF abc, ac, n, m, l
<1>4. ASSUME NEW i \in 1 .. n + l
      PROVE  g[i] \in 1 .. Len(t) /\ ac[i] = t[g[i]]
  <2>1. CASE i <= n
    <3>1. g[i] = f[i] /\ i \in 1 .. n /\ i \in 1 .. n + m + l
      BY <1>2, <2>1
    <3>2. ac[i] = a[i] /\ abc[i] = a[i]
      BY <1>2, <2>1, <3>1
    <3> QED BY <1>3, <3>1, <3>2
  <2>2. CASE i > n
    <3>1. g[i] = f[i + m] /\ i + m \in 1 .. n + m + l /\ i + m > n + m /\ (i + m) - n - m = i - n
      BY <1>2, <2>2
    <3>2. ac[i] = c[i - n] /\ abc[i + m] = c[i - n]
      BY <1>2, <2>2, <3>1
    <3> QED BY <1>3, <3>1, <3>2
  <2> QED BY <1>2, <2>1, <2>2
<1>5. ASSUME NEW i \in 1 .. n + l, NEW j \in 1 .. n + l, i < j
      PROVE  g[i] < g[j]
  <2> DEFINE At(k) == IF k <= n THEN k ELSE k + m
  <2>0. n \in Nat /\ m \in Nat /\ l \in Nat
    BY <1>2
  <2>1. At(i) \in 1 .. n + m + l /\ At(j) \in 1 .. n + m + l /\ At(i) < At(j)
    BY <1>5, <2>0
  <2>2. g[i] = f[At(i)] /\ g[j] = f[At(j)]
    OBVIOUS
  <2> QED BY <1>3, <2>1, <2>2
<1>6. g \in [1 .. n + l -> 1 .. Len(t)]
  BY <1>4
<1> HIDE DEF g
<1>7. Embedding(g, ac, t)
  BY <1>2, <1>4, <1>5, <1>6 DEF Embedding
<1> QED BY <1>7, Zenon DEF Embeds, ac


(* The greedy search of IsSubsequence finds every embedding.               *)
Match(rest, ch) == IF rest # <<>> /\ Head(rest) = ch THEN Tail(rest) ELSE rest

IsSearch(f, s, t) == f = [k \in 0 .. Len(t) |-> IF k = 0 THEN s ELSE Match(f[k - 1], t[k])]

LEMMA SearchExists ==
  ASSUME NEW s, NEW t, Len(t) \in Nat
  PROVE  \E f : IsSearch(f, s, t)
<1> DEFINE Upto(n, f) == f = [k \in 0 .. n |-> IF k = 0 THEN s ELSE Match(f[k - 1], t[k])]
           S == {n \in Nat : \E f : Upto(n, f)}
<1>1. 0 \in S
  <2> DEFINE f == [k \in 0 .. 0 |-> s]
  <2>1. Upto(0, f)
    OBVIOUS
  <2> QED BY <2>1, Zenon
<1>2. ASSUME NEW n \in Nat, n \in S PROVE n + 1 \in S
  <2>1. PICK f : Upto(n, f)
    BY <1>2
  <2> DEFINE g == [k \in 0 .. n + 1 |-> IF k = n + 1 THEN Match(f[n], t[n + 1]) ELSE f[k]]
             h == [k \in 0 .. n + 1 |-> IF k = 0 THEN s ELSE Match(g[k - 1], t[k])]
  <2>2. ASSUME NEW k \in 0 .. n + 1 PROVE g[k] = h[k]
    <3>1. CASE k = n + 1
      <4>1. k # 0 /\ k - 1 = n /\ n \in 0 .. n + 1 /\ n # n + 1
        BY <3>1
      <4> QED BY <3>1, <4>1
    <3>2. CASE k # n + 1
      <4>1. k \in 0 .. n /\ (k # 0 => k - 1 \in 0 .. n + 1 /\ k - 1 # n + 1)
        BY <3>2
      <4>2. f[k] = IF k = 0 THEN s ELSE Match(f[k - 1], t[k])
        BY <2>1, <4>1
      <4> QED BY <3>2, <4>1, <4>2
    <3> QED BY <3>1, <3>2
  <2>3. g = h
    BY <2>2, Zenon
  <2>4. Upto(n + 1, g)
    BY <2>3, Zenon
  <2>5. n + 1 \in Nat
    OBVIOUS
  <2> QED BY <2>4, <2>5, Zenon
<1> HIDE DEF S
<1>3. Nat \subseteq S
  BY <1>1, <1>2, Induction, Zenon
<1> QED BY <1>3 DEF S, IsSearch

LEMMA SearchSucceeds ==
  ASSUME NEW s \in Seq(Char), NEW t \in Seq(Char), Embeds(s, t)
  PROVE  IsSubsequence(s, t)
<1> DEFINE f == CHOOSE f : IsSearch(f, s, t)
           n == Len(s)
           l == Len(t)
<1>1. n \in Nat /\ l \in Nat /\ \A k \in 1 .. n : s[k] \in Char
  OBVIOUS
<1>2. IsSearch(f, s, t)
  BY <1>1, SearchExists, Zenon
<1>3. IsSubsequence(s, t) <=> f[l] = <<>>
  BY Zenon DEF IsSubsequence, IsSearch, Match
<1> HIDE DEF f
<1>4. /\ f[0] = s
      /\ \A k \in 1 .. l : f[k] = Match(f[k - 1], t[k])
  <2> DEFINE g == [k \in 0 .. l |-> IF k = 0 THEN s ELSE Match(f[k - 1], t[k])]
  <2>1. f = g
    BY <1>2, Zenon DEF IsSearch
  <2> HIDE DEF l
  <2>2. g[0] = s
    BY <1>1
  <2>3. \A k \in 1 .. l : g[k] = Match(f[k - 1], t[k])
    BY <1>1
  <2> QED BY <2>1, <2>2, <2>3, Zenon
<1>5. PICK e : Embedding(e, s, t)
  BY Zenon DEF Embeds
<1>6. /\ \A i \in 1 .. n : e[i] \in 1 .. l /\ s[i] = t[e[i]]
      /\ \A i, j \in 1 .. n : i < j => e[i] < e[j]
  BY <1>5 DEF Embedding
<1> DEFINE From(m) == SubSeq(s, m + 1, n)
           Found(k, m) == \A i \in 1 .. n : e[i] <= k => i <= m
           S == {k \in Nat : k <= l => \E m \in 0 .. n : f[k] = From(m) /\ Found(k, m)}
<1>7. /\ From(0) = s /\ From(n) = <<>>
      /\ \A m \in 0 .. n - 1 : From(m) # <<>> /\ Head(From(m)) = s[m + 1] /\ Tail(From(m)) = From(m + 1)
  <2>1. From(0) = s
    BY <1>1
  <2>2. From(n) = <<>>
    BY <1>1
  <2>3. ASSUME NEW m \in 0 .. n - 1
        PROVE  From(m) # <<>> /\ Head(From(m)) = s[m + 1] /\ Tail(From(m)) = From(m + 1)
    <3>1. /\ From(m) \in Seq(Char) /\ Len(From(m)) = n - m
          /\ \A i \in 1 .. n - m : From(m)[i] = s[m + i]
      BY <1>1
    <3>2. /\ From(m + 1) \in Seq(Char) /\ Len(From(m + 1)) = n - m - 1
          /\ \A i \in 1 .. n - m - 1 : From(m + 1)[i] = s[m + 1 + i]
      BY <1>1
    <3> DEFINE u == From(m)
               v == From(m + 1)
    <3> HIDE DEF From, n
    <3>3. u # <<>> /\ Head(u) = u[1] /\ u[1] = s[m + 1]
      BY <1>1, <3>1
    <3>4. /\ Tail(u) \in Seq(Char) /\ Len(Tail(u)) = n - m - 1
          /\ \A i \in 1 .. n - m - 1 : Tail(u)[i] = u[i + 1] /\ u[i + 1] = s[m + (i + 1)]
      BY <1>1, <3>1
    <3>5. Tail(u) = v
      BY <1>1, <3>2, <3>4
    <3> QED BY <3>3, <3>5
  <2> QED BY <2>1, <2>2, <2>3
<1> HIDE DEF From, n, l
<1>8. 0 \in S
  <2>1. Found(0, 0) /\ 0 \in 0 .. n
    BY <1>1, <1>6
  <2>2. f[0] = From(0)
    BY <1>4, <1>7
  <2> HIDE DEF Found
  <2> QED BY <2>1, <2>2
<1>9. ASSUME NEW k \in Nat, k \in S PROVE k + 1 \in S
  <2> SUFFICES ASSUME k + 1 <= l
               PROVE  \E m \in 0 .. n : f[k + 1] = From(m) /\ Found(k + 1, m)
    OBVIOUS
  <2>1. k <= l /\ k + 1 \in 1 .. l /\ (k + 1) - 1 = k
    BY <1>1
  <2>2. PICK m \in 0 .. n : f[k] = From(m) /\ Found(k, m)
    BY <1>9, <2>1
  <2>3. f[k + 1] = Match(From(m), t[k + 1])
    BY <1>4, <2>1, <2>2
  <2>4. CASE m = n
    <3>1. f[k + 1] = From(m)
      BY <1>7, <2>3, <2>4 DEF Match
    <3>2. Found(k + 1, m)
      BY <1>1, <2>4
    <3> QED BY <3>1, <3>2
  <2>5. CASE m # n
    <3>1. m \in 0 .. n - 1 /\ m + 1 \in 1 .. n /\ m + 1 \in 0 .. n
      BY <1>1, <2>5
    <3>2. ASSUME NEW i \in 1 .. n, e[i] <= k + 1, i > m
          PROVE  i = m + 1 /\ e[i] = k + 1
      <4>1. e[i] \in 1 .. l /\ e[m + 1] \in 1 .. l
        BY <1>6, <3>1
      <4>2. ~(e[i] <= k) /\ ~(e[m + 1] <= k)
        BY <1>1, <2>2, <3>1, <3>2
      <4>3. e[i] = k + 1
        BY <1>1, <3>2, <4>1, <4>2
      <4>4. m + 1 < i => e[m + 1] < e[i]
        BY <1>6, <3>1
      <4> QED BY <1>1, <3>1, <3>2, <4>1, <4>2, <4>3, <4>4
    <3>3. CASE t[k + 1] = s[m + 1]
      <4>1. f[k + 1] = From(m + 1)
        BY <1>7, <2>3, <3>1, <3>3, Zenon DEF Match
      <4>2. Found(k + 1, m + 1)
        BY <1>1, <3>1, <3>2
      <4> QED BY <3>1, <4>1, <4>2
    <3>4. CASE t[k + 1] # s[m + 1]
      <4>1. f[k + 1] = From(m)
        BY <1>7, <2>3, <3>1, <3>4 DEF Match
      <4>2. ASSUME NEW i \in 1 .. n, e[i] <= k + 1
            PROVE  i <= m
        <5> SUFFICES ASSUME i > m PROVE FALSE
          BY <1>1, <3>1
        <5>1. i = m + 1 /\ e[i] = k + 1
          BY <3>2, <4>2
        <5>2. s[i] = t[e[i]]
          BY <1>6
        <5> QED BY <3>4, <5>1, <5>2
      <4> QED BY <4>1, <4>2
    <3> QED BY <3>3, <3>4
  <2> QED BY <2>4, <2>5
<1>10. f[l] = <<>>
  <2> HIDE DEF S
  <2>1. Nat \subseteq S
    BY <1>8, <1>9, Induction, Zenon
  <2> USE DEF S
  <2>2. PICK m \in 0 .. n : f[l] = From(m) /\ Found(l, m)
    BY <1>1, <2>1
  <2>3. n \in 1 .. n => n <= m
    <3> SUFFICES ASSUME n \in 1 .. n PROVE n <= m
      OBVIOUS
    <3>1. e[n] \in 1 .. l
      BY <1>6
    <3> QED BY <1>1, <2>2, <3>1
  <2>4. m = n
    BY <1>1, <2>3
  <2> QED BY <1>7, <2>2, <2>4
<1> QED BY <1>3, <1>10


----------------------------------------------------------------------------
(* Characters without regard to shift.                                     *)
LEMMA UnshiftedFacts ==
  ASSUME NEW s \in Seq(Char)
  PROVE  /\ Unshifted(s) \in Seq(Char) /\ Len(Unshifted(s)) = Len(s)
         /\ \A i \in 1 .. Len(s) : Unshifted(s)[i] = IF s[i] = "A" THEN "a" ELSE s[i]
<1>1. Len(s) \in Nat /\ DOMAIN s = 1 .. Len(s) /\ \A i \in 1 .. Len(s) : s[i] \in Char
  OBVIOUS
<1>2. Unshifted(s) = [i \in 1 .. Len(s) |-> IF s[i] = "A" THEN "a" ELSE s[i]]
  BY <1>1 DEF Unshifted
<1>3. \A i \in 1 .. Len(s) : (IF s[i] = "A" THEN "a" ELSE s[i]) \in Char
  BY <1>1 DEF Char
<1> QED BY <1>1, <1>2, <1>3

LEMMA UnshiftedJoin ==
  ASSUME NEW s \in Seq(Char), NEW t \in Seq(Char)
  PROVE  Unshifted(s \o t) = Unshifted(s) \o Unshifted(t)
<1> DEFINE st == s \o t
           n == Len(s)
           m == Len(t)
           Un(c) == IF c = "A" THEN "a" ELSE c
<1>1. /\ n \in Nat /\ m \in Nat /\ st \in Seq(Char) /\ Len(st) = n + m
      /\ \A i \in 1 .. n + m : st[i] = IF i <= n THEN s[i] ELSE t[i - n]
  OBVIOUS
<1> HIDE DEF st
<1>2. /\ Unshifted(s) \in Seq(Char) /\ Len(Unshifted(s)) = n /\ \A i \in 1 .. n : Unshifted(s)[i] = Un(s[i])
  BY UnshiftedFacts
<1>3. /\ Unshifted(t) \in Seq(Char) /\ Len(Unshifted(t)) = m /\ \A i \in 1 .. m : Unshifted(t)[i] = Un(t[i])
  BY UnshiftedFacts
<1>4. /\ Unshifted(st) \in Seq(Char) /\ Len(Unshifted(st)) = n + m
      /\ \A i \in 1 .. n + m : Unshifted(st)[i] = Un(st[i])
  BY <1>1, UnshiftedFacts
<1> DEFINE us == Unshifted(s)
           ut == Unshifted(t)
           u == Unshifted(st)
           v == us \o ut
<1>5. /\ us \in Seq(Char) /\ Len(us) = n /\ ut \in Seq(Char) /\ Len(ut) = m
      /\ u \in Seq(Char) /\ Len(u) = n + m
  BY <1>2, <1>3, <1>4
<1> HIDE DEF us, ut, u, n, m
<1>6. v \in Seq(Char) /\ Len(v) = n + m /\ \A i \in 1 .. n + m : v[i] = IF i <= n THEN us[i] ELSE ut[i - n]
  <2>1. us \in Seq(Char) /\ ut \in Seq(Char)
    BY <1>5
  <2>2. /\ v \in Seq(Char) /\ Len(v) = Len(us) + Len(ut)
        /\ \A i \in 1 .. Len(us) + Len(ut) : v[i] = IF i <= Len(us) THEN us[i] ELSE ut[i - Len(us)]
    BY ONLY <2>1
  <2> HIDE DEF v
  <2> QED BY <1>5, <2>2
<1> HIDE DEF v
<1>7. ASSUME NEW i \in 1 .. n + m PROVE u[i] = v[i]
  <2>1. CASE i <= n
    <3>1. i \in 1 .. n /\ v[i] = us[i] /\ st[i] = s[i]
      BY <1>1, <1>6, <2>1
    <3> QED BY <1>2, <1>4, <3>1 DEF u, us
  <2>2. CASE i > n
    <3>1. i - n \in 1 .. m /\ v[i] = ut[i - n] /\ st[i] = t[i - n]
      BY <1>1, <1>6, <2>2
    <3> QED BY <1>3, <1>4, <3>1 DEF u, ut
  <2> QED BY <1>1, <2>1, <2>2
<1>8. u = v
  BY <1>1, <1>5, <1>6, <1>7
<1> QED BY <1>8 DEF u, v, us, ut, st

LEMMA UnshiftedKey ==
  ASSUME NEW ev, NEW x, NEW y
  PROVE  Unshifted(KeyChars(ev, x)) = Unshifted(KeyChars(ev, y))
<1>1. Unshifted(<<"A">>) = <<"a">> /\ Unshifted(<<"a">>) = <<"a">>
  BY DEF Unshifted
<1>2. \/ KeyChars(ev, x) = KeyChars(ev, y)
      \/ KeyChars(ev, x) \in {<<"A">>, <<"a">>} /\ KeyChars(ev, y) \in {<<"A">>, <<"a">>}
  BY DEF KeyChars, map_key_ascii
<1> DEFINE u == KeyChars(ev, x)
           v == KeyChars(ev, y)
<1> HIDE DEF u, v
<1>3. u = v \/ (u \in {<<"A">>, <<"a">>} /\ v \in {<<"A">>, <<"a">>})
  BY <1>2 DEF u, v
<1>4. Unshifted(u) = Unshifted(v)
  BY <1>1, <1>3, Zenon
<1> QED BY <1>4 DEF u, v

(* What keys mean, but for upper and lower case, does not depend on shift. *)
LEMMA UnshiftedAfter ==
  ASSUME NEW T, NEW evs \in Seq(T), NEW x \in Shifts, NEW y \in Shifts
  PROVE  Unshifted(After(x, evs).chars) = Unshifted(After(y, evs).chars)
<1> DEFINE Same(s) == Unshifted(After(x, s).chars) = Unshifted(After(y, s).chars)
           S == {k \in Nat : k <= Len(evs) => Same(SubSeq(evs, 1, k))}
<1>1. 0 \in S
  <2>1. Same(<<>>)
    BY AfterEmpty
  <2> HIDE DEF Same
  <2> QED BY <2>1, SeqFacts, Zenon
<1>2. ASSUME NEW n \in Nat, n \in S PROVE n + 1 \in S
  <2>1. CASE n + 1 <= Len(evs)
    <3> DEFINE s == SubSeq(evs, 1, n)
               e == evs[n + 1]
               a == After(x, s)
               b == After(y, s)
    <3>1. n + 1 \in 1 .. Len(evs) /\ (n + 1) - 1 = n /\ n <= Len(evs) /\ n \in 0 .. Len(evs)
      BY <2>1, SeqFacts
    <3>2. Same(s)
      <4> HIDE DEF Same
      <4> QED BY <1>2, <3>1
    <3>3. SubSeq(evs, 1, n + 1) = Append(s, e) /\ e \in T /\ s \in Seq(T)
      BY <3>1, SeqFacts
    <3> HIDE DEF s, e
    <3>4. After(x, Append(s, e)) = Key(a, e) /\ After(y, Append(s, e)) = Key(b, e)
      BY <3>3, AfterAppend, Zenon
    <3>5. a \in State /\ b \in State
      BY <3>3, AfterType
    <3> HIDE DEF a, b
    <3>6. /\ Key(a, e).chars = a.chars \o KeyChars(e, a.shift)
          /\ Key(b, e).chars = b.chars \o KeyChars(e, b.shift)
      BY Zenon DEF Key
    <3>7. a.chars \in Seq(Char) /\ b.chars \in Seq(Char)
      BY <3>5 DEF State
    <3>8. Unshifted(Key(a, e).chars) = Unshifted(a.chars) \o Unshifted(KeyChars(e, a.shift))
      BY <3>6, <3>7, UnshiftedJoin, KeyCharsType, Zenon
    <3>9. Unshifted(Key(b, e).chars) = Unshifted(b.chars) \o Unshifted(KeyChars(e, b.shift))
      BY <3>6, <3>7, UnshiftedJoin, KeyCharsType, Zenon
    <3>10. Unshifted(a.chars) = Unshifted(b.chars)
      BY <3>2 DEF a, b
    <3>11. Unshifted(KeyChars(e, a.shift)) = Unshifted(KeyChars(e, b.shift))
      BY UnshiftedKey, Zenon
    <3>12. Same(Append(s, e))
      BY <3>4, <3>8, <3>9, <3>10, <3>11, Zenon
    <3> HIDE DEF Same
    <3>13. Same(SubSeq(evs, 1, n + 1))
      BY <3>3, <3>12, Zenon
    <3> QED BY <3>13
  <2>2. CASE ~(n + 1 <= Len(evs))
    BY <2>2
  <2> QED BY <2>1, <2>2
<1> HIDE DEF S
<1>3. Nat \subseteq S
  BY <1>1, <1>2, Induction, Zenon
<1> HIDE DEF Same
<1>4. Same(evs)
  <2>1. Len(evs) \in S /\ SubSeq(evs, 1, Len(evs)) = evs /\ Len(evs) <= Len(evs)
    BY <1>3, SeqFacts
  <2> QED BY <2>1, Zenon DEF S
<1> QED BY <1>4 DEF Same


----------------------------------------------------------------------------
(* What events mean when one is taken off the front, or when one that      *)
(* means nothing comes in between.                                         *)
LEMMA AfterFirst ==
  ASSUME NEW s \in Shifts, NEW h \in Payload, NEW r \in Seq(Payload)
  PROVE  /\ ShiftAfter(h, s) \in Shifts
         /\ After(s, <<h>> \o r).shift = After(ShiftAfter(h, s), r).shift
         /\ After(s, <<h>> \o r).chars = KeyChars(h, s) \o After(ShiftAfter(h, s), r).chars
<1> DEFINE m == After(s, <<h>>)
<1>1. <<h>> \in Seq(Payload) /\ <<>> \in Seq(Payload) /\ <<h>> = Append(<<>>, h)
  OBVIOUS
<1>2. After(s, <<>>) = [shift |-> s, chars |-> <<>>]
  BY AfterEmpty
<1>3. m = Key(After(s, <<>>), h)
  BY <1>1, AfterAppend, Zenon
<1>4. <<>> \o KeyChars(h, s) = KeyChars(h, s)
  BY KeyCharsType, SeqFacts, Zenon
<1>5. m = [shift |-> ShiftAfter(h, s), chars |-> KeyChars(h, s)]
  <2>1. (IF IsShift(h) THEN (IF h.value = 0 THEN 0 ELSE 1) ELSE s) = ShiftAfter(h, s)
    BY DEF ShiftAfter
  <2> DEFINE m0 == [shift |-> s, chars |-> <<>>]
  <2>2. m0.shift = s /\ m0.chars = <<>>
    OBVIOUS
  <2> HIDE DEF m0
  <2>3. Key(m0, h) = [shift |-> ShiftAfter(h, s), chars |-> <<>> \o KeyChars(h, s)]
    BY <2>1, <2>2 DEF Key
  <2> QED BY <1>2, <1>3, <1>4, <2>3 DEF m0
<1>6. After(s, <<h>> \o r) = Then(m, After(m.shift, r))
  BY <1>1, AfterJoin, Zenon
<1>7. ShiftAfter(h, s) \in Shifts
  BY DEF ShiftAfter, Shifts
<1> HIDE DEF m
<1> QED BY <1>5, <1>6, <1>7 DEF Then

LEMMA AfterMove ==
  ASSUME NEW s \in Shifts, NEW w \in Seq(Payload)
  PROVE  After(s, Append(w, Move)) = After(s, w)
<1> DEFINE m == After(s, w)
<1>1. After(s, Append(w, Move)) = Key(m, Move)
  BY Devices, AfterAppend
<1>2. m \in State
  BY AfterType
<1> HIDE DEF m
<1>3. Move.type = "REL"
  BY DEF Move
<1>4. KeyChars(Move, m.shift) = <<>> /\ ~IsShift(Move)
  BY <1>3 DEF KeyChars, IsShift
<1>5. m.chars \o <<>> = m.chars
  BY <1>2, SeqFacts DEF State
<1>6. m = [shift |-> m.shift, chars |-> m.chars]
  BY <1>2 DEF State
<1>7. Key(m, Move) = m
  BY <1>4, <1>5, <1>6 DEF Key
<1> QED BY <1>1, <1>7 DEF m

----------------------------------------------------------------------------
(* What is read is contained in what was typed, whatever overflowed.       *)
Ordered == Embeds(Unshifted(Text), Unshifted(Sent.chars))

IInv == Types /\ Rings /\ KeventInv /\ NoForgottenEvent /\ Keys /\ Ordered

(* A step that neither adds nor drops a character.                         *)
LEMMA KeptEffect ==
  ASSUME IInv, Text' = Text, Way'.shift = Way.shift, typed' = typed, lost' = lost
  PROVE  Keys' /\ Ordered'
<1>1. Sent' = Sent
  BY DEF Sent
<1>2. Keys /\ Ordered
  BY DEF IInv
<1>3. Keys'
  BY <1>1, <1>2 DEF Keys
<1>4. Ordered'
  BY <1>1, <1>2, Zenon DEF Ordered
<1> QED BY <1>3, <1>4

(* A key is typed.                                                         *)
LEMMA TypedEffect ==
  ASSUME IInv, NEW ev \in Payload, Way' = Key(Way, ev), typed' = Append(typed, ev),
         read' = read, g_input_q' = g_input_q, lost' = lost
  PROVE  Keys' /\ Ordered'
<1> DEFINE k == KeyChars(ev, Way.shift)
           r == read \o g_input_q
           j == KeyChars(ev, Sent.shift)
<1>1. /\ r \in Seq(Char) /\ Way.chars \in Seq(Char) /\ Sent.chars \in Seq(Char) /\ Text \in Seq(Char)
      /\ Text = r \o Way.chars
  BY WayFacts DEF IInv, Text
<1>2. k \in Seq(Char) /\ j \in Seq(Char)
  BY KeyCharsType
<1>3. Sent' = Key(Sent, ev)
  <2>1. typed \in Seq(Payload)
    BY DEF IInv, Types
  <2>2. After(0, Append(typed, ev)) = Key(After(0, typed), ev)
    BY <2>1, AfterAppend
  <2> QED BY <2>2 DEF Sent
<1>4. Way'.chars = Way.chars \o k
  BY Zenon DEF Key
<1>5. Text' = r \o (Way.chars \o k)
  BY <1>4 DEF Text
<1>6. Sent'.chars = Sent.chars \o j
  BY <1>3, Zenon DEF Key
<1> DEFINE w == Way.chars
           t == Sent.chars
<1> HIDE DEF k, r, j, w, t
<1>7. Text' = Text \o k
  <2>1. r \in Seq(Char) /\ w \in Seq(Char) /\ k \in Seq(Char)
    BY <1>1, <1>2 DEF w
  <2>2. r \o (w \o k) = (r \o w) \o k
    BY ONLY <2>1
  <2> QED BY <1>1, <1>5, <2>2 DEF w
<1>8. Keys'
  <2> SUFFICES ASSUME ~lost' PROVE Text' = Sent'.chars /\ Way'.shift = Sent'.shift
    BY DEF Keys
  <2>1. Text = Sent.chars /\ Way.shift = Sent.shift
    BY DEF IInv, Keys
  <2>2. Way'.shift = Sent'.shift
    BY <1>3, <2>1 DEF Key
  <2> QED BY <1>6, <1>7, <2>1, <2>2 DEF k, j
<1>9. Ordered'
  <2>1. Unshifted(Text') = Unshifted(Text) \o Unshifted(k)
    BY <1>1, <1>2, <1>7, UnshiftedJoin, Zenon
  <2>2. Unshifted(Sent'.chars) = Unshifted(t) \o Unshifted(j)
    BY <1>1, <1>2, <1>6, UnshiftedJoin, Zenon DEF t
  <2>3. Unshifted(k) = Unshifted(j)
    BY UnshiftedKey DEF k, j
  <2>4. /\ Unshifted(k) \in Seq(Char) /\ Unshifted(Text) \in Seq(Char) /\ Unshifted(t) \in Seq(Char)
    BY <1>1, <1>2, UnshiftedFacts, Zenon DEF t
  <2>5. Embeds(Unshifted(Text), Unshifted(t))
    BY DEF IInv, Ordered, t
  <2>6. Embeds(Unshifted(Text) \o Unshifted(k), Unshifted(t) \o Unshifted(k))
    BY <2>4, <2>5, EmbedsAppend
  <2>7. Embeds(Unshifted(Text'), Unshifted(Sent'.chars))
    BY <2>1, <2>2, <2>3, <2>6
  <2> QED BY <2>7 DEF Ordered
<1> QED BY <1>8, <1>9

(* A queue overflows: characters are missing in between.                   *)
LEMMA LossyEffect ==
  ASSUME IInv, lost', typed' = typed, NEW a \in Seq(Char), NEW b \in Seq(Char), NEW c \in Seq(Char),
         Unshifted(Text) = a \o (b \o c), Unshifted(Text') = a \o c
  PROVE  Keys' /\ Ordered'
<1>1. Sent' = Sent
  BY DEF Sent
<1>2. Keys'
  BY DEF Keys
<1>3. Unshifted(Sent.chars) \in Seq(Char)
  BY WayFacts, UnshiftedFacts DEF IInv
<1> DEFINE u == Unshifted(Text)
           v == Unshifted(Text')
           t == Unshifted(Sent.chars)
<1>4. t \in Seq(Char) /\ Embeds(u, t) /\ u = a \o (b \o c) /\ v = a \o c
  BY <1>3 DEF IInv, Ordered
<1> HIDE DEF u, v, t
<1>5. Embeds(v, t)
  BY <1>4, EmbedsDrop
<1>6. Ordered'
  BY <1>1, <1>5 DEF Ordered, u, v, t
<1> QED BY <1>2, <1>6


----------------------------------------------------------------------------
(* The actions, one after the other.                                       *)
LEMMA KeyTypedStep ==
  ASSUME IInv, NEW ev \in KeyEvent, KeyTyped(ev)
  PROVE  Keys' /\ Ordered'
<1>1. ev \in Payload
  BY Devices
<1>2. /\ Waiting \in Seq(Payload) /\ vi_used[0] \in Seq(Payload) /\ OnTheWay = Waiting \o vi_used[0]
      /\ OnTheWay \in Seq(Payload)
  BY WayFacts DEF IInv
<1>3. /\ vi_used' = [vi_used EXCEPT ![0] = Append(@, ev)] /\ typed' = Append(typed, ev)
      /\ read' = read /\ g_input_q' = g_input_q /\ lost' = lost /\ g_input_shift' = g_input_shift
      /\ UNCHANGED keventVars
  BY DEF KeyTyped, DeviceFills, shellVars
<1>4. vi_used'[0] = Append(vi_used[0], ev)
  BY <1>3, Devices DEF IInv, Types
<1>5. Waiting' = Waiting
  BY <1>3 DEF keventVars, Waiting, PayloadsOf, Held, Count, Entry
<1>6. OnTheWay' = Waiting' \o vi_used'[0]
  BY DEF OnTheWay, Waiting, PayloadsOf
<1> DEFINE w == Waiting
           u == vi_used[0]
<1>7. w \o Append(u, ev) = Append(w \o u, ev)
  <2>1. w \in Seq(Payload) /\ u \in Seq(Payload)
    BY <1>2
  <2> HIDE DEF w, u
  <2> QED BY ONLY <1>1, <2>1
<1>8. OnTheWay' = Append(OnTheWay, ev)
  BY <1>2, <1>4, <1>5, <1>6, <1>7
<1>9. After(g_input_shift, Append(OnTheWay, ev)) = Key(After(g_input_shift, OnTheWay), ev)
  BY <1>1, <1>2, AfterAppend, Zenon
<1>10. Way' = Key(Way, ev)
  BY <1>3, <1>8, <1>9 DEF Way
<1> QED BY <1>1, <1>3, <1>10, TypedEffect

(* What the shell will get only changes with the queues on the way.        *)
LEMMA Elsewhere ==
  ASSUME IInv, UNCHANGED <<Held, read, g_input_q, g_input_shift, typed, lost>>, vi_used'[0] = vi_used[0]
  PROVE  Keys' /\ Ordered'
<1>1. Way' = Way
  BY DEF Way, OnTheWay
<1>2. Text' = Text
  BY <1>1 DEF Text
<1> QED BY <1>1, <1>2, KeptEffect

(* The handler moves an event from a device to the queue: it means what it *)
(* meant before, behind the events w that the queue holds.                 *)
LEMMA MovedAlong ==
  ASSUME IInv, NEW d \in Dev, vi_used[d] # <<>>, vi_used' = [vi_used EXCEPT ![d] = Tail(@)],
         NEW w \in Seq(Payload)
  PROVE  /\ After(g_input_shift, Append(w, Head(vi_used[d])) \o vi_used'[0]) = After(g_input_shift, w \o vi_used[0])
         /\ Head(vi_used[d]) \in Payload
<1> DEFINE p == Head(vi_used[d])
           u == vi_used[0]
           s == g_input_shift
<1>1. u \in Seq(Payload) /\ vi_used[d] \in Seq(Payload) /\ p \in Payload /\ s \in Shifts
  <2>1. u \in Seq(Payload) /\ vi_used[d] \in Seq(Payload) /\ s \in Shifts
    BY Devices DEF IInv, Types
  <2> DEFINE v == vi_used[d]
  <2>2. v \in Seq(Payload) /\ v # <<>>
    BY <2>1
  <2> HIDE DEF v
  <2>3. Head(v) \in Payload
    BY ONLY <2>2
  <2> QED BY <2>1, <2>3 DEF v
<1>2. vi_used \in [Dev -> Seq(Payload)] /\ 0 \in Dev
  BY Devices DEF IInv, Types
<1>3. CASE d = 0
  <2>1. vi_used'[0] = Tail(u) /\ p = Head(u) /\ u # <<>>
    BY <1>2, <1>3
  <2> HIDE DEF p, u
  <2>2. Append(w, p) \o Tail(u) = w \o u
    <3>1. Tail(u) \in Seq(Payload) /\ u = <<p>> \o Tail(u) /\ <<p>> \in Seq(Payload)
      BY <1>1, <2>1
    <3> DEFINE r == Tail(u)
               h == <<p>>
    <3>2. r \in Seq(Payload) /\ h \in Seq(Payload) /\ w \in Seq(Payload) /\ u = h \o r /\ Append(w, p) = w \o h
      BY <1>1, <3>1
    <3> HIDE DEF r, h
    <3>3. (w \o h) \o r = w \o (h \o r)
      BY ONLY <3>2
    <3> QED BY <3>2, <3>3, Zenon DEF r
  <2> QED BY <1>1, <2>1, <2>2, Zenon DEF p, u
<1>4. CASE d # 0
  <2>1. vi_used'[0] = u
    BY <1>2, <1>4
  <2>2. p = Move
    <3>1. vi_used[d] \in Seq({Move})
      BY <1>4 DEF IInv, Rings
    <3> QED BY <3>1
  <2> HIDE DEF p, u, s
  <2>3. Append(w, Move) \in Seq(Payload)
    BY <1>1, <2>2
  <2>4. After(s, Append(w, Move)) = After(s, w)
    BY <1>1, AfterMove
  <2>5. After(s, Append(w, Move) \o u) = Then(After(s, Append(w, Move)), After(After(s, Append(w, Move)).shift, u))
    BY <1>1, <2>3, AfterJoin, Zenon
  <2>6. After(s, w \o u) = Then(After(s, w), After(After(s, w).shift, u))
    BY <1>1, AfterJoin
  <2>7. After(s, Append(w, p) \o u) = After(s, w \o u)
    BY <2>2, <2>4, <2>5, <2>6
  <2> QED BY <1>1, <2>1, <2>7 DEF p, u, s
<1> QED BY <1>3, <1>4

LEMMA PushKeysStep ==
  ASSUME IInv, NEW d \in Dev, irq_push(d)
  PROVE  Keys' /\ Ordered'
<1> DEFINE p == Head(vi_used[d])
           s == g_input_shift
           u == vi_used[0]
           r == read \o g_input_q
<1>1. /\ vi_used[d] # <<>> /\ vi_used' = [vi_used EXCEPT ![d] = Tail(@)] /\ kevent_push(p)
      /\ read' = read /\ g_input_q' = g_input_q /\ g_input_shift' = g_input_shift /\ typed' = typed
      /\ lost' = (lost \/ Count = KEVENT_Q_CAP - 1)
  BY DEF irq_push, vi_fetch_one_event, shellVars
<1>2. /\ Waiting \in Seq(Payload) /\ u \in Seq(Payload) /\ OnTheWay = Waiting \o u
      /\ s \in Shifts /\ r \in Seq(Char) /\ KeventInv
  BY WayFacts, Zenon DEF IInv, Types
<1>3. p \in Payload
  BY <1>1, <1>2, MovedAlong, Zenon
<1>4. /\ Waiting' = Append(IF Count = KEVENT_Q_CAP - 1 THEN Tail(Waiting) ELSE Waiting, p)
      /\ Count = KEVENT_Q_CAP - 1 => Waiting # <<>> /\ Tail(Waiting) \in Seq(Payload)
  BY <1>1, <1>2, <1>3, WaitingPush
<1>5. OnTheWay' = Waiting' \o vi_used'[0] /\ Way' = After(s, OnTheWay')
  BY <1>1 DEF OnTheWay, Waiting, PayloadsOf, Way
<1>6. CASE Count # KEVENT_Q_CAP - 1
  <2>1. Way' = After(s, Append(Waiting, p) \o vi_used'[0])
    BY <1>4, <1>5, <1>6
  <2>2. After(s, Append(Waiting, p) \o vi_used'[0]) = After(s, Waiting \o u)
    BY <1>1, <1>2, MovedAlong, Zenon
  <2>3. Way' = Way
    BY <1>2, <2>1, <2>2 DEF Way
  <2>4. Text' = Text
    BY <1>1, <2>3 DEF Text
  <2>5. lost' = lost
    BY <1>1, <1>6 DEF IInv, Types
  <2> QED BY <1>1, <2>3, <2>4, <2>5, KeptEffect
<1>7. CASE Count = KEVENT_Q_CAP - 1
  <2> DEFINE w == Tail(Waiting)
             h == Head(Waiting)
             x == ShiftAfter(h, s)
             k == KeyChars(h, s)
             c == After(x, w \o u).chars
             e == After(s, w \o u).chars
  <2>1. w \in Seq(Payload) /\ Waiting = <<h>> \o w /\ h \in Payload
    BY <1>2, <1>4, <1>7
  <2>2. Way' = After(s, Append(w, p) \o vi_used'[0])
    BY <1>4, <1>5, <1>7
  <2>3. After(s, Append(w, p) \o vi_used'[0]) = After(s, w \o u)
    BY <1>1, <2>1, MovedAlong, Zenon
  <2>4. Text' = r \o e
    BY <1>1, <2>2, <2>3, Zenon DEF Text
  <2> HIDE DEF w, h, u
  <2>5. w \o u \in Seq(Payload) /\ (<<h>> \o w) \o u = <<h>> \o (w \o u)
    <3>1. <<h>> \in Seq(Payload) /\ w \in Seq(Payload) /\ u \in Seq(Payload)
      BY <1>2, <2>1
    <3> DEFINE hh == <<h>>
    <3> HIDE DEF hh
    <3>2. (hh \o w) \o u = hh \o (w \o u) /\ w \o u \in Seq(Payload)
      <4>1. hh \in Seq(Payload)
        BY <3>1 DEF hh
      <4> QED BY ONLY <3>1, <4>1
    <3> QED BY <3>2 DEF hh
  <2>6. Way = After(s, <<h>> \o (w \o u))
    BY <1>2, <2>1, <2>5, Zenon DEF Way
  <2>7. x \in Shifts /\ Way.chars = k \o c
    BY <1>2, <2>1, <2>5, <2>6, AfterFirst, Zenon
  <2>8. k \in Seq(Char)
    BY KeyCharsType
  <2>9. c \in Seq(Char) /\ e \in Seq(Char)
    BY <1>2, <2>5, <2>7, AfterType, Zenon DEF State
  <2>10. Unshifted(c) = Unshifted(e)
    BY <1>2, <2>5, <2>7, UnshiftedAfter, Zenon
  <2>11. Text = r \o (k \o c)
    BY <2>7 DEF Text
  <2> HIDE DEF r, k, c, e
  <2>12. k \o c \in Seq(Char)
    BY <2>8, <2>9
  <2>13. Unshifted(Text) = Unshifted(r) \o (Unshifted(k) \o Unshifted(c))
    BY <1>2, <2>8, <2>9, <2>11, <2>12, UnshiftedJoin, Zenon
  <2>14. Unshifted(Text') = Unshifted(r) \o Unshifted(c)
    BY <1>2, <2>4, <2>9, <2>10, UnshiftedJoin, Zenon
  <2>15. /\ Unshifted(r) \in Seq(Char) /\ Unshifted(k) \in Seq(Char) /\ Unshifted(c) \in Seq(Char)
    BY <1>2, <2>8, <2>9, UnshiftedFacts
  <2>16. lost'
    BY <1>1, <1>7, Zenon
  <2> QED BY <1>1, <2>13, <2>14, <2>15, <2>16, LossyEffect, Zenon
<1> QED BY <1>6, <1>7


LEMMA CutAt ==
  ASSUME NEW k \in Seq(Char), NEW n \in 0 .. Len(k)
  PROVE  /\ SubSeq(k, 1, n) \in Seq(Char) /\ SubSeq(k, n + 1, Len(k)) \in Seq(Char)
         /\ k = SubSeq(k, 1, n) \o SubSeq(k, n + 1, Len(k))
         /\ n = Len(k) => SubSeq(k, 1, n) = k
<1> DEFINE a == SubSeq(k, 1, n)
           b == SubSeq(k, n + 1, Len(k))
<1>1. a \in Seq(Char) /\ Len(a) = n /\ \A i \in 1 .. n : a[i] = k[i]
  OBVIOUS
<1>2. b \in Seq(Char) /\ Len(b) = Len(k) - n /\ \A i \in 1 .. Len(k) - n : b[i] = k[n + i]
  OBVIOUS
<1> HIDE DEF a, b
<1> DEFINE ab == a \o b
<1>3. ab \in Seq(Char) /\ Len(ab) = Len(k) /\ \A i \in 1 .. Len(k) : ab[i] = IF i <= n THEN a[i] ELSE b[i - n]
  BY <1>1, <1>2
<1> HIDE DEF ab
<1>4. ASSUME NEW i \in 1 .. Len(k) PROVE ab[i] = k[i]
  <2>1. CASE i <= n
    BY <1>1, <1>3, <2>1
  <2>2. CASE i > n
    <3>1. i - n \in 1 .. Len(k) - n /\ n + (i - n) = i /\ ~(i <= n)
      BY <2>2
    <3> QED BY <1>2, <1>3, <3>1
  <2> QED BY <2>1, <2>2
<1>5. ab = k
  BY <1>3, <1>4
<1>6. n = Len(k) => a = k
  BY SeqFacts DEF a
<1> QED BY <1>1, <1>2, <1>5, <1>6, Zenon DEF a, b, ab

LEMMA GetcharKeysStep ==
  ASSUME IInv, u_getchar_event
  PROVE  Keys' /\ Ordered'
<1> DEFINE h == Head(Waiting)
           s == g_input_shift
           u == vi_used[0]
           w == Tail(Waiting)
           x == ShiftAfter(h, s)
           k == KeyChars(h, s)
           c == Way'.chars
           q == g_input_q
           n == Taken(q, k)
<1>1. /\ Waiting \in Seq(Payload) /\ u \in Seq(Payload) /\ OnTheWay = Waiting \o u
      /\ s \in Shifts /\ KeventInv /\ read \in Seq(Char) /\ q \in Seq(Char) /\ Len(q) < INPUT_Q_SIZE
      /\ lost \in BOOLEAN
  BY WayFacts, Zenon DEF IInv, Types
<1>2. Waiting # <<>> /\ out'.payload = h /\ Waiting' = w
  BY <1>1, WaitingPop DEF u_getchar_event
<1>3. /\ g_input_shift' = x /\ g_input_q' = input_q_push_all(q, k) /\ read' = read /\ typed' = typed
      /\ lost' = (lost \/ Len(q) + Len(k) > INPUT_Q_SIZE - 1) /\ vi_used' = vi_used
  BY <1>2 DEF u_getchar_event, deviceVars
<1>4. w \in Seq(Payload) /\ Waiting = <<h>> \o w /\ h \in Payload
  BY <1>1, <1>2
<1>5. OnTheWay' = w \o u /\ Way' = After(x, w \o u)
  BY <1>2, <1>3, Zenon DEF OnTheWay, Waiting, PayloadsOf, Way
<1> HIDE DEF w, h, u
<1>6. w \o u \in Seq(Payload) /\ (<<h>> \o w) \o u = <<h>> \o (w \o u)
  <2>1. <<h>> \in Seq(Payload) /\ w \in Seq(Payload) /\ u \in Seq(Payload)
    BY <1>1, <1>4
  <2> DEFINE hh == <<h>>
  <2> HIDE DEF hh
  <2>2. (hh \o w) \o u = hh \o (w \o u) /\ w \o u \in Seq(Payload)
    <3>1. hh \in Seq(Payload)
      BY <2>1 DEF hh
    <3> QED BY ONLY <2>1, <3>1
  <2> QED BY <2>2 DEF hh
<1>7. Way = After(s, <<h>> \o (w \o u))
  BY <1>1, <1>4, <1>6, Zenon DEF Way
<1>8. x \in Shifts /\ Way.chars = k \o c /\ Way.shift = Way'.shift
  BY <1>1, <1>4, <1>5, <1>6, <1>7, AfterFirst, Zenon
<1>9. k \in Seq(Char)
  BY KeyCharsType
<1>10. c \in Seq(Char)
  BY <1>5, <1>6, <1>8, AfterType, Zenon DEF State
<1>11. Text = (read \o q) \o (k \o c) /\ Text' = (read \o input_q_push_all(q, k)) \o c
  BY <1>3, <1>8 DEF Text
<1>12. n \in 0 .. Len(k) /\ input_q_push_all(q, k) = q \o SubSeq(k, 1, n)
  BY <1>1, <1>9, PushAll
<1>13. INPUT_Q_SIZE \in Nat /\ Len(q) \in Nat /\ Len(k) \in Nat
  BY <1>1, <1>9, Devices
<1> DEFINE a == SubSeq(k, 1, n)
           b == SubSeq(k, n + 1, Len(k))
<1> HIDE DEF n, q, k, c
<1>14. a \in Seq(Char) /\ b \in Seq(Char) /\ k = a \o b /\ (n = Len(k) => a = k)
  BY <1>9, <1>12, CutAt, Zenon
<1> HIDE DEF a, b
<1>15. (read \o (q \o a)) \o c = (read \o q) \o (a \o c) /\ (read \o q) \o (k \o c) = ((read \o q) \o a) \o (b \o c)
  <2>1. /\ read \in Seq(Char) /\ q \in Seq(Char) /\ a \in Seq(Char) /\ b \in Seq(Char) /\ c \in Seq(Char) /\ k = a \o b
    BY <1>1, <1>10, <1>14
  <2> DEFINE r == read
  <2> HIDE DEF r
  <2>2. /\ r \in Seq(Char) /\ q \in Seq(Char) /\ a \in Seq(Char) /\ b \in Seq(Char) /\ c \in Seq(Char)
    BY <2>1 DEF r
  <2>3. r \o (q \o a) = (r \o q) \o a /\ r \o q \in Seq(Char)
    <3>1. r \in Seq(Char) /\ q \in Seq(Char) /\ a \in Seq(Char)
      BY <2>2
    <3>2. r \o (q \o a) = (r \o q) \o a
      BY ONLY <3>1
    <3> QED BY <3>1, <3>2
  <2> DEFINE rq == r \o q
  <2>4. rq \in Seq(Char)
    BY <2>3
  <2> HIDE DEF rq
  <2>5. (rq \o a) \o c = rq \o (a \o c)
    BY ONLY <2>2, <2>4
  <2>6. (a \o b) \o c = a \o (b \o c) /\ b \o c \in Seq(Char)
    BY ONLY <2>2
  <2> DEFINE bc == b \o c
  <2>7. bc \in Seq(Char)
    BY <2>6
  <2> HIDE DEF bc
  <2>8. rq \o (a \o bc) = (rq \o a) \o bc
    BY ONLY <2>2, <2>4, <2>7, SMTT(30)
  <2>9. rq \o ((a \o b) \o c) = (rq \o a) \o (b \o c)
    BY <2>6, <2>8 DEF bc
  <2> QED BY <2>1, <2>3, <2>5, <2>9 DEF rq, r
<1>16. CASE Len(q) + Len(k) <= INPUT_Q_SIZE - 1
  <2>1. n = Len(k)
    BY <1>13, <1>16 DEF n, Taken, Room
  <2>2. a = k
    BY <1>14, <2>1
  <2>3. Text' = Text
    BY <1>11, <1>12, <1>15, <2>2, Zenon DEF a
  <2>4. lost' = lost
    BY <1>1, <1>3, <1>13, <1>16 DEF q, k
  <2> QED BY <1>3, <1>8, <2>3, <2>4, KeptEffect
<1>17. CASE ~(Len(q) + Len(k) <= INPUT_Q_SIZE - 1)
  <2> DEFINE ra == (read \o q) \o a
  <2>1. Text' = ra \o c
    <3>1. (read \o (q \o a)) \o c = ra \o c
      <4> DEFINE r == read
      <4>1. r \in Seq(Char) /\ q \in Seq(Char) /\ a \in Seq(Char)
        BY <1>1, <1>14
      <4> HIDE DEF r
      <4>2. r \o (q \o a) = (r \o q) \o a
        BY ONLY <4>1
      <4> QED BY <4>2 DEF r
    <3> QED BY <1>11, <1>12, <3>1, Zenon DEF a
  <2>2. Text = ra \o (b \o c)
    BY <1>11, <1>15
  <2>3. ra \in Seq(Char) /\ b \in Seq(Char) /\ c \in Seq(Char) /\ b \o c \in Seq(Char)
    BY <1>1, <1>10, <1>14
  <2> HIDE DEF ra
  <2>4. Unshifted(Text') = Unshifted(ra) \o Unshifted(c)
    BY <2>1, <2>3, UnshiftedJoin, Zenon
  <2>5. Unshifted(Text) = Unshifted(ra) \o (Unshifted(b) \o Unshifted(c))
    BY <2>2, <2>3, UnshiftedJoin, Zenon
  <2>6. Unshifted(ra) \in Seq(Char) /\ Unshifted(b) \in Seq(Char) /\ Unshifted(c) \in Seq(Char)
    BY <2>3, UnshiftedFacts
  <2>7. lost'
    <3>1. Len(q) + Len(k) > INPUT_Q_SIZE - 1
      BY <1>13, <1>17
    <3> QED BY <1>3, <3>1, Zenon DEF q, k
  <2> QED BY <1>3, <2>4, <2>5, <2>6, <2>7, LossyEffect, Zenon
<1> QED BY <1>16, <1>17

LEMMA ReadStep ==
  ASSUME IInv, input_q_pop
  PROVE  Keys' /\ Ordered'
<1> DEFINE q == g_input_q
           c == Head(q)
           t == Tail(q)
<1>1. /\ q # <<>> /\ read' = Append(read, c) /\ g_input_q' = t /\ g_input_shift' = g_input_shift
      /\ typed' = typed /\ lost' = lost /\ vi_used' = vi_used /\ UNCHANGED keventVars
  BY DEF input_q_pop, deviceVars
<1>2. q \in Seq(Char) /\ read \in Seq(Char)
  BY DEF IInv, Types
<1>3. Append(read, c) \o t = read \o q
  <2>1. t \in Seq(Char) /\ q = <<c>> \o t /\ <<c>> \in Seq(Char) /\ c \in Char
    BY <1>1, <1>2
  <2> DEFINE r == read
             h == <<c>>
  <2> HIDE DEF q, c, t
  <2>2. r \in Seq(Char) /\ t \in Seq(Char) /\ h \in Seq(Char) /\ Append(r, c) = r \o h
    BY <1>2, <2>1
  <2> HIDE DEF h, r
  <2>3. (r \o h) \o t = r \o (h \o t)
    BY ONLY <2>2
  <2> QED BY <2>1, <2>2, <2>3 DEF h, r
<1>4. Way' = Way
  BY <1>1 DEF keventVars, Way, OnTheWay, Held, Count, Entry
<1>5. Text' = Text
  BY <1>1, <1>3, <1>4, Zenon DEF Text
<1> QED BY <1>1, <1>4, <1>5, KeptEffect


----------------------------------------------------------------------------
(* What else the actions keep.                                             *)
Safe == Types /\ Rings /\ KeventInv /\ NoForgottenEvent

LEMMA KeventSame ==
  ASSUME KeventInv, UNCHANGED keventVars
  PROVE  KeventInv' /\ Held' = Held
BY DEF keventVars, KeventInv, KeventTypeOK, HeldEvents, HeldNumbers, LossOnlyWhenFull, Expected, Held, Count, Entry

LEMMA FillStep ==
  ASSUME Safe, NEW d \in Dev, NEW ev \in Payload, d # 0 => ev = Move, DeviceFills(d, ev),
         typed' \in Seq(Payload)
  PROVE  Safe' /\ (d # 0 => vi_used'[0] = vi_used[0])
<1> USE DEF Safe
<1>1. /\ vi_avail' = [vi_avail EXCEPT ![d] = @ - 1] /\ vi_used' = [vi_used EXCEPT ![d] = Append(@, ev)]
      /\ isr' = [isr EXCEPT ![d] = TRUE] /\ vi_avail[d] > 0
      /\ UNCHANGED <<vi_rr_next, hpc, g_input_q, g_input_shift, spc, line, read, lost>> /\ UNCHANGED keventVars
  BY DEF DeviceFills, handlerVars, shellVars
<1>2. vi_avail \in [Dev -> Nat] /\ vi_used \in [Dev -> Seq(Payload)] /\ isr \in [Dev -> BOOLEAN]
  BY DEF Types
<1>3. Append(vi_used[d], ev) \in Seq(Payload) /\ Len(Append(vi_used[d], ev)) = Len(vi_used[d]) + 1
  BY <1>2
<1>4. vi_avail[d] - 1 \in Nat /\ vi_avail[d] \in Nat /\ Len(vi_used[d]) \in Nat
  BY <1>1, <1>2
<1>5. Types'
  BY <1>1, <1>2, <1>3, <1>4 DEF Types
<1>6. ASSUME NEW e \in Dev PROVE vi_avail'[e] + Len(vi_used'[e]) = VI_QNUM /\ (e # 0 => vi_used'[e] \in Seq({Move}))
  <2>1. vi_avail[e] + Len(vi_used[e]) = VI_QNUM /\ (e # 0 => vi_used[e] \in Seq({Move}))
    BY DEF Rings
  <2>2. CASE e = d
    <3>1. vi_avail'[e] = vi_avail[d] - 1 /\ vi_used'[e] = Append(vi_used[d], ev)
      BY <1>1, <1>2, <2>2
    <3>2. e # 0 => Append(vi_used[d], ev) \in Seq({Move})
      <4> DEFINE u == vi_used[d]
      <4>1. e # 0 => u \in Seq({Move}) /\ ev \in {Move}
        BY <2>1, <2>2
      <4> HIDE DEF u
      <4>2. e # 0 => Append(u, ev) \in Seq({Move})
        BY <4>1
      <4> QED BY <4>2 DEF u
    <3>3. vi_avail'[e] + Len(vi_used'[e]) = VI_QNUM
      <4>1. Len(vi_used'[e]) = Len(vi_used[d]) + 1
        BY <1>3, <3>1
      <4>2. vi_avail[d] + Len(vi_used[d]) = VI_QNUM
        BY <2>1, <2>2
      <4> DEFINE x == vi_avail[d]
                 y == Len(vi_used[d])
                 z == Len(vi_used'[e])
      <4>3. x \in Nat /\ y \in Nat /\ z = y + 1 /\ x + y = VI_QNUM /\ vi_avail'[e] = x - 1
        BY <1>4, <3>1, <4>1, <4>2
      <4> HIDE DEF x, y, z
      <4>4. (x - 1) + z = VI_QNUM
        BY ONLY <4>3
      <4> QED BY <4>3, <4>4 DEF z
    <3> QED BY <3>1, <3>2, <3>3
  <2>3. CASE e # d
    BY <1>1, <1>2, <2>1, <2>3
  <2> QED BY <2>2, <2>3
<1>7. Rings'
  BY <1>6 DEF Rings
<1>8. NoForgottenEvent'
  BY <1>1, <1>2 DEF NoForgottenEvent
<1>9. d # 0 => vi_used'[0] = vi_used[0]
  BY <1>1, <1>2, Devices
<1> QED BY <1>1, <1>5, <1>7, <1>8, <1>9, KeventSame

LEMMA HandlerStep ==
  ASSUME Safe, handle_external_interrupt \/ irq_ack \/ irq_return
  PROVE  Safe' /\ UNCHANGED <<vi_used, keventVars, read, g_input_q, g_input_shift, typed, lost>>
<1> USE DEF Safe
<1>1. CASE handle_external_interrupt
  <2>1. hpc' = 0 /\ UNCHANGED <<deviceVars, vi_rr_next, keventVars, shellVars, typed, moves, lost>>
    BY <1>1 DEF handle_external_interrupt
  <2>2. Types' /\ Rings' /\ NoForgottenEvent'
    BY <2>1, Devices, Zenon DEF Types, Rings, NoForgottenEvent, deviceVars, shellVars
  <2> QED BY <2>1, <2>2, KeventSame DEF deviceVars, shellVars
<1>2. CASE irq_ack
  <2>1. /\ hpc \in Dev /\ isr' = [isr EXCEPT ![hpc] = FALSE] /\ hpc' = hpc + 1
        /\ UNCHANGED <<vi_avail, vi_used, vi_rr_next, keventVars, shellVars, typed, moves, lost>>
    BY <1>2 DEF irq_ack
  <2>2. hpc' \in Dev \cup {Fetch} /\ hpc' # Off
    BY <2>1, Devices
  <2>3. isr' \in [Dev -> BOOLEAN]
    BY <2>1 DEF Types
  <2>4. Types' /\ Rings' /\ NoForgottenEvent'
    BY <2>1, <2>2, <2>3, Zenon DEF Types, Rings, NoForgottenEvent, shellVars
  <2> QED BY <2>1, <2>4, KeventSame DEF shellVars
<1>3. CASE irq_return
  <2>1. /\ hpc' = Off /\ \A d \in Dev : vi_used[d] = <<>>
        /\ UNCHANGED <<deviceVars, vi_rr_next, keventVars, shellVars, typed, moves, lost>>
    BY <1>3 DEF irq_return
  <2>2. Types' /\ Rings' /\ NoForgottenEvent'
    BY <2>1 DEF Types, Rings, NoForgottenEvent, deviceVars, shellVars
  <2> QED BY <2>1, <2>2, KeventSame DEF deviceVars, shellVars
<1> QED BY <1>1, <1>2, <1>3

LEMMA FetchStep ==
  ASSUME Safe, NEW d \in Dev, irq_push(d)
  PROVE  Safe'
<1> USE DEF Safe
<1> DEFINE p == Head(vi_used[d])
<1>1. /\ vi_used[d] # <<>> /\ vi_used' = [vi_used EXCEPT ![d] = Tail(@)]
      /\ vi_avail' = [vi_avail EXCEPT ![d] = @ + 1] /\ vi_rr_next' = (d + 1) % vi_dev_count
      /\ kevent_push(p) /\ lost' = (lost \/ Count = KEVENT_Q_CAP - 1) /\ hpc = Fetch
      /\ UNCHANGED <<isr, hpc, g_input_q, g_input_shift, spc, line, read, typed, moves>>
  BY DEF irq_push, vi_fetch_one_event, shellVars
<1>2. vi_avail \in [Dev -> Nat] /\ vi_used \in [Dev -> Seq(Payload)]
  BY DEF Types
<1> DEFINE u == vi_used[d]
<1>3. u \in Seq(Payload) /\ u # <<>> /\ vi_avail[d] \in Nat /\ (d # 0 => u \in Seq({Move}))
  BY <1>1, <1>2 DEF Rings
<1>4. Head(u) \in Payload /\ Tail(u) \in Seq(Payload) /\ Len(Tail(u)) = Len(u) - 1 /\ Len(u) \in Nat
  <2> HIDE DEF u
  <2> QED BY <1>3
<1>5. d # 0 => Tail(u) \in Seq({Move})
  <2> HIDE DEF u
  <2> QED BY <1>3
<1>6. KeventInv'
  BY <1>1, <1>4, PushStep
<1>7. Types'
  <2>1. lost' \in BOOLEAN
    BY <1>1
  <2>2. vi_rr_next' \in Dev
    BY <1>1, Devices
  <2>3. vi_used' \in [Dev -> Seq(Payload)]
    BY <1>1, <1>2, <1>4
  <2>4. vi_avail' \in [Dev -> Nat]
    BY <1>1, <1>2, <1>3
  <2> HIDE DEF p, u
  <2> QED BY <1>1, <2>1, <2>2, <2>3, <2>4, Zenon DEF Types
<1>8. ASSUME NEW e \in Dev PROVE vi_avail'[e] + Len(vi_used'[e]) = VI_QNUM /\ (e # 0 => vi_used'[e] \in Seq({Move}))
  <2>1. vi_avail[e] + Len(vi_used[e]) = VI_QNUM /\ (e # 0 => vi_used[e] \in Seq({Move}))
    BY DEF Rings
  <2>2. CASE e = d
    <3>1. vi_avail'[e] = vi_avail[d] + 1 /\ vi_used'[e] = Tail(u)
      BY <1>1, <1>2, <2>2
    <3> QED BY <1>3, <1>4, <1>5, <2>1, <2>2, <3>1
  <2>3. CASE e # d
    BY <1>1, <1>2, <2>1, <2>3
  <2> QED BY <2>2, <2>3
<1>9. Rings'
  BY <1>8 DEF Rings
<1>10. NoForgottenEvent'
  BY <1>1, Devices DEF NoForgottenEvent
<1> QED BY <1>6, <1>7, <1>9, <1>10


LEMMA EditType ==
  ASSUME NEW T, NEW l \in Seq(T), Len(l) < SHELL_MAX_LINE, NEW ch \in T
  PROVE  Edit(l, ch) \in Seq(T) /\ Len(Edit(l, ch)) < SHELL_MAX_LINE
<1>1. SHELL_MAX_LINE \in Nat /\ SHELL_MAX_LINE > 0 /\ Len(l) \in Nat
  BY Devices
<1>2. l # <<>> => Front(l) \in Seq(T) /\ Len(Front(l)) = Len(l) - 1
  <2>1. l # <<>> => Len(l) - 1 \in 0 .. Len(l)
    BY <1>1
  <2>2. \A k \in 0 .. Len(l) : SubSeq(l, 1, k) \in Seq(T) /\ Len(SubSeq(l, 1, k)) = k
    OBVIOUS
  <2> QED BY <2>1, <2>2, Zenon DEF Front
<1>3. Append(l, ch) \in Seq(T) /\ Len(Append(l, ch)) = Len(l) + 1
  OBVIOUS
<1>4. <<>> \in Seq(T) /\ Len(<<>>) = 0
  OBVIOUS
<1>5. \/ Edit(l, ch) = <<>>
      \/ Edit(l, ch) = l
      \/ l # <<>> /\ Edit(l, ch) = Front(l)
      \/ Len(l) + 1 < SHELL_MAX_LINE /\ Edit(l, ch) = Append(l, ch)
  BY DEF Edit
<1> DEFINE x == Edit(l, ch)
<1> HIDE DEF x
<1>6. CASE x = <<>>
  BY <1>1, <1>4, <1>6 DEF x
<1>7. CASE x = l
  BY <1>7 DEF x
<1>8. CASE l # <<>> /\ x = Front(l)
  BY <1>1, <1>2, <1>8 DEF x
<1>9. CASE Len(l) + 1 < SHELL_MAX_LINE /\ x = Append(l, ch)
  BY <1>3, <1>9 DEF x
<1> QED BY <1>5, <1>6, <1>7, <1>8, <1>9 DEF x

LEMMA PopStepSafe ==
  ASSUME Safe, input_q_pop
  PROVE  Safe'
<1> USE DEF Safe
<1> DEFINE q == g_input_q
<1>1. /\ q # <<>> /\ read' = Append(read, Head(q)) /\ line' = Edit(line, Head(q)) /\ g_input_q' = Tail(q)
      /\ spc' = Start
      /\ UNCHANGED <<deviceVars, handlerVars, keventVars, g_input_shift, typed, moves, lost>>
  BY DEF input_q_pop
<1>2. q \in Seq(Char) /\ Len(q) < INPUT_Q_SIZE /\ INPUT_Q_SIZE \in Nat /\ read \in Seq(Char)
  BY Devices DEF Types
<1>3. Head(q) \in Char /\ Tail(q) \in Seq(Char) /\ Len(Tail(q)) < INPUT_Q_SIZE
  <2>1. q # <<>>
    BY <1>1
  <2> HIDE DEF q
  <2> QED BY <1>2, <2>1
<1>4. read' \in Seq(Char)
  BY <1>1, <1>2, <1>3
<1>5. line' \in Seq(Char \cup Console) /\ Len(line') < SHELL_MAX_LINE
  <2>1. line \in Seq(Char \cup Console) /\ Len(line) < SHELL_MAX_LINE /\ Head(q) \in Char \cup Console
    BY <1>3 DEF Types
  <2> HIDE DEF q
  <2> QED BY <1>1, <2>1, EditType
<1>6. Start \in Start .. Done
  BY Devices
<1>7. Types'
  BY <1>1, <1>3, <1>4, <1>5, <1>6 DEF Types, deviceVars, handlerVars
<1>8. Rings' /\ NoForgottenEvent'
  BY <1>1, Zenon DEF Rings, NoForgottenEvent, deviceVars, handlerVars
<1> QED BY <1>1, <1>7, <1>8, KeventSame

LEMMA GetcharSafe ==
  ASSUME Safe, u_getchar_event
  PROVE  Safe'
<1> USE DEF Safe
<1> DEFINE k == KeyChars(out'.payload, g_input_shift)
           q == g_input_q
           n == Taken(q, k)
<1>1. /\ kevent_pop /\ g_input_shift' = ShiftAfter(out'.payload, g_input_shift)
      /\ g_input_q' = input_q_push_all(q, k)
      /\ lost' = (lost \/ Len(q) + Len(k) > INPUT_Q_SIZE - 1)
      /\ spc \in 0 .. PollMax - 1 /\ spc' = IF spc + 1 = PollMax THEN Done ELSE spc + 1
      /\ UNCHANGED <<deviceVars, handlerVars, line, read, typed, moves>>
  BY DEF u_getchar_event
<1>2. q \in Seq(Char) /\ Len(q) < INPUT_Q_SIZE /\ INPUT_Q_SIZE \in Nat /\ Len(q) \in Nat
  BY Devices DEF Types
<1>3. k \in Seq(Char)
  BY KeyCharsType
<1> HIDE DEF q, k
<1>4. n \in 0 .. Len(k) /\ n <= Room(q) /\ input_q_push_all(q, k) = q \o SubSeq(k, 1, n)
  BY <1>2, <1>3, PushAll
<1> HIDE DEF n
<1>5. SubSeq(k, 1, n) \in Seq(Char) /\ Len(SubSeq(k, 1, n)) = n
  BY <1>3, <1>4
<1> DEFINE a == SubSeq(k, 1, n)
<1> HIDE DEF a
<1>6. q \o a \in Seq(Char) /\ Len(q \o a) = Len(q) + n
  BY <1>2, <1>5 DEF a
<1>7. Len(q \o a) < INPUT_Q_SIZE
  <2>1. n \in Nat /\ n <= INPUT_Q_SIZE - 1 - Len(q)
    BY <1>3, <1>4 DEF Room
  <2> QED BY <1>2, <1>6, <2>1
<1>8. spc' \in Start .. Done
  BY <1>1, Devices
<1>9. g_input_shift' \in Shifts
  BY <1>1 DEF ShiftAfter, Shifts, Types
<1>10. lost' \in BOOLEAN
  BY <1>1
<1>11. g_input_q' \in Seq(Char) /\ Len(g_input_q') < INPUT_Q_SIZE
  BY <1>1, <1>4, <1>6, <1>7 DEF a
<1>12. Types'
  BY <1>1, <1>8, <1>9, <1>10, <1>11 DEF Types, deviceVars, handlerVars
<1>13. Rings' /\ NoForgottenEvent'
  BY <1>1, Zenon DEF Rings, NoForgottenEvent, deviceVars, handlerVars
<1> QED BY <1>1, <1>12, <1>13, PopStep

LEMMA OtherShellSteps ==
  ASSUME Safe, \/ input_q_empty
               \/ u_getchar_no_event
               \/ \E ch \in Console \cup {None} : u_getchar_console(ch)
  PROVE  /\ Safe'
         /\ UNCHANGED <<vi_used, Held, read, g_input_q, g_input_shift, typed, lost>>
<1> USE DEF Safe
<1>1. CASE input_q_empty
  <2>1. /\ spc' = 0
        /\ UNCHANGED <<deviceVars, handlerVars, keventVars, g_input_q, g_input_shift, line, read,
                       typed, moves, lost>>
    BY <1>1 DEF input_q_empty
  <2>2. spc' \in Start .. Done
    BY <2>1, Devices
  <2>3. Types' /\ Rings' /\ NoForgottenEvent'
    BY <2>1, <2>2 DEF Types, Rings, NoForgottenEvent, deviceVars, handlerVars
  <2> QED BY <2>1, <2>3, KeventSame DEF deviceVars
<1>2. CASE u_getchar_no_event
  <2>1. /\ spc' = Done /\ kevent_pop /\ rc' = 0
        /\ UNCHANGED <<deviceVars, handlerVars, g_input_q, g_input_shift, line, read, typed, moves, lost>>
    BY <1>2 DEF u_getchar_no_event
  <2>2. spc' \in Start .. Done
    BY <2>1, Devices
  <2>3. Types' /\ Rings' /\ NoForgottenEvent'
    BY <2>1, <2>2 DEF Types, Rings, NoForgottenEvent, deviceVars, handlerVars
  <2>4. UNCHANGED <<g_q, g_head, g_tail>>
    BY <2>1 DEF kevent_pop
  <2>5. Held' = Held
    BY <2>4 DEF Held, Count, Entry
  <2> QED BY <2>1, <2>3, <2>5, PopStep DEF deviceVars
<1>3. ASSUME NEW ch \in Console \cup {None}, u_getchar_console(ch)
      PROVE  /\ Safe'
             /\ UNCHANGED <<vi_used, Held, read, g_input_q, g_input_shift, typed, lost>>
  <2>1. /\ spc' = Start /\ line' = IF ch = None THEN line ELSE Edit(line, ch)
        /\ UNCHANGED <<deviceVars, handlerVars, keventVars, g_input_q, g_input_shift, read, typed, moves, lost>>
    BY <1>3 DEF u_getchar_console
  <2>2. spc' \in Start .. Done
    BY <2>1, Devices
  <2>3. line' \in Seq(Char \cup Console) /\ Len(line') < SHELL_MAX_LINE
    <3>1. line \in Seq(Char \cup Console) /\ Len(line) < SHELL_MAX_LINE
      BY DEF Types
    <3>2. CASE ch = None
      BY <2>1, <3>1, <3>2
    <3>3. CASE ch # None
      <4>1. ch \in Char \cup Console /\ line' = Edit(line, ch)
        BY <2>1, <3>3
      <4> QED BY <3>1, <4>1, EditType
    <3> QED BY <3>2, <3>3
  <2>4. Types' /\ Rings' /\ NoForgottenEvent'
    BY <2>1, <2>2, <2>3 DEF Types, Rings, NoForgottenEvent, deviceVars, handlerVars
  <2> QED BY <2>1, <2>4, KeventSame DEF deviceVars
<1> QED BY <1>1, <1>2, <1>3


----------------------------------------------------------------------------
LEMMA InputInit == Init => IInv
<1> SUFFICES ASSUME Init PROVE IInv
  OBVIOUS
<1>1. KeventInv
  BY KeventInit DEF Init
<1>2. Types
  <2>1. <<>> \in Seq(Payload) /\ <<>> \in Seq(Char) /\ <<>> \in Seq(Char \cup Console) /\ Len(<<>>) = 0
    OBVIOUS
  <2>2. VI_QNUM \in Nat /\ 0 \in Dev /\ INPUT_Q_SIZE > 0 /\ SHELL_MAX_LINE > 0 /\ 0 \in Shifts
    BY Devices DEF Shifts
  <2>3. Start \in Start .. Done
    BY Devices
  <2>4. /\ vi_avail \in [Dev -> Nat] /\ vi_used \in [Dev -> Seq(Payload)] /\ isr \in [Dev -> BOOLEAN]
        /\ vi_rr_next \in Dev /\ hpc \in Dev \cup {Fetch, Off} /\ spc \in Start .. Done
    BY <2>1, <2>2, <2>3 DEF Init
  <2>5. /\ g_input_q \in Seq(Char) /\ Len(g_input_q) < INPUT_Q_SIZE /\ g_input_shift \in Shifts
        /\ line \in Seq(Char \cup Console) /\ Len(line) < SHELL_MAX_LINE
        /\ typed \in Seq(Payload) /\ read \in Seq(Char) /\ lost \in BOOLEAN
    BY <2>1, <2>2 DEF Init
  <2> QED BY <2>4, <2>5 DEF Types
<1>3. Rings /\ NoForgottenEvent
  BY Devices DEF Init, Rings, NoForgottenEvent
<1>4. Held = <<>>
  <2>1. Count = 0
    BY DEF Init, kevent_init, Count
  <2> QED BY <1>1, <2>1, HeldSeq DEF HeldIsSeq
<1>5. OnTheWay = <<>>
  BY <1>4, Devices DEF OnTheWay, Init
<1>6. Way = [shift |-> 0, chars |-> <<>>] /\ Sent = [shift |-> 0, chars |-> <<>>]
  BY <1>5, AfterEmpty DEF Way, Sent, Init
<1>7. Text = <<>>
  BY <1>6 DEF Text, Init
<1>8. Keys
  BY <1>6, <1>7 DEF Keys
<1>9. Ordered
  <2>1. <<>> \in Seq(Char)
    OBVIOUS
  <2>2. Unshifted(<<>>) \in Seq(Char)
    BY <2>1, UnshiftedFacts, Zenon
  <2>3. Embeds(Unshifted(<<>>), Unshifted(<<>>))
    BY <2>2, EmbedsSelf
  <2> QED BY <1>6, <1>7, <2>3 DEF Ordered
<1> QED BY <1>1, <1>2, <1>3, <1>8, <1>9 DEF IInv

LEMMA InputStep == IInv /\ [Next]_vars => IInv'
<1> SUFFICES ASSUME IInv, [Next]_vars PROVE IInv'
  OBVIOUS
<1>1. Safe
  BY DEF IInv, Safe
<1>2. SUFFICES Safe' /\ Keys' /\ Ordered'
  BY DEF IInv, Safe
<1>3. ASSUME NEW ev \in KeyEvent, KeyTyped(ev) PROVE Safe' /\ Keys' /\ Ordered'
  <2>1. typed \in Seq(Payload) /\ ev \in Payload /\ 0 \in Dev
    BY Devices DEF IInv, Types
  <2>2. typed' \in Seq(Payload) /\ DeviceFills(0, ev)
    BY <1>3, <2>1 DEF KeyTyped
  <2> QED BY <1>1, <1>3, <2>1, <2>2, FillStep, KeyTypedStep
<1>4. ASSUME NEW d \in Dev \ {0}, MouseMoved(d) PROVE Safe' /\ Keys' /\ Ordered'
  <2>1. DeviceFills(d, Move) /\ typed' = typed /\ typed \in Seq(Payload) /\ Move \in Payload
    BY <1>4, Devices DEF MouseMoved, IInv, Types
  <2>2. Safe' /\ vi_used'[0] = vi_used[0]
    BY <1>1, <2>1, FillStep
  <2>3. UNCHANGED <<Held, read, g_input_q, g_input_shift, typed, lost>>
    BY <1>1, <2>1, KeventSame DEF DeviceFills, shellVars, Safe
  <2> QED BY <2>2, <2>3, Elsewhere
<1>5. ASSUME handle_external_interrupt \/ irq_ack \/ irq_return PROVE Safe' /\ Keys' /\ Ordered'
  <2>1. Safe' /\ UNCHANGED <<vi_used, keventVars, read, g_input_q, g_input_shift, typed, lost>>
    BY <1>1, <1>5, HandlerStep
  <2>2. Held' = Held
    BY <1>1, <2>1, KeventSame DEF Safe
  <2> QED BY <2>1, <2>2, Elsewhere
<1>6. ASSUME NEW d \in Dev, irq_push(d) PROVE Safe' /\ Keys' /\ Ordered'
  BY <1>1, <1>6, FetchStep, PushKeysStep
<1>7. ASSUME input_q_pop PROVE Safe' /\ Keys' /\ Ordered'
  BY <1>1, <1>7, PopStepSafe, ReadStep
<1>8. ASSUME u_getchar_event PROVE Safe' /\ Keys' /\ Ordered'
  BY <1>1, <1>8, GetcharSafe, GetcharKeysStep
<1>9. ASSUME \/ input_q_empty
             \/ u_getchar_no_event
             \/ \E ch \in Console \cup {None} : u_getchar_console(ch)
      PROVE  Safe' /\ Keys' /\ Ordered'
  <2>1. Safe' /\ UNCHANGED <<vi_used, Held, read, g_input_q, g_input_shift, typed, lost>>
    BY <1>1, <1>9, OtherShellSteps
  <2> QED BY <2>1, Elsewhere
<1>10. CASE UNCHANGED vars
  <2>1. /\ UNCHANGED <<vi_avail, vi_used, isr, vi_rr_next, hpc, g_input_q, g_input_shift, spc, line, read, typed, lost>>
        /\ UNCHANGED keventVars
    BY <1>10 DEF vars, deviceVars, handlerVars, shellVars
  <2>2. KeventInv' /\ Held' = Held
    BY <1>1, <2>1, KeventSame DEF Safe
  <2>3. Types' /\ Rings' /\ NoForgottenEvent'
    BY <1>1, <2>1 DEF Safe, Types, Rings, NoForgottenEvent
  <2> QED BY <2>1, <2>2, <2>3, Elsewhere DEF Safe
<1> QED BY <1>3, <1>4, <1>5, <1>6, <1>7, <1>8, <1>9, <1>10 DEF Next, virtio_input_handle_irq, user_init_entry

(* The inductive invariant holds in every reachable state: the types, the  *)
(* rings, what the shell has got and will get, and what is contained in    *)
(* what.                                                                   *)
THEOREM InputInvariance == Spec => []IInv
BY InputInit, InputStep, PTL DEF Spec

(* The buffers of a device, the handler's and the shell's position and the *)
(* queues keep their types and their bounds.                               *)
THEOREM InputTypeCorrect == Spec => []TypeOK
<1>1. ASSUME IInv PROVE TypeOK
  <2>1. Types /\ Rings /\ KeventTypeOK
    BY <1>1 DEF IInv, KeventInv
  <2> QED BY <2>1 DEF Types, Rings, TypeOK, Shifts
<1> QED BY <1>1, InputInvariance, PTL

(* No event stays behind in a device's ring: its interrupt is asserted or  *)
(* the handler has not returned.                                           *)
THEOREM EventsAreNotForgotten == Spec => []NoForgottenEvent
<1>1. IInv => NoForgottenEvent
  BY DEF IInv
<1> QED BY <1>1, InputInvariance, PTL

(* As long as no queue overflows every key is read once, in order and with *)
(* the shift key as it was, wherever interrupts cut into u_getchar.        *)
THEOREM KeysStayInOrder == Spec => []KeysArriveInOrder
<1>1. ASSUME IInv PROVE KeysArriveInOrder
  <2>1. ~lost => Text = Sent.chars
    BY <1>1 DEF IInv, Keys
  <2> QED BY <2>1, Zenon DEF KeysArriveInOrder, Meaning, Text, Way, Sent
<1> QED BY <1>1, InputInvariance, PTL

(* Whatever overflows, what the shell reads comes in the order in which it *)
(* was typed, each character at most once.                                 *)
THEOREM OrderSurvivesLoss == Spec => []LossKeepsOrder
<1>1. ASSUME IInv PROVE LossKeepsOrder
  <2> DEFINE q == g_input_q \o Way.chars
  <2>1. /\ read \in Seq(Char) /\ g_input_q \in Seq(Char) /\ Way.chars \in Seq(Char) /\ Sent.chars \in Seq(Char)
    BY <1>1, WayFacts DEF IInv, Types
  <2> DEFINE r == read
             w == Way.chars
             g == g_input_q
  <2>2. r \in Seq(Char) /\ w \in Seq(Char) /\ g \in Seq(Char)
    BY <2>1
  <2> HIDE DEF r, w, g
  <2>3. (r \o g) \o w = r \o (g \o w) /\ g \o w \in Seq(Char)
    BY ONLY <2>2
  <2>4. Text = r \o q /\ q \in Seq(Char)
    BY <2>3 DEF Text, r, w, g
  <2> HIDE DEF q
  <2> DEFINE u == Unshifted(r)
             v == Unshifted(q)
             t == Unshifted(Sent.chars)
  <2>5. u \in Seq(Char) /\ v \in Seq(Char) /\ t \in Seq(Char)
    BY <2>1, <2>2, <2>4, UnshiftedFacts, Zenon
  <2>6. Unshifted(Text) = u \o v
    BY <2>2, <2>4, UnshiftedJoin
  <2>7. Embeds(u \o v, t)
    BY <1>1, <2>6 DEF IInv, Ordered
  <2> HIDE DEF u, v, t
  <2>8. u \o (v \o <<>>) = u \o v /\ u \o <<>> = u /\ <<>> \in Seq(Char)
    BY ONLY <2>5
  <2>9. Embeds(u \o <<>>, t)
    BY <2>5, <2>7, <2>8, EmbedsDrop, Zenon
  <2>10. IsSubsequence(u, t)
    BY <2>5, <2>8, <2>9, SearchSucceeds
  <2> QED BY <2>10 DEF LossKeepsOrder, Meaning, Sent, u, r, t
<1> QED BY <1>1, InputInvariance, PTL


(* The handler and the shell use the event queue as its specification has  *)
(* it: the queue of the whole system is the drop-oldest FIFO.              *)
THEOREM InputKeepsQueue == Spec => ImplementsQueue
<1>1. Init => kevent_init
  BY DEF Init
<1>2. IInv /\ [Next]_vars => [KeventNext]_keventVars
  <2> SUFFICES ASSUME IInv, [Next]_vars PROVE [KeventNext]_keventVars
    OBVIOUS
  <2>1. ASSUME NEW d \in Dev, irq_push(d) PROVE KeventNext
    <3>1. /\ vi_used[d] # <<>> /\ vi_used' = [vi_used EXCEPT ![d] = Tail(@)] /\ kevent_push(Head(vi_used[d]))
      BY <2>1 DEF irq_push, vi_fetch_one_event
    <3>2. Waiting \in Seq(Payload)
      BY WayFacts DEF IInv
    <3>3. Head(vi_used[d]) \in Payload
      BY <3>1, <3>2, MovedAlong, Zenon
    <3> QED BY <3>1, <3>3 DEF KeventNext
  <2>2. ASSUME u_getchar_event \/ u_getchar_no_event PROVE KeventNext
    BY <2>2 DEF u_getchar_event, u_getchar_no_event, KeventNext
  <2>3. ASSUME \/ \E ev \in KeyEvent : KeyTyped(ev)
               \/ \E d \in Dev \ {0} : MouseMoved(d)
               \/ handle_external_interrupt \/ irq_ack \/ irq_return
               \/ input_q_pop \/ input_q_empty
               \/ \E ch \in Console \cup {None} : u_getchar_console(ch)
               \/ UNCHANGED vars
        PROVE  UNCHANGED keventVars
    BY <2>3 DEF KeyTyped, MouseMoved, DeviceFills, handle_external_interrupt, irq_ack, irq_return,
                input_q_pop, input_q_empty, u_getchar_console, vars
  <2> QED BY <2>1, <2>2, <2>3 DEF Next, virtio_input_handle_irq, user_init_entry
<1>3. Spec => KeventSpec
  BY <1>1, <1>2, InputInvariance, PTL DEF Spec, KeventSpec
<1> QED BY <1>3, RingImplementsQueue, PTL
=============================================================================
