------------------------------ MODULE WmProofs ------------------------------
(***************************************************************************)
(* The window manager's order, focus, image pages and dirty rectangle, for *)
(* every number of windows, size of the screen and length of the event     *)
(* rings.                                                                  *)
(*                                                                         *)
(* The inductive invariant adds to the properties that numbers of windows  *)
(* are unique and never used again.  What a step does to the screen is     *)
(* Marks: a line whose picture may change is in the rectangle afterwards.  *)
(***************************************************************************)
EXTENDS Wm, FiniteSetTheorems, TLAPS

----------------------------------------------------------------------------
(* Windows and the dirty rectangle.                                        *)
Win == [used : BOOLEAN, id : 0 .. MaxId, y : Int, h : Heights \cup {0}, z : Nat,
        image : Image \cup {NoImage}, image_pages : Nat, ev_ring : Seq(Event),
        ev_overflow_latched : BOOLEAN]

Clip == {d \in Int \X Int : 0 <= d[1] /\ d[1] < d[2] /\ d[2] <= Height}

WinTypes ==
  /\ wm_windows \in [Slot -> Win]
  /\ \A i \in Slot : Len(wm_windows[i].ev_ring) < WM_EVENT_RING_SIZE

WmTypes ==
  /\ WinTypes
  /\ wm_next_id \in 1 .. MaxId + 1
  /\ wm_next_z \in Nat
  /\ wm_focus_id \in 0 .. MaxId /\ wm_focus_id < wm_next_id
  /\ wm_cursor_y \in Int /\ wm_gpu_ready \in BOOLEAN
  /\ dirty \in Clip \cup {<<>>}
  /\ DOMAIN screen = Screen
  /\ pages \in Nat
  /\ told \in [Slot -> Event]

(* A number names at most one window and is not used again.                *)
WmIds ==
  /\ \A i \in Open : wm_windows[i].id > 0 /\ wm_windows[i].id < wm_next_id
  /\ \A i, j \in Open : wm_windows[i].id = wm_windows[j].id => i = j

WmInv ==
  /\ WmTypes /\ WmIds /\ OrderIsStrict /\ FocusIsKnown
  /\ IsFiniteSet(ImagePage) /\ ImagePagesAreOwned

----------------------------------------------------------------------------
LEMMA Screens ==
  /\ WM_MAX_WINDOWS \in Nat /\ WM_EVENT_RING_SIZE \in Nat /\ WM_EVENT_RING_SIZE > 1
  /\ WM_TASKBAR_PX \in Nat /\ WM_TASKBAR_PX > 0 /\ Border \in Nat /\ MaxId \in Nat
  /\ Height \in Nat /\ Height > 1
  /\ \A h \in Heights : h \in Nat /\ h > 0 /\ h <= Height - WM_TASKBAR_PX
  /\ \A l \in Lines : l \in Int
  /\ \A n \in Image : n \in Nat /\ n > 0
BY WmAssumption

LEMMA UsableType ==
  ASSUME wm_gpu_ready \in BOOLEAN
  PROVE  wm_usable_h \in Nat /\ wm_usable_h > 0 /\ wm_usable_h <= Height
         /\ \A h \in Heights : wm_usable_h - h + 1 \in Nat /\ wm_usable_h - h + 1 > 0
BY Screens DEF wm_usable_h

(* Marking only adds lines, and adds those of the rectangle.               *)
LEMMA MarkRect ==
  ASSUME NEW d \in Clip \cup {<<>>}, NEW y \in Int, NEW h \in Int
  PROVE  /\ wm_mark_dirty_rect(d, y, h) \in Clip \cup {<<>>}
         /\ \A l \in Screen : IsDirty(d, l) => IsDirty(wm_mark_dirty_rect(d, y, h), l)
         /\ \A l \in Screen : y <= l /\ l < y + h => IsDirty(wm_mark_dirty_rect(d, y, h), l)
<1> DEFINE y0 == Highest(y, 0)
           y1 == Lowest(y + h, Height)
           e == wm_mark_dirty_rect(d, y, h)
<1>1. /\ y0 \in Int /\ y1 \in Int /\ y0 >= 0 /\ y0 >= y /\ y1 <= Height /\ y1 <= y + h
      /\ (y0 = 0 \/ y0 = y) /\ (y1 = y + h \/ y1 = Height)
  BY Screens DEF Highest, Lowest
<1>2. e = IF h <= 0 \/ y0 >= y1 THEN d
          ELSE IF d = <<>> THEN <<y0, y1>>
          ELSE <<Lowest(d[1], y0), Highest(d[2], y1)>>
  BY DEF wm_mark_dirty_rect
<1> HIDE DEF y0, y1, e
<1>3. ASSUME NEW l \in Screen, y <= l, l < y + h
      PROVE  ~(h <= 0) /\ ~(y0 >= y1) /\ y0 <= l /\ l < y1
  BY <1>1, <1>3, Screens DEF Screen
<1>4. CASE h <= 0 \/ y0 >= y1
  BY <1>2, <1>3, <1>4 DEF e
<1>5. CASE ~(h <= 0 \/ y0 >= y1) /\ d = <<>>
  <2>1. e = <<y0, y1>> /\ y0 < y1
    BY <1>1, <1>2, <1>5
  <2>2. e \in Clip /\ e # <<>>
    BY <1>1, <2>1, Screens DEF Clip
  <2>3. \A l \in Screen : ~IsDirty(d, l)
    BY <1>5 DEF IsDirty
  <2>4. \A l \in Screen : y <= l /\ l < y + h => IsDirty(e, l)
    BY <1>3, <2>1, <2>2 DEF IsDirty
  <2> QED BY <2>2, <2>3, <2>4 DEF e
<1>6. CASE ~(h <= 0 \/ y0 >= y1) /\ d # <<>>
  <2> DEFINE a == Lowest(d[1], y0)
             b == Highest(d[2], y1)
  <2>1. e = <<a, b>> /\ y0 < y1 /\ d \in Clip
    BY <1>1, <1>2, <1>6
  <2>2. d[1] \in Int /\ d[2] \in Int /\ 0 <= d[1] /\ d[1] < d[2] /\ d[2] <= Height
    BY <2>1 DEF Clip
  <2>3. a \in Int /\ b \in Int /\ a <= d[1] /\ a <= y0 /\ b >= d[2] /\ b >= y1 /\ 0 <= a /\ b <= Height
    BY <1>1, <2>2, Screens DEF Lowest, Highest
  <2> HIDE DEF a, b
  <2>4. e \in Clip /\ e # <<>> /\ e[1] = a /\ e[2] = b
    BY <2>1, <2>2, <2>3 DEF Clip
  <2>5. \A l \in Screen : IsDirty(d, l) => IsDirty(e, l)
    BY <2>2, <2>3, <2>4, Screens DEF IsDirty, Screen
  <2>6. \A l \in Screen : y <= l /\ l < y + h => IsDirty(e, l)
    BY <1>1, <1>3, <2>3, <2>4, Screens DEF IsDirty, Screen
  <2> QED BY <2>4, <2>5, <2>6 DEF e
<1> QED BY <1>4, <1>5, <1>6

Shown(w, l) == w.y <= l /\ l < w.y + w.h

LEMMA MarkWindow ==
  ASSUME NEW d \in Clip \cup {<<>>}, NEW w \in Win
  PROVE  /\ wm_mark_dirty_window(d, w) \in Clip \cup {<<>>}
         /\ \A l \in Screen : IsDirty(d, l) => IsDirty(wm_mark_dirty_window(d, w), l)
         /\ \A l \in Screen : Shown(w, l) => IsDirty(wm_mark_dirty_window(d, w), l)
<1> DEFINE y == w.y - Border
           h == w.h + 2 * Border
<1>1. w.y \in Int /\ w.h \in Nat /\ Border \in Nat
  BY Screens DEF Win
<1>2. y \in Int /\ h \in Int
  BY <1>1
<1>3. \A l \in Screen : Shown(w, l) => y <= l /\ l < y + h
  BY <1>1, Screens DEF Shown, Screen
<1> HIDE DEF y, h
<1>4. wm_mark_dirty_window(d, w) = wm_mark_dirty_rect(d, y, h)
  BY DEF wm_mark_dirty_window, y, h
<1> QED BY <1>2, <1>3, <1>4, MarkRect

LEMMA MarkTaskbar ==
  ASSUME NEW d \in Clip \cup {<<>>}, wm_gpu_ready \in BOOLEAN
  PROVE  /\ wm_mark_dirty_taskbar(d) \in Clip \cup {<<>>}
         /\ \A l \in Screen : IsDirty(d, l) => IsDirty(wm_mark_dirty_taskbar(d), l)
<1>1. wm_usable_h \in Int /\ Height - wm_usable_h \in Int
  BY UsableType, Screens
<1> QED BY <1>1, MarkRect DEF wm_mark_dirty_taskbar

LEMMA FullMarks == Full \in Clip /\ \A l \in Screen : IsDirty(Full, l)
<1>1. Full = <<0, Height>> /\ Full # <<>> /\ Full[1] = 0 /\ Full[2] = Height
  BY DEF Full
<1> QED BY <1>1, Screens DEF Clip, IsDirty, Screen


----------------------------------------------------------------------------
(* Windows that differ at most in their events.                            *)
SameFace(v, w) ==
  /\ v.used = w.used /\ v.id = w.id /\ v.y = w.y /\ v.h = w.h
  /\ v.z = w.z /\ v.image = w.image /\ v.image_pages = w.image_pages

LEMMA QueueEvent ==
  ASSUME NEW w \in Win, Len(w.ev_ring) < WM_EVENT_RING_SIZE, NEW type \in Event
  PROVE  /\ wm_queue_event(w, type) \in Win
         /\ Len(wm_queue_event(w, type).ev_ring) < WM_EVENT_RING_SIZE
         /\ SameFace(wm_queue_event(w, type), w)
         /\ ~wm_queue_event(w, type).ev_overflow_latched =>
              /\ ~w.ev_overflow_latched
              /\ wm_queue_event(w, type).ev_ring = Append(w.ev_ring, type)
<1> DEFINE r == w.ev_ring
           v == wm_queue_event(w, type)
<1>1. r \in Seq(Event) /\ Len(r) \in Nat /\ w.ev_overflow_latched \in BOOLEAN /\ "OVERFLOW" \in Event
  BY DEF Win, Event
<1>2. v = IF Len(r) < WM_EVENT_RING_SIZE - 1 THEN [w EXCEPT !.ev_ring = Append(r, type)]
          ELSE IF w.ev_overflow_latched THEN w
          ELSE [w EXCEPT !.ev_overflow_latched = TRUE, !.ev_ring = Append(Tail(r), "OVERFLOW")]
  BY DEF wm_queue_event, Win
<1> HIDE DEF r, v
<1>3. CASE Len(r) < WM_EVENT_RING_SIZE - 1
  <2>1. Append(r, type) \in Seq(Event) /\ Len(Append(r, type)) < WM_EVENT_RING_SIZE
    BY <1>1, <1>3, Screens
  <2>2. v = [w EXCEPT !.ev_ring = Append(r, type)]
    BY <1>2, <1>3
  <2> QED BY <2>1, <2>2, Zenon DEF Win, SameFace, v, r
<1>4. CASE ~(Len(r) < WM_EVENT_RING_SIZE - 1) /\ w.ev_overflow_latched
  <2>1. v = w
    BY <1>2, <1>4
  <2> QED BY <1>4, <2>1 DEF SameFace, v
<1>5. CASE ~(Len(r) < WM_EVENT_RING_SIZE - 1) /\ ~w.ev_overflow_latched
  <2>1. Len(r) < WM_EVENT_RING_SIZE /\ Len(r) > 0
    BY <1>1, <1>5, Screens DEF r
  <2>2. Tail(r) \in Seq(Event) /\ Len(Tail(r)) = Len(r) - 1
    BY <1>1, <2>1
  <2> DEFINE t == Tail(r)
  <2> HIDE DEF t
  <2>3. Append(t, "OVERFLOW") \in Seq(Event) /\ Len(Append(t, "OVERFLOW")) = Len(r)
    BY <1>1, <2>2 DEF t
  <2> DEFINE u == Append(t, "OVERFLOW")
  <2>4. v = [w EXCEPT !.ev_overflow_latched = TRUE, !.ev_ring = u]
    BY <1>2, <1>5 DEF t
  <2>5. u \in Seq(Event) /\ Len(u) < WM_EVENT_RING_SIZE
    BY <2>1, <2>3
  <2> HIDE DEF u
  <2> QED BY <2>4, <2>5, Zenon DEF Win, SameFace, v
<1> QED BY <1>3, <1>4, <1>5

(* The windows of W after the focus moved to window id.                    *)
LEMMA FocusMoves ==
  ASSUME NEW W \in [Slot -> Win], \A i \in Slot : Len(W[i].ev_ring) < WM_EVENT_RING_SIZE, NEW id
  PROVE  /\ FocusEvents(W, id) \in [Slot -> Win]
         /\ \A i \in Slot : /\ Len(FocusEvents(W, id)[i].ev_ring) < WM_EVENT_RING_SIZE
                            /\ SameFace(FocusEvents(W, id)[i], W[i])
         /\ \A i \in Slot : ~FocusEvents(W, id)[i].ev_overflow_latched =>
              /\ ~W[i].ev_overflow_latched
              /\ FocusEvents(W, id)[i].ev_ring =
                   IF i \in wm_find(wm_focus_id) THEN Append(W[i].ev_ring, "FOCUS_OUT")
                   ELSE IF i \in wm_find(id) THEN Append(W[i].ev_ring, "FOCUS_IN")
                   ELSE W[i].ev_ring
<1> DEFINE V == FocusEvents(W, id)
<1>1. V = [i \in Slot |-> IF i \in wm_find(wm_focus_id) THEN wm_queue_event(W[i], "FOCUS_OUT")
                          ELSE IF i \in wm_find(id) THEN wm_queue_event(W[i], "FOCUS_IN")
                          ELSE W[i]]
  BY DEF FocusEvents
<1> HIDE DEF V
<1>2. "FOCUS_OUT" \in Event /\ "FOCUS_IN" \in Event
  BY DEF Event
<1>3. ASSUME NEW i \in Slot
      PROVE  /\ V[i] \in Win /\ Len(V[i].ev_ring) < WM_EVENT_RING_SIZE /\ SameFace(V[i], W[i])
             /\ ~V[i].ev_overflow_latched =>
                  /\ ~W[i].ev_overflow_latched
                  /\ V[i].ev_ring =
                       IF i \in wm_find(wm_focus_id) THEN Append(W[i].ev_ring, "FOCUS_OUT")
                       ELSE IF i \in wm_find(id) THEN Append(W[i].ev_ring, "FOCUS_IN")
                       ELSE W[i].ev_ring
  <2>1. W[i] \in Win /\ Len(W[i].ev_ring) < WM_EVENT_RING_SIZE
    OBVIOUS
  <2>2. CASE i \in wm_find(wm_focus_id)
    <3>1. V[i] = wm_queue_event(W[i], "FOCUS_OUT")
      BY <1>1, <2>2
    <3> QED BY <1>2, <2>1, <2>2, <3>1, QueueEvent
  <2>3. CASE i \notin wm_find(wm_focus_id) /\ i \in wm_find(id)
    <3>1. V[i] = wm_queue_event(W[i], "FOCUS_IN")
      BY <1>1, <2>3
    <3> QED BY <1>2, <2>1, <2>3, <3>1, QueueEvent
  <2>4. CASE i \notin wm_find(wm_focus_id) /\ i \notin wm_find(id)
    <3>1. V[i] = W[i]
      BY <1>1, <2>4
    <3> QED BY <2>1, <2>4, <3>1 DEF SameFace
  <2> QED BY <2>2, <2>3, <2>4
<1>4. V \in [Slot -> Win]
  BY <1>1, <1>3
<1> QED BY <1>3, <1>4 DEF V


----------------------------------------------------------------------------
(* The pages of the images of windows W.                                   *)
OpenOf(W) == {i \in Slot : W[i].used}

PagesOf(W) == UNION {{i} \X (1 .. W[i].image_pages) : i \in OpenOf(W)}

Buffer(w) == IF w.used THEN w.image_pages ELSE 0

LEMMA PageOf ==
  ASSUME NEW W, NEW p
  PROVE  p \in PagesOf(W) <=> \E i \in OpenOf(W) : p \in {i} \X (1 .. W[i].image_pages)
BY DEF PagesOf

LEMMA OneBuffer ==
  ASSUME NEW i, NEW n \in Nat
  PROVE  IsFiniteSet({i} \X (1 .. n)) /\ Cardinality({i} \X (1 .. n)) = n
<1>1. IsFiniteSet({i}) /\ Cardinality({i}) = 1
  BY FS_Singleton, Zenon
<1>2. IsFiniteSet(1 .. n) /\ Cardinality(1 .. n) = n
  BY FS_Interval
<1>3. IsFiniteSet({i} \X (1 .. n)) /\ Cardinality({i} \X (1 .. n)) = Cardinality({i}) * Cardinality(1 .. n)
  BY <1>1, <1>2, FS_Product, Zenon
<1>4. Cardinality({i}) * Cardinality(1 .. n) = 1 * n
  BY <1>1, <1>2
<1> QED BY <1>3, <1>4

LEMMA PagesReplace ==
  ASSUME NEW W \in [Slot -> Win], NEW i \in Slot, NEW w \in Win, IsFiniteSet(PagesOf(W))
  PROVE  LET V == [W EXCEPT ![i] = w]
         IN  /\ IsFiniteSet(PagesOf(V))
             /\ Cardinality(PagesOf(W)) \in Nat /\ Buffer(W[i]) \in Nat /\ Buffer(w) \in Nat
             /\ Buffer(W[i]) <= Cardinality(PagesOf(W))
             /\ Cardinality(PagesOf(V)) = Cardinality(PagesOf(W)) - Buffer(W[i]) + Buffer(w)
<1> DEFINE V == [W EXCEPT ![i] = w]
           n == Buffer(W[i])
           m == Buffer(w)
           A == {i} \X (1 .. n)
           B == {i} \X (1 .. m)
           P == PagesOf(W)
           Q == PagesOf(V)
           R == P \ A
<1>1. n \in Nat /\ m \in Nat
  BY DEF Buffer, Win
<1>2. /\ V \in [Slot -> Win] /\ V[i] = w /\ \A j \in Slot : j # i => V[j] = W[j]
  OBVIOUS
<1>3. OpenOf(V) \ {i} = OpenOf(W) \ {i} /\ (i \in OpenOf(W) <=> W[i].used) /\ (i \in OpenOf(V) <=> w.used)
  BY <1>2 DEF OpenOf
<1>4. i \notin OpenOf(W) => A = {}
  BY <1>3 DEF Buffer
<1>5. i \notin OpenOf(V) => B = {}
  BY <1>3 DEF Buffer
<1>6. i \in OpenOf(W) => A = {i} \X (1 .. W[i].image_pages)
  BY <1>3 DEF Buffer
<1>7. i \in OpenOf(V) => B = {i} \X (1 .. V[i].image_pages)
  BY <1>2, <1>3 DEF Buffer
<1> DEFINE O == UNION {{j} \X (1 .. W[j].image_pages) : j \in OpenOf(W) \ {i}}
<1> HIDE DEF V, n, m
<1>8. P = O \cup A
  <2>1. ASSUME NEW p \in P PROVE p \in O \cup A
    <3>1. PICK j \in OpenOf(W) : p \in {j} \X (1 .. W[j].image_pages)
      BY <2>1, PageOf
    <3> QED BY <1>6, <3>1
  <2>2. ASSUME NEW p \in O PROVE p \in P
    <3>1. PICK j \in OpenOf(W) \ {i} : p \in {j} \X (1 .. W[j].image_pages)
      BY <2>2
    <3> QED BY <3>1, PageOf
  <2>3. ASSUME NEW p \in A PROVE p \in P
    <3>1. i \in OpenOf(W) /\ p \in {i} \X (1 .. W[i].image_pages)
      BY <1>4, <1>6, <2>3
    <3> QED BY <3>1, PageOf
  <2> QED BY <2>1, <2>2, <2>3
<1>9. Q = O \cup B
  <2>1. ASSUME NEW p \in Q PROVE p \in O \cup B
    <3>1. PICK j \in OpenOf(V) : p \in {j} \X (1 .. V[j].image_pages)
      BY <2>1, PageOf
    <3>2. CASE j = i
      BY <1>7, <3>1, <3>2
    <3>3. CASE j # i
      <4>1. j \in OpenOf(W) \ {i} /\ j \in Slot
        BY <1>3, <3>3 DEF OpenOf
      <4>2. V[j] = W[j]
        BY <1>2, <3>3, <4>1
      <4> QED BY <3>1, <4>1, <4>2
    <3> QED BY <3>2, <3>3
  <2>2. ASSUME NEW p \in O PROVE p \in Q
    <3>1. PICK j \in OpenOf(W) \ {i} : p \in {j} \X (1 .. W[j].image_pages)
      BY <2>2
    <3>2. j \in OpenOf(V) /\ j \in Slot /\ j # i
      BY <1>3, <3>1 DEF OpenOf
    <3>3. V[j] = W[j]
      BY <1>2, <3>2
    <3> QED BY <3>1, <3>2, <3>3, PageOf
  <2>3. ASSUME NEW p \in B PROVE p \in Q
    <3>1. i \in OpenOf(V) /\ p \in {i} \X (1 .. V[i].image_pages)
      BY <1>5, <1>7, <2>3
    <3> QED BY <3>1, PageOf
  <2> QED BY <2>1, <2>2, <2>3
<1>10. O \cap A = {} /\ O \cap B = {}
  OBVIOUS
<1>11. IsFiniteSet(A) /\ Cardinality(A) = n /\ IsFiniteSet(B) /\ Cardinality(B) = m
  BY <1>1, OneBuffer
<1> HIDE DEF O, A, B
<1>12. O \in SUBSET P
  BY <1>8
<1>13. IsFiniteSet(O) /\ Cardinality(O) \in Nat
  BY <1>12, FS_Subset, FS_CardinalityType
<1>14. Cardinality({}) = 0
  BY FS_EmptySet
<1>15. Cardinality(O \cup A) = Cardinality(O) + Cardinality(A) - Cardinality(O \cap A)
  BY <1>11, <1>13, FS_Union
<1>16. IsFiniteSet(O \cup B) /\ Cardinality(O \cup B) = Cardinality(O) + Cardinality(B) - Cardinality(O \cap B)
  BY <1>11, <1>13, FS_Union
<1>17. Cardinality(P) = Cardinality(O) + n
  BY <1>1, <1>8, <1>10, <1>11, <1>13, <1>14, <1>15
<1> HIDE DEF P, Q
<1>18. IsFiniteSet(Q) /\ Cardinality(Q) = Cardinality(O) + m
  <2>1. IsFiniteSet(Q)
    BY <1>9, <1>16
  <2>2. Cardinality(Q) = Cardinality(O) + m - 0
    BY <1>9, <1>10, <1>11, <1>14, <1>16
  <2> QED BY <1>1, <1>13, <2>1, <2>2
<1>19. Cardinality(P) \in Nat /\ n <= Cardinality(P) /\ Cardinality(Q) = Cardinality(P) - n + m
  BY <1>1, <1>13, <1>17, <1>18
<1> QED BY <1>1, <1>18, <1>19 DEF P, Q, V, n, m

LEMMA PagesKept ==
  ASSUME NEW W, NEW V, \A i \in Slot : V[i].used = W[i].used /\ V[i].image_pages = W[i].image_pages
  PROVE  PagesOf(V) = PagesOf(W) /\ OpenOf(V) = OpenOf(W)
<1>1. OpenOf(V) = OpenOf(W)
  BY DEF OpenOf
<1>2. \A i \in OpenOf(W) : V[i].image_pages = W[i].image_pages
  BY DEF OpenOf
<1>3. ASSUME NEW p PROVE p \in PagesOf(V) <=> p \in PagesOf(W)
  BY <1>1, <1>2, PageOf
<1>4. PagesOf(V) \subseteq PagesOf(W) /\ PagesOf(W) \subseteq PagesOf(V)
  BY <1>3
<1> QED BY <1>1, <1>4


----------------------------------------------------------------------------
(* The window on top.                                                      *)
Strict(W) == \A i, j \in OpenOf(W) : W[i].z = W[j].z => i = j

CoverOf(W, l) == {i \in OpenOf(W) : Shown(W[i], l)}

IsTop(W, S, i) == i \in S /\ \A j \in S : W[j].z <= W[i].z

TopOf(W, S) == CHOOSE i \in S : \A j \in S : W[j].z <= W[i].z

DrawnOf(W, focus, cursor, l) ==
  IF l = cursor THEN "cursor"
  ELSE IF CoverOf(W, l) = {} THEN "desktop"
  ELSE LET win == W[TopOf(W, CoverOf(W, l))]
       IN  <<win.id, win.id = focus, win.image>>

LEMMA TopExists ==
  ASSUME NEW W \in [Slot -> Win], NEW S \in SUBSET Slot, S # {}
  PROVE  IsTop(W, S, TopOf(W, S))
<1> DEFINE Above(i) == {j \in S : W[j].z > W[i].z}
           N == {Cardinality(Above(i)) : i \in S}
<1>1. IsFiniteSet(Slot)
  BY FS_Interval, Screens DEF Slot
<1>2. ASSUME NEW i \in S PROVE IsFiniteSet(Above(i)) /\ Cardinality(Above(i)) \in Nat
  <2>1. Above(i) \in SUBSET Slot
    OBVIOUS
  <2> HIDE DEF Above
  <2> QED BY <1>1, <2>1, FS_Subset, FS_CardinalityType
<1>3. N \subseteq Nat /\ N # {}
  <2> HIDE DEF Above
  <2> QED BY <1>2
<1>4. PICK n \in N : \A k \in N : <<k, n>> \notin OpToRel(<, Nat)
  <2> HIDE DEF N
  <2> QED BY <1>3, WFMin, NatLessThanWellFounded, Zenon
<1>5. PICK i \in S : n = Cardinality(Above(i))
  BY <1>4, Zenon
<1>6. ASSUME NEW j \in S, ~(W[j].z <= W[i].z) PROVE FALSE
  <2>1. W[i].z \in Nat /\ W[j].z \in Nat /\ W[i].z < W[j].z
    BY <1>6 DEF Win
  <2>2. Above(j) \in SUBSET Above(i) /\ j \in Above(i) /\ j \notin Above(j)
    <3>1. \A k \in S : W[k].z \in Nat
      BY DEF Win
    <3> QED BY <2>1, <3>1
  <2>3. Cardinality(Above(j)) < Cardinality(Above(i))
    <3> HIDE DEF Above
    <3>1. IsFiniteSet(Above(i)) /\ Cardinality(Above(i)) \in Nat /\ Cardinality(Above(j)) \in Nat
      BY <1>2
    <3>2. /\ Cardinality(Above(j)) <= Cardinality(Above(i))
          /\ Cardinality(Above(i)) = Cardinality(Above(j)) => Above(i) = Above(j)
      BY <2>2, <3>1, FS_Subset
    <3> QED BY <2>2, <3>1, <3>2
  <2>4. Cardinality(Above(j)) \in N /\ Cardinality(Above(j)) \in Nat /\ n \in Nat
    <3> HIDE DEF Above
    <3> QED BY <1>2, <1>5
  <2> HIDE DEF Above, N
  <2>5. <<Cardinality(Above(j)), n>> \in OpToRel(<, Nat)
    BY <1>5, <2>3, <2>4 DEF OpToRel
  <2> QED BY <1>4, <2>4, <2>5, Zenon
<1>7. \E k \in S : \A j \in S : W[j].z <= W[k].z
  BY <1>6
<1> QED BY <1>7 DEF IsTop, TopOf

LEMMA TopUnique ==
  ASSUME NEW W \in [Slot -> Win], Strict(W), NEW S \in SUBSET OpenOf(W), NEW i, IsTop(W, S, i)
  PROVE  TopOf(W, S) = i
<1> DEFINE k == TopOf(W, S)
<1>1. IsTop(W, S, k)
  BY TopExists DEF IsTop, OpenOf
<1> HIDE DEF k
<1>2. i \in Slot /\ k \in Slot /\ W[i].z \in Nat /\ W[k].z \in Nat
  BY <1>1 DEF IsTop, OpenOf, Win
<1>3. W[i].z = W[k].z
  BY <1>1, <1>2 DEF IsTop
<1>4. i = k
  BY <1>1, <1>3 DEF IsTop, Strict
<1> QED BY <1>4 DEF k

(* A line shows the same as before when its windows, their order, their    *)
(* images and which of them has the focus are the same.                    *)
LEMMA SameDrawn ==
  ASSUME NEW W \in [Slot -> Win], NEW V \in [Slot -> Win], Strict(W), Strict(V),
         NEW l, NEW c, NEW f, NEW g, CoverOf(V, l) = CoverOf(W, l),
         \A i \in CoverOf(W, l) : V[i].id = W[i].id /\ V[i].image = W[i].image /\ ((V[i].id = g) <=> (W[i].id = f)),
         \A i, j \in CoverOf(W, l) : W[i].z <= W[j].z => V[i].z <= V[j].z
  PROVE  DrawnOf(V, g, c, l) = DrawnOf(W, f, c, l)
<1> DEFINE S == CoverOf(W, l)
           i == TopOf(W, S)
<1>1. S \in SUBSET OpenOf(W) /\ S \in SUBSET Slot /\ S \in SUBSET OpenOf(V)
  BY DEF CoverOf, OpenOf
<1>2. CASE S = {}
  BY <1>2 DEF DrawnOf
<1>3. CASE S # {}
  <2>1. IsTop(W, S, i)
    BY <1>1, <1>3, TopExists
  <2> HIDE DEF S, i
  <2>2. IsTop(V, S, i)
    BY <2>1 DEF IsTop, S
  <2>3. TopOf(V, S) = i
    BY <1>1, <2>2, TopUnique
  <2>4. V[i].id = W[i].id /\ V[i].image = W[i].image /\ ((V[i].id = g) <=> (W[i].id = f))
    BY <2>1 DEF IsTop, S
  <2>5. (V[i].id = g) = (W[i].id = f)
    BY <2>4
  <2> QED BY <1>3, <2>3, <2>4, <2>5 DEF DrawnOf, S, i
<1> QED BY <1>2, <1>3


----------------------------------------------------------------------------
(* The state as seen by the lemmas.                                        *)
LEMMA Views ==
  /\ Open = OpenOf(wm_windows) /\ ImagePage = PagesOf(wm_windows)
  /\ \A l : Drawn(l) = DrawnOf(wm_windows, wm_focus_id, wm_cursor_y, l)
<1>1. Open = OpenOf(wm_windows)
  BY DEF Open, OpenOf
<1>2. ImagePage = PagesOf(wm_windows)
  BY <1>1 DEF ImagePage, PagesOf
<1>3. ASSUME NEW l PROVE Drawn(l) = DrawnOf(wm_windows, wm_focus_id, wm_cursor_y, l)
  <2>1. Covering(l) = CoverOf(wm_windows, l)
    BY <1>1 DEF Covering, CoverOf, Shown
  <2>2. Top(Covering(l)) = TopOf(wm_windows, Covering(l))
    BY DEF Top, TopOf
  <2> QED BY <2>1, <2>2 DEF Drawn, DrawnOf
<1> QED BY <1>1, <1>2, <1>3

LEMMA NextViews ==
  /\ Open' = OpenOf(wm_windows') /\ ImagePage' = PagesOf(wm_windows')
  /\ \A l : Drawn(l)' = DrawnOf(wm_windows', wm_focus_id', wm_cursor_y', l)
<1>1. Open' = OpenOf(wm_windows')
  BY DEF Open, OpenOf
<1>2. ImagePage' = PagesOf(wm_windows')
  BY <1>1 DEF ImagePage, PagesOf
<1>3. ASSUME NEW l PROVE Drawn(l)' = DrawnOf(wm_windows', wm_focus_id', wm_cursor_y', l)
  <2>1. Covering(l)' = CoverOf(wm_windows', l)
    BY <1>1 DEF Covering, CoverOf, Shown
  <2>2. Top(Covering(l))' = TopOf(wm_windows', Covering(l)')
    BY DEF Top, TopOf
  <2> QED BY <2>1, <2>2 DEF Drawn, DrawnOf
<1> QED BY <1>1, <1>2, <1>3

(* The last event of a ring, or the last one taken from it.                *)
LastOf(ring, t) == IF ring = <<>> THEN t ELSE ring[Len(ring)]

LEMMA LastFacts ==
  ASSUME NEW r \in Seq(Event), NEW t
  PROVE  /\ \A e \in Event : LastOf(Append(r, e), t) = e
         /\ r # <<>> => LastOf(Tail(r), Head(r)) = LastOf(r, t)
<1>1. ASSUME NEW e \in Event PROVE LastOf(Append(r, e), t) = e
  <2> DEFINE a == Append(r, e)
  <2>1. a # <<>> /\ Len(a) = Len(r) + 1 /\ a[Len(r) + 1] = e
    OBVIOUS
  <2> HIDE DEF a
  <2>2. LastOf(a, t) = e
    BY <2>1 DEF LastOf
  <2> QED BY <2>2 DEF a
<1>2. ASSUME r # <<>> PROVE LastOf(Tail(r), Head(r)) = LastOf(r, t)
  <2> DEFINE a == Tail(r)
  <2>1. a \in Seq(Event) /\ Len(a) = Len(r) - 1 /\ Len(r) \in Nat /\ Len(r) > 0 /\ Head(r) = r[1]
    BY <1>2
  <2>2. \A k \in 1 .. Len(r) - 1 : a[k] = r[k + 1]
    BY <1>2
  <2> HIDE DEF a
  <2>3. CASE a = <<>>
    <3>1. Len(r) = 1
      BY <2>1, <2>3
    <3> QED BY <1>2, <2>1, <2>3, <3>1 DEF LastOf, a
  <2>4. CASE a # <<>>
    <3>1. Len(a) \in 1 .. Len(r) - 1 /\ Len(a) + 1 = Len(r)
      BY <2>1, <2>4
    <3>2. a[Len(a)] = r[Len(r)]
      BY <2>2, <3>1
    <3> QED BY <1>2, <2>4, <3>2 DEF LastOf, a
  <2> QED BY <2>3, <2>4
<1> QED BY <1>1, <1>2

(* Knowing the focus, for windows W, what they were told and the focus.    *)
Known(W, t, f) ==
  \A i \in OpenOf(W) : ~W[i].ev_overflow_latched =>
    (LastOf(W[i].ev_ring, t[i]) = "FOCUS_IN" <=> W[i].id = f)

LEMMA KnownViews ==
  /\ FocusIsKnown <=> Known(wm_windows, told, wm_focus_id)
  /\ FocusIsKnown' <=> Known(wm_windows', told', wm_focus_id')
BY Views, NextViews DEF FocusIsKnown, Known, LastFocusEvent, LastOf

LEMMA Replaced ==
  ASSUME WmInv, NEW i \in Slot, NEW win \in Win, Len(win.ev_ring) < WM_EVENT_RING_SIZE,
         wm_windows' = [wm_windows EXCEPT ![i] = win]
  PROVE  /\ WinTypes' /\ wm_windows' \in [Slot -> Win] /\ wm_windows'[i] = win
         /\ \A j \in Slot : j # i => wm_windows'[j] = wm_windows[j]
         /\ Open' = IF win.used THEN Open \cup {i} ELSE Open \ {i}
         /\ IsFiniteSet(ImagePage') /\ pages \in Nat /\ Buffer(win) \in Nat /\ Buffer(wm_windows[i]) \in 0 .. pages
         /\ Cardinality(ImagePage') = pages - Buffer(wm_windows[i]) + Buffer(win)
<1>1. wm_windows \in [Slot -> Win] /\ \A j \in Slot : Len(wm_windows[j].ev_ring) < WM_EVENT_RING_SIZE
  BY DEF WmInv, WmTypes, WinTypes
<1>2. /\ wm_windows' \in [Slot -> Win] /\ wm_windows'[i] = win
      /\ \A j \in Slot : j # i => wm_windows'[j] = wm_windows[j]
  BY <1>1
<1>3. WinTypes'
  BY <1>1, <1>2 DEF WinTypes
<1>4. Open' = IF win.used THEN Open \cup {i} ELSE Open \ {i}
  <2>1. win.used \in BOOLEAN
    BY DEF Win
  <2>2. \A j \in Slot : j \in Open' <=> wm_windows'[j].used
    BY DEF Open
  <2>3. \A j \in Slot : j \in Open <=> wm_windows[j].used
    BY DEF Open
  <2>4. Open \subseteq Slot /\ Open' \subseteq Slot
    BY DEF Open
  <2> QED BY <1>2, <2>1, <2>2, <2>3, <2>4
<1>5. IsFiniteSet(PagesOf(wm_windows)) /\ pages = Cardinality(PagesOf(wm_windows))
  BY Views DEF WmInv, ImagePagesAreOwned
<1>6. /\ IsFiniteSet(PagesOf(wm_windows')) /\ pages \in Nat /\ Buffer(win) \in Nat
      /\ Buffer(wm_windows[i]) \in Nat /\ Buffer(wm_windows[i]) <= pages
      /\ Cardinality(PagesOf(wm_windows')) = pages - Buffer(wm_windows[i]) + Buffer(win)
  BY <1>1, <1>5, PagesReplace, Zenon
<1> QED BY <1>2, <1>3, <1>4, <1>6, NextViews


----------------------------------------------------------------------------
(* What an action does to the lines outside the dirty rectangle.           *)
Marks ==
  \A l \in Screen :
    /\ IsDirty(dirty, l) => IsDirty(dirty', l)
    /\ IsDirty(dirty', l) \/ Drawn(l)' = Drawn(l)

LEMMA SameLine ==
  ASSUME WmInv, WinTypes', OrderIsStrict', wm_cursor_y' = wm_cursor_y, NEW l,
         \A j \in Slot : j \in CoverOf(wm_windows, l) \/ j \in CoverOf(wm_windows', l) =>
           /\ SameFace(wm_windows'[j], wm_windows[j])
           /\ (wm_windows[j].id = wm_focus_id') <=> (wm_windows[j].id = wm_focus_id)
  PROVE  Drawn(l)' = Drawn(l)
<1> DEFINE W == wm_windows
           V == wm_windows'
<1>1. W \in [Slot -> Win] /\ V \in [Slot -> Win]
  BY DEF WmInv, WmTypes, WinTypes
<1>2. Strict(W) /\ Strict(V)
  BY Views, NextViews DEF WmInv, OrderIsStrict, Strict
<1>3. CoverOf(V, l) = CoverOf(W, l)
  <2>1. CoverOf(V, l) \subseteq Slot /\ CoverOf(W, l) \subseteq Slot
    BY DEF CoverOf, OpenOf
  <2>2. ASSUME NEW j \in Slot, SameFace(V[j], W[j]) PROVE j \in CoverOf(V, l) <=> j \in CoverOf(W, l)
    BY <2>2 DEF CoverOf, OpenOf, Shown, SameFace
  <2> HIDE DEF W, V
  <2> QED BY <2>1, <2>2 DEF W, V
<1>4. \A j \in CoverOf(W, l) : SameFace(V[j], W[j]) /\ ((W[j].id = wm_focus_id') <=> (W[j].id = wm_focus_id))
  BY DEF CoverOf, OpenOf
<1>5. DrawnOf(V, wm_focus_id', wm_cursor_y, l) = DrawnOf(W, wm_focus_id, wm_cursor_y, l)
  <2> HIDE DEF W, V
  <2>1. \A j \in CoverOf(W, l) : /\ V[j].id = W[j].id /\ V[j].image = W[j].image /\ V[j].z = W[j].z
                                 /\ ((V[j].id = wm_focus_id') <=> (W[j].id = wm_focus_id))
    BY <1>4 DEF SameFace
  <2> QED BY <1>1, <1>2, <1>3, <2>1, SameDrawn
<1> QED BY <1>5, Views, NextViews

LEMMA CreateStep ==
  ASSUME WmInv, NEW h \in Heights, wm_create(h)
  PROVE  WmInv' /\ Marks
<1>1. PICK i \in Slot \ Open :
        LET win == [NoWindow EXCEPT !.used = TRUE, !.id = wm_next_id, !.h = h, !.z = wm_next_z,
                                    !.y = (wm_next_id * 2) % (wm_usable_h - h + 1)]
        IN  /\ wm_windows' = [wm_windows EXCEPT ![i] = win]
            /\ dirty' = wm_mark_dirty_taskbar(wm_mark_dirty_window(dirty, win))
            /\ told' = [told EXCEPT ![i] = "FOCUS_OUT"]
  BY Zenon DEF wm_create
<1> DEFINE y == (wm_next_id * 2) % (wm_usable_h - h + 1)
           win == [NoWindow EXCEPT !.used = TRUE, !.id = wm_next_id, !.h = h, !.z = wm_next_z, !.y = y]
<1>2. WmTypes /\ WinTypes /\ WmIds /\ wm_windows \in [Slot -> Win]
  BY DEF WmInv, WmTypes, WinTypes
<1>3. /\ wm_next_id <= MaxId /\ wm_next_id' = wm_next_id + 1 /\ wm_next_z' = wm_next_z + 1
      /\ UNCHANGED <<wm_focus_id, wm_cursor_y, wm_gpu_ready, screen, pages>>
  BY DEF wm_create
<1>4. wm_next_id \in 0 .. MaxId /\ wm_next_z \in Nat /\ wm_next_id \in Nat /\ wm_next_id > 0 /\ wm_gpu_ready \in BOOLEAN
  BY <1>2, <1>3, Screens DEF WmTypes
<1>5. y \in Int
  BY <1>4, UsableType
<1> HIDE DEF y
<1>6. /\ win \in Win /\ win.used /\ win.id = wm_next_id /\ win.z = wm_next_z /\ win.ev_ring = <<>>
      /\ win.image_pages = 0 /\ win.h = h
  <2>1. h \in Heights \cup {0} /\ 0 \in 0 .. MaxId /\ <<>> \in Seq(Event)
    BY Screens
  <2> QED BY <1>4, <1>5, <2>1, Zenon DEF NoWindow, Win, NoImage
<1>7. /\ wm_windows' = [wm_windows EXCEPT ![i] = win]
      /\ dirty' = wm_mark_dirty_taskbar(wm_mark_dirty_window(dirty, win))
      /\ told' = [told EXCEPT ![i] = "FOCUS_OUT"]
  BY <1>1 DEF y
<1> HIDE DEF win
<1>8. i \in Slot /\ i \notin Open /\ ~wm_windows[i].used
  BY <1>1 DEF Open
<1>9. Len(win.ev_ring) < WM_EVENT_RING_SIZE
  BY <1>6, Screens
<1>10. /\ WinTypes' /\ wm_windows' \in [Slot -> Win] /\ wm_windows'[i] = win
       /\ \A j \in Slot : j # i => wm_windows'[j] = wm_windows[j]
       /\ Open' = Open \cup {i}
       /\ IsFiniteSet(ImagePage') /\ pages \in Nat
       /\ Cardinality(ImagePage') = pages - Buffer(wm_windows[i]) + Buffer(win)
  BY <1>6, <1>7, <1>8, <1>9, Replaced, Zenon
<1>11. \A j \in Open : j \in Slot /\ j # i /\ wm_windows'[j] = wm_windows[j]
  BY <1>8, <1>10 DEF Open
<1>12. dirty' \in Clip \cup {<<>>} /\ \A l \in Screen : /\ IsDirty(dirty, l) => IsDirty(dirty', l)
                                                        /\ Shown(win, l) => IsDirty(dirty', l)
  <2>1. dirty \in Clip \cup {<<>>}
    BY <1>2 DEF WmTypes
  <2> DEFINE d == wm_mark_dirty_window(dirty, win)
  <2>2. d \in Clip \cup {<<>>} /\ \A l \in Screen : /\ IsDirty(dirty, l) => IsDirty(d, l)
                                                    /\ Shown(win, l) => IsDirty(d, l)
    BY <1>6, <2>1, MarkWindow
  <2> HIDE DEF d
  <2>3. dirty' = wm_mark_dirty_taskbar(d)
    BY <1>7 DEF d
  <2> QED BY <1>4, <2>2, <2>3, MarkTaskbar
<1>13. WmTypes'
  <2>1. told' \in [Slot -> Event]
    BY <1>2, <1>7 DEF WmTypes, Event
  <2>2. wm_next_id' \in 1 .. MaxId + 1 /\ wm_focus_id' < wm_next_id'
    BY <1>2, <1>3, <1>4, Screens DEF WmTypes
  <2> QED BY <1>2, <1>3, <1>4, <1>10, <1>12, <2>1, <2>2 DEF WmTypes
<1>14. WmIds'
  <2>1. \A j \in Open : wm_windows[j].id > 0 /\ wm_windows[j].id < wm_next_id /\ wm_windows[j].id \in Int
    BY <1>2 DEF WmIds, Open, Win
  <2>2. \A j, k \in Open : wm_windows[j].id = wm_windows[k].id => j = k
    BY <1>2 DEF WmIds
  <2> QED BY <1>3, <1>4, <1>6, <1>10, <1>11, <2>1, <2>2 DEF WmIds
<1>15. OrderIsStrict'
  <2>1. \A j \in Open : wm_windows[j].z < wm_next_z /\ wm_windows[j].z \in Int
    BY <1>2 DEF WmInv, OrderIsStrict, Open, Win
  <2>2. \A j, k \in Open : wm_windows[j].z = wm_windows[k].z => j = k
    BY DEF WmInv, OrderIsStrict
  <2> QED BY <1>3, <1>4, <1>6, <1>10, <1>11, <2>1, <2>2 DEF OrderIsStrict
<1>16. FocusIsKnown'
  <2>1. Known(wm_windows, told, wm_focus_id)
    BY KnownViews DEF WmInv
  <2>2. told'[i] = "FOCUS_OUT" /\ \A j \in Open : told'[j] = told[j]
    BY <1>2, <1>7, <1>8, <1>11 DEF WmTypes
  <2>3. LastOf(win.ev_ring, told'[i]) # "FOCUS_IN" /\ win.id # wm_focus_id
    BY <1>2, <1>4, <1>6, <2>2 DEF LastOf, WmTypes
  <2>4. Open' = OpenOf(wm_windows') /\ Open = OpenOf(wm_windows)
    BY Views, NextViews
  <2>5. Known(wm_windows', told', wm_focus_id)
    BY <1>10, <1>11, <2>1, <2>2, <2>3, <2>4 DEF Known
  <2> QED BY <1>3, <2>5, KnownViews
<1>17. ImagePagesAreOwned'
  <2>1. Buffer(wm_windows[i]) = 0 /\ Buffer(win) = 0
    BY <1>6, <1>8 DEF Buffer
  <2> QED BY <1>3, <1>10, <2>1 DEF ImagePagesAreOwned
<1>18. Marks
  <2> SUFFICES ASSUME NEW l \in Screen, ~IsDirty(dirty', l) PROVE Drawn(l)' = Drawn(l)
    BY <1>12 DEF Marks
  <2>1. ~Shown(win, l)
    BY <1>12
  <2>2. ASSUME NEW j \in Slot, j \in CoverOf(wm_windows, l) \/ j \in CoverOf(wm_windows', l)
        PROVE  SameFace(wm_windows'[j], wm_windows[j])
    <3>1. j # i
      BY <1>8, <1>10, <2>1, <2>2 DEF CoverOf, OpenOf
    <3> QED BY <1>10, <3>1 DEF SameFace
  <2> QED BY <1>3, <1>10, <1>15, <2>2, SameLine
<1> QED BY <1>10, <1>13, <1>14, <1>15, <1>16, <1>17, <1>18 DEF WmInv


(* A step that leaves the windows as they are but for window i, which      *)
(* keeps its number, its place and its events.                             *)
LEMMA ChangedStep ==
  ASSUME WmInv, NEW i \in Open, NEW win \in Win, wm_windows' = [wm_windows EXCEPT ![i] = win],
         win.used, win.id = wm_windows[i].id, win.z = wm_windows[i].z, win.ev_ring = wm_windows[i].ev_ring,
         win.ev_overflow_latched = wm_windows[i].ev_overflow_latched,
         UNCHANGED <<wm_next_id, wm_next_z, wm_focus_id, wm_cursor_y, wm_gpu_ready, screen, told>>,
         dirty' \in Clip \cup {<<>>}, pages' = pages - wm_windows[i].image_pages + win.image_pages
  PROVE  /\ WmInv' /\ \A j \in Slot : j # i => wm_windows'[j] = wm_windows[j]
         /\ wm_windows'[i] = win /\ i \in Slot
<1>1. WmTypes /\ WinTypes /\ WmIds /\ wm_windows \in [Slot -> Win] /\ i \in Slot /\ wm_windows[i].used
  BY DEF WmInv, WmTypes, WinTypes, Open
<1>2. Len(win.ev_ring) < WM_EVENT_RING_SIZE
  BY <1>1 DEF WinTypes
<1>3. /\ WinTypes' /\ wm_windows' \in [Slot -> Win] /\ wm_windows'[i] = win
      /\ \A j \in Slot : j # i => wm_windows'[j] = wm_windows[j]
      /\ Open' = Open \cup {i}
      /\ IsFiniteSet(ImagePage') /\ pages \in Nat /\ Buffer(win) \in Nat /\ Buffer(wm_windows[i]) \in 0 .. pages
      /\ Cardinality(ImagePage') = pages - Buffer(wm_windows[i]) + Buffer(win)
  BY <1>1, <1>2, Replaced, Zenon
<1>4. Buffer(win) = win.image_pages /\ Buffer(wm_windows[i]) = wm_windows[i].image_pages
  BY <1>1 DEF Buffer
<1>5. pages' \in Nat /\ ImagePagesAreOwned'
  BY <1>3, <1>4 DEF ImagePagesAreOwned
<1>6. WmTypes'
  BY <1>1, <1>3, <1>5 DEF WmTypes
<1>7. Open' = Open
  BY <1>3
<1>8. \A j \in Open : /\ wm_windows'[j].id = wm_windows[j].id /\ wm_windows'[j].z = wm_windows[j].z
                      /\ wm_windows'[j].ev_ring = wm_windows[j].ev_ring
                      /\ wm_windows'[j].ev_overflow_latched = wm_windows[j].ev_overflow_latched
  BY <1>3 DEF Open
<1>9. WmIds' /\ OrderIsStrict'
  BY <1>1, <1>7, <1>8 DEF WmIds, OrderIsStrict, WmInv
<1>10. FocusIsKnown'
  <2>1. Known(wm_windows, told, wm_focus_id) /\ Open' = OpenOf(wm_windows') /\ Open = OpenOf(wm_windows)
    BY KnownViews, Views, NextViews DEF WmInv
  <2>2. ASSUME NEW j \in Open, ~wm_windows'[j].ev_overflow_latched
        PROVE  LastOf(wm_windows'[j].ev_ring, told[j]) = "FOCUS_IN" <=> wm_windows'[j].id = wm_focus_id
    <3>1. /\ ~wm_windows[j].ev_overflow_latched /\ wm_windows'[j].id = wm_windows[j].id
          /\ wm_windows'[j].ev_ring = wm_windows[j].ev_ring
      BY <1>8, <2>2
    <3>2. LastOf(wm_windows[j].ev_ring, told[j]) = "FOCUS_IN" <=> wm_windows[j].id = wm_focus_id
      BY <2>1, <3>1 DEF Known
    <3> QED BY <3>1, <3>2
  <2>3. Known(wm_windows', told, wm_focus_id)
    BY <1>7, <2>1, <2>2, Zenon DEF Known
  <2> QED BY <2>3, KnownViews
<1> QED BY <1>1, <1>3, <1>5, <1>6, <1>9, <1>10 DEF WmInv

(* Such a step redraws the lines of the window before and after it.        *)
LEMMA ChangedMarks ==
  ASSUME WmInv, WmInv', NEW i \in Slot, UNCHANGED <<wm_focus_id, wm_cursor_y>>,
         \A j \in Slot : j # i => wm_windows'[j] = wm_windows[j],
         \A l \in Screen :
           /\ IsDirty(dirty, l) => IsDirty(dirty', l)
           /\ Shown(wm_windows[i], l) \/ Shown(wm_windows'[i], l) => IsDirty(dirty', l)
  PROVE  Marks
<1> SUFFICES ASSUME NEW l \in Screen, ~IsDirty(dirty', l) PROVE Drawn(l)' = Drawn(l)
  BY DEF Marks
<1>1. WinTypes' /\ OrderIsStrict'
  BY DEF WmInv, WmTypes
<1>2. ~Shown(wm_windows[i], l) /\ ~Shown(wm_windows'[i], l)
  OBVIOUS
<1>3. ASSUME NEW j \in Slot, j \in CoverOf(wm_windows, l) \/ j \in CoverOf(wm_windows', l)
      PROVE  SameFace(wm_windows'[j], wm_windows[j])
  <2>1. j # i
    BY <1>2, <1>3 DEF CoverOf
  <2> QED BY <2>1 DEF SameFace
<1> QED BY <1>1, <1>3, SameLine

LEMMA ReshapeStep ==
  ASSUME WmInv, NEW i \in Open, NEW win \in Win, Reshape(i, win),
         \E v : win = [wm_windows[i] EXCEPT !.y = v] \/ win = [wm_windows[i] EXCEPT !.h = v]
  PROVE  WmInv' /\ Marks
<1>1. WmTypes /\ WinTypes /\ wm_windows \in [Slot -> Win] /\ i \in Slot /\ wm_windows[i].used
  BY DEF WmInv, WmTypes, WinTypes, Open
<1> DEFINE old == wm_windows[i]
<1>2. old \in Win /\ win.used /\ win.id = old.id /\ win.z = old.z /\ win.ev_ring = old.ev_ring
      /\ win.ev_overflow_latched = old.ev_overflow_latched /\ win.image_pages = old.image_pages
  BY <1>1 DEF Win
<1>3. /\ wm_windows' = [wm_windows EXCEPT ![i] = win]
      /\ dirty' = wm_mark_dirty_window(wm_mark_dirty_window(dirty, old), win)
      /\ UNCHANGED <<wm_next_id, wm_next_z, wm_focus_id, wm_cursor_y, wm_gpu_ready, screen, pages, told>>
  BY DEF Reshape, Moved
<1> HIDE DEF old
<1>4. dirty' \in Clip \cup {<<>>}
      /\ \A l \in Screen : /\ IsDirty(dirty, l) => IsDirty(dirty', l)
                           /\ Shown(old, l) \/ Shown(win, l) => IsDirty(dirty', l)
  <2> DEFINE d == wm_mark_dirty_window(dirty, old)
  <2>1. dirty \in Clip \cup {<<>>}
    BY <1>1 DEF WmTypes
  <2>2. d \in Clip \cup {<<>>} /\ \A l \in Screen : /\ IsDirty(dirty, l) => IsDirty(d, l)
                                                    /\ Shown(old, l) => IsDirty(d, l)
    BY <1>2, <2>1, MarkWindow, Zenon
  <2> HIDE DEF d
  <2>3. dirty' = wm_mark_dirty_window(d, win)
    BY <1>3 DEF d
  <2> QED BY <2>2, <2>3, MarkWindow
<1>5. pages' = pages - old.image_pages + win.image_pages
  <2>1. pages \in Nat /\ old.image_pages \in Nat
    BY <1>1, <1>2 DEF WmTypes, Win
  <2> QED BY <1>2, <1>3, <2>1
<1>6. WmInv' /\ (\A j \in Slot : j # i => wm_windows'[j] = wm_windows[j]) /\ wm_windows'[i] = win
  BY <1>2, <1>3, <1>4, <1>5, ChangedStep, Zenon DEF old
<1> QED BY <1>1, <1>3, <1>4, <1>6, ChangedMarks DEF old

LEMMA MoveStep ==
  ASSUME WmInv, NEW id, \/ \E y \in Lines : wm_move(id, y)
                        \/ \E h \in Heights : wm_resize(id, h)
  PROVE  WmInv' /\ Marks
<1>1. wm_windows \in [Slot -> Win] /\ wm_find(id) \subseteq Open /\ Open \subseteq Slot
  BY DEF WmInv, WmTypes, WinTypes, wm_find, Open
<1>2. ASSUME NEW y \in Lines, wm_move(id, y) PROVE WmInv' /\ Marks
  <2>1. PICK i \in wm_find(id) : Reshape(i, [wm_windows[i] EXCEPT !.y = y])
    BY <1>2 DEF wm_move
  <2> DEFINE win == [wm_windows[i] EXCEPT !.y = y]
  <2>2. y \in Int /\ i \in Open /\ wm_windows[i] \in Win
    BY <1>1, Screens
  <2>3. win \in Win
    BY <2>2 DEF Win
  <2> QED BY <2>1, <2>2, <2>3, ReshapeStep
<1>3. ASSUME NEW h \in Heights, wm_resize(id, h) PROVE WmInv' /\ Marks
  <2>1. PICK i \in wm_find(id) : Reshape(i, [wm_windows[i] EXCEPT !.h = h])
    BY <1>3 DEF wm_resize
  <2> DEFINE win == [wm_windows[i] EXCEPT !.h = h]
  <2>2. i \in Open /\ wm_windows[i] \in Win
    BY <1>1
  <2>3. win \in Win
    BY <2>2 DEF Win
  <2> QED BY <2>1, <2>2, <2>3, ReshapeStep
<1> QED BY <1>2, <1>3


(* What depends only on the windows, when they are left alone.             *)
LEMMA WindowsKept ==
  ASSUME WmInv, UNCHANGED <<wm_windows, wm_next_id, wm_next_z, wm_focus_id, pages, told>>
  PROVE  /\ WinTypes' /\ WmIds' /\ OrderIsStrict' /\ FocusIsKnown'
         /\ IsFiniteSet(ImagePage') /\ ImagePagesAreOwned'
<1>1. Open' = Open /\ ImagePage' = ImagePage
  BY DEF ImagePage, Open
<1>2. WinTypes'
  BY DEF WmInv, WmTypes, WinTypes
<1>3. WmIds' /\ OrderIsStrict'
  BY <1>1 DEF WmInv, WmIds, OrderIsStrict
<1>4. FocusIsKnown'
  BY <1>1 DEF WmInv, FocusIsKnown, LastFocusEvent
<1>5. IsFiniteSet(ImagePage') /\ ImagePagesAreOwned'
  BY <1>1 DEF WmInv, ImagePagesAreOwned
<1> QED BY <1>2, <1>3, <1>4, <1>5

LEMMA TextStep ==
  ASSUME WmInv, NEW id, wm_set_text(id)
  PROVE  WmInv' /\ Marks
<1>1. PICK i \in wm_find(id) : dirty' = wm_mark_dirty_window(dirty, wm_windows[i])
  BY DEF wm_set_text
<1>2. /\ UNCHANGED <<wm_windows, wm_next_id, wm_next_z, wm_focus_id, wm_cursor_y, wm_gpu_ready, screen, pages, told>>
  BY DEF wm_set_text
<1>3. wm_windows[i] \in Win /\ WmTypes /\ dirty \in Clip \cup {<<>>}
  BY DEF WmInv, WmTypes, WinTypes, wm_find, Open
<1>4. dirty' \in Clip \cup {<<>>} /\ \A l \in Screen : IsDirty(dirty, l) => IsDirty(dirty', l)
  BY <1>1, <1>3, MarkWindow
<1>5. WinTypes' /\ WmIds' /\ OrderIsStrict' /\ FocusIsKnown' /\ IsFiniteSet(ImagePage') /\ ImagePagesAreOwned'
  BY <1>2, WindowsKept
<1>6. WmTypes'
  BY <1>2, <1>3, <1>4, <1>5 DEF WmTypes
<1>7. \A l \in Screen : Drawn(l)' = Drawn(l)
  BY <1>2 DEF Drawn, Covering, Open, Top
<1> QED BY <1>4, <1>5, <1>6, <1>7 DEF WmInv, Marks

LEMMA ImageStep ==
  ASSUME WmInv, NEW id, NEW image \in Image \cup {NoImage}, wm_set_image(id, image)
  PROVE  WmInv' /\ (image # NoImage => Marks)
<1> DEFINE Size(w) == IF image = NoImage THEN 0 ELSE Highest(w.image_pages, image)
           New(w) == [w EXCEPT !.image = image, !.image_pages = Size(w)]
<1>1. PICK i \in wm_find(id) :
        /\ wm_windows' = [wm_windows EXCEPT ![i] = New(wm_windows[i])]
        /\ pages' = ImagePages(wm_windows[i], image)
        /\ dirty' = IF image = NoImage THEN dirty ELSE wm_mark_dirty_window(dirty, wm_windows[i])
        /\ UNCHANGED <<wm_next_id, wm_next_z, wm_focus_id, wm_cursor_y, wm_gpu_ready, screen, told>>
  <2>1. PICK i \in wm_find(id) :
          /\ wm_windows' = [wm_windows EXCEPT ![i].image = image,
               ![i].image_pages = IF image = NoImage THEN 0 ELSE Highest(@, image)]
          /\ pages' = ImagePages(wm_windows[i], image)
          /\ dirty' = IF image = NoImage THEN dirty ELSE wm_mark_dirty_window(dirty, wm_windows[i])
          /\ UNCHANGED <<wm_next_id, wm_next_z, wm_focus_id, wm_cursor_y, wm_gpu_ready, screen, told>>
    BY Zenon DEF wm_set_image
  <2>2. wm_windows \in [Slot -> Win] /\ i \in Slot /\ wm_windows[i] \in Win
    BY DEF WmInv, WmTypes, WinTypes, wm_find, Open
  <2>3. wm_windows' = [wm_windows EXCEPT ![i] = New(wm_windows[i])]
    BY <2>1, <2>2, Zenon DEF Win
  <2> QED BY <2>1, <2>3, Zenon
<1> DEFINE old == wm_windows[i]
           win == New(old)
<1>2. old \in Win /\ old.used /\ WmTypes /\ i \in Open /\ i \in Slot
  BY DEF WmInv, WmTypes, WinTypes, wm_find, Open
<1>3. old.image_pages \in Nat /\ image \in Nat /\ pages \in Nat /\ Size(old) \in Nat
  BY <1>2, Screens DEF Win, WmTypes, NoImage, Highest
<1> HIDE DEF old
<1>4. /\ win \in Win /\ win.used /\ win.id = old.id /\ win.z = old.z /\ win.ev_ring = old.ev_ring
      /\ win.ev_overflow_latched = old.ev_overflow_latched /\ win.y = old.y /\ win.h = old.h
      /\ win.image_pages = Size(old)
  <2> HIDE DEF Size
  <2> QED BY <1>2, <1>3, Zenon DEF Win
<1>5. pages' = pages - old.image_pages + win.image_pages
  <2>1. pages' = ImagePages(old, image)
    BY <1>1 DEF old
  <2>2. ImagePages(old, image) = pages - old.image_pages + Size(old)
    BY <1>3 DEF ImagePages, Highest, NoImage
  <2> QED BY <1>4, <2>1, <2>2
<1>6. /\ dirty' \in Clip \cup {<<>>}
      /\ \A l \in Screen : /\ IsDirty(dirty, l) => IsDirty(dirty', l)
                           /\ image # NoImage /\ Shown(old, l) => IsDirty(dirty', l)
  <2>1. dirty \in Clip \cup {<<>>}
    BY <1>2 DEF WmTypes
  <2>2. CASE image = NoImage
    BY <1>1, <2>1, <2>2
  <2>3. CASE image # NoImage
    <3>1. dirty' = wm_mark_dirty_window(dirty, old)
      BY <1>1, <2>3 DEF old
    <3> QED BY <1>2, <2>1, <3>1, MarkWindow
  <2> QED BY <2>2, <2>3
<1>7. wm_windows' = [wm_windows EXCEPT ![i] = win]
  BY <1>1 DEF old
<1> HIDE DEF win
<1>8. WmInv' /\ (\A j \in Slot : j # i => wm_windows'[j] = wm_windows[j]) /\ wm_windows'[i] = win
  BY <1>1, <1>2, <1>4, <1>5, <1>6, <1>7, ChangedStep, Zenon DEF old
<1>9. \A l \in Screen : Shown(win, l) <=> Shown(old, l)
  BY <1>4 DEF Shown
<1>10. image # NoImage => Marks
  BY <1>1, <1>2, <1>6, <1>8, <1>9, ChangedMarks, Zenon DEF old
<1> QED BY <1>8, <1>10

LEMMA PollStep ==
  ASSUME WmInv, NEW id, wm_poll_event(id)
  PROVE  WmInv' /\ Marks
<1>1. PICK i \in wm_find(id) :
        /\ wm_windows[i].ev_ring # <<>>
        /\ wm_windows' = [wm_windows EXCEPT ![i].ev_ring = Tail(@)]
        /\ told' = [told EXCEPT ![i] = Head(wm_windows[i].ev_ring)]
        /\ UNCHANGED <<wm_next_id, wm_next_z, wm_focus_id, wm_cursor_y, wm_gpu_ready, dirty, screen, pages>>
  BY Zenon DEF wm_poll_event
<1> DEFINE old == wm_windows[i]
           r == old.ev_ring
           win == [old EXCEPT !.ev_ring = Tail(r)]
<1>2. old \in Win /\ old.used /\ WmTypes /\ i \in Open /\ i \in Slot /\ Len(r) < WM_EVENT_RING_SIZE
      /\ wm_windows \in [Slot -> Win]
  BY DEF WmInv, WmTypes, WinTypes, wm_find, Open
<1>3. r \in Seq(Event) /\ r # <<>> /\ Len(r) \in Nat
  BY <1>1, <1>2 DEF Win
<1>4. wm_windows' = [wm_windows EXCEPT ![i] = win]
  BY <1>1, <1>2 DEF Win
<1>5. told' = [told EXCEPT ![i] = Head(r)]
  BY <1>1
<1> HIDE DEF r
<1>6. Tail(r) \in Seq(Event) /\ Head(r) \in Event /\ Len(Tail(r)) < WM_EVENT_RING_SIZE
  BY <1>2, <1>3, Screens
<1>7. /\ win \in Win /\ SameFace(win, old) /\ win.ev_ring = Tail(r)
      /\ win.ev_overflow_latched = old.ev_overflow_latched
  BY <1>2, <1>6, Zenon DEF Win, SameFace
<1> HIDE DEF win, old
<1>8. /\ WinTypes' /\ wm_windows' \in [Slot -> Win] /\ wm_windows'[i] = win
      /\ \A j \in Slot : j # i => wm_windows'[j] = wm_windows[j]
      /\ Open' = Open \cup {i}
      /\ IsFiniteSet(ImagePage') /\ pages \in Nat /\ Buffer(win) \in Nat /\ Buffer(old) \in 0 .. pages
      /\ Cardinality(ImagePage') = pages - Buffer(old) + Buffer(win)
  <2>1. win.used /\ Len(win.ev_ring) < WM_EVENT_RING_SIZE
    BY <1>2, <1>6, <1>7 DEF SameFace
  <2> QED BY <1>2, <1>4, <1>7, <2>1, Replaced, Zenon DEF old
<1>9. Open' = Open
  BY <1>2, <1>8
<1>10. \A j \in Slot : SameFace(wm_windows'[j], wm_windows[j])
  BY <1>7, <1>8 DEF SameFace, old
<1>11. WmTypes'
  <2>1. told' \in [Slot -> Event]
    BY <1>2, <1>5, <1>6 DEF WmTypes
  <2> QED BY <1>1, <1>2, <1>8, <2>1 DEF WmTypes
<1>12. WmIds' /\ OrderIsStrict'
  <2>1. \A j \in Open : wm_windows'[j].id = wm_windows[j].id /\ wm_windows'[j].z = wm_windows[j].z
    BY <1>10 DEF SameFace, Open
  <2> QED BY <1>1, <1>9, <2>1 DEF WmInv, WmIds, OrderIsStrict
<1>13. ImagePagesAreOwned'
  <2>1. Buffer(win) = Buffer(old)
    BY <1>7 DEF Buffer, SameFace
  <2> QED BY <1>1, <1>8, <2>1 DEF ImagePagesAreOwned
<1>14. FocusIsKnown'
  <2>1. Known(wm_windows, told, wm_focus_id) /\ Open' = OpenOf(wm_windows') /\ Open = OpenOf(wm_windows)
    BY KnownViews, Views, NextViews DEF WmInv
  <2>2. ASSUME NEW j \in Open, ~wm_windows'[j].ev_overflow_latched
        PROVE  LastOf(wm_windows'[j].ev_ring, told'[j]) = "FOCUS_IN" <=> wm_windows'[j].id = wm_focus_id
    <3>1. CASE j = i
      <4>1. told'[j] = Head(r)
        BY <1>2, <1>5, <3>1 DEF WmTypes
      <4>2. LastOf(Tail(r), Head(r)) = LastOf(r, told[j])
        BY <1>3, LastFacts
      <4>3. wm_windows'[j] = win /\ wm_windows[j] = old
        BY <1>8, <3>1 DEF old
      <4>4. LastOf(old.ev_ring, told[j]) = "FOCUS_IN" <=> old.id = wm_focus_id
        BY <1>7, <2>1, <2>2, <4>3 DEF Known
      <4> QED BY <1>7, <4>1, <4>2, <4>3, <4>4 DEF SameFace, r
    <3>2. CASE j # i
      <4>1. wm_windows'[j] = wm_windows[j] /\ told'[j] = told[j]
        BY <1>2, <1>5, <1>8, <3>2 DEF Open, WmTypes
      <4> QED BY <2>1, <2>2, <4>1 DEF Known
    <3> QED BY <3>1, <3>2
  <2>3. Known(wm_windows', told', wm_focus_id)
    BY <1>9, <2>1, <2>2 DEF Known
  <2> QED BY <1>1, <2>3, KnownViews
<1>15. \A l \in Screen : Drawn(l)' = Drawn(l)
  BY <1>1, <1>8, <1>10, <1>12, SameLine, Zenon
<1>16. Marks
  BY <1>1, <1>15 DEF Marks
<1> QED BY <1>8, <1>11, <1>12, <1>13, <1>14, <1>16 DEF WmInv


LEMMA CloseStep ==
  ASSUME WmInv, NEW id, wm_close(id)
  PROVE  WmInv' /\ Marks
<1>1. PICK i \in wm_find(id) :
        /\ wm_windows' = [wm_windows EXCEPT ![i] = NoWindow]
        /\ pages' = pages - wm_windows[i].image_pages
        /\ wm_focus_id' = FocusAfterClose(id)
        /\ dirty' = wm_mark_dirty_taskbar(wm_mark_dirty_window(dirty, wm_windows[i]))
        /\ UNCHANGED <<wm_next_id, wm_next_z, wm_cursor_y, wm_gpu_ready, screen, told>>
  BY Zenon DEF wm_close
<1> DEFINE old == wm_windows[i]
           win == NoWindow
<1>2. old \in Win /\ old.used /\ old.id = id /\ WmTypes /\ i \in Open /\ i \in Slot /\ WmIds
  BY DEF WmInv, WmTypes, WinTypes, wm_find, Open
<1>3. /\ win \in Win /\ ~win.used /\ win.ev_ring = <<>> /\ Len(win.ev_ring) < WM_EVENT_RING_SIZE
      /\ win.y = 0 /\ win.h = 0
  <2>1. 0 \in 0 .. MaxId /\ <<>> \in Seq(Event) /\ 0 < WM_EVENT_RING_SIZE
    BY Screens
  <2> QED BY <2>1 DEF NoWindow, Win, NoImage
<1> HIDE DEF old, win
<1>4. /\ WinTypes' /\ wm_windows' \in [Slot -> Win] /\ wm_windows'[i] = win
      /\ \A j \in Slot : j # i => wm_windows'[j] = wm_windows[j]
      /\ Open' = Open \ {i}
      /\ IsFiniteSet(ImagePage') /\ pages \in Nat /\ Buffer(win) \in Nat /\ Buffer(old) \in 0 .. pages
      /\ Cardinality(ImagePage') = pages - Buffer(old) + Buffer(win)
  BY <1>1, <1>2, <1>3, Replaced, Zenon DEF old, win
<1>5. Open' \subseteq Open /\ \A j \in Open' : j \in Slot /\ j # i /\ wm_windows'[j] = wm_windows[j]
  BY <1>4 DEF Open
<1>6. Buffer(old) = old.image_pages /\ Buffer(win) = 0 /\ pages' = pages - old.image_pages
  BY <1>1, <1>2, <1>3 DEF Buffer, old
<1>7. pages' \in Nat /\ ImagePagesAreOwned'
  BY <1>4, <1>6 DEF ImagePagesAreOwned
<1>8. /\ dirty' \in Clip \cup {<<>>}
      /\ \A l \in Screen : /\ IsDirty(dirty, l) => IsDirty(dirty', l)
                           /\ Shown(old, l) => IsDirty(dirty', l)
  <2>1. dirty \in Clip \cup {<<>>} /\ wm_gpu_ready \in BOOLEAN
    BY <1>2 DEF WmTypes
  <2> DEFINE d == wm_mark_dirty_window(dirty, old)
  <2>2. d \in Clip \cup {<<>>} /\ \A l \in Screen : /\ IsDirty(dirty, l) => IsDirty(d, l)
                                                    /\ Shown(old, l) => IsDirty(d, l)
    BY <1>2, <2>1, MarkWindow
  <2> HIDE DEF d
  <2>3. dirty' = wm_mark_dirty_taskbar(d)
    BY <1>1 DEF d, old
  <2> QED BY <2>1, <2>2, <2>3, MarkTaskbar
<1>9. wm_focus_id' \in 0 .. MaxId /\ wm_focus_id' < wm_next_id
  BY <1>1, <1>2, Screens DEF FocusAfterClose, WmTypes
<1>10. WmTypes'
  BY <1>1, <1>2, <1>4, <1>7, <1>8, <1>9 DEF WmTypes
<1>11. WmIds' /\ OrderIsStrict'
  BY <1>1, <1>2, <1>5 DEF WmInv, WmIds, OrderIsStrict
<1>12. \A j \in Open : j # i => (wm_windows[j].id = wm_focus_id' <=> wm_windows[j].id = wm_focus_id)
  <2> SUFFICES ASSUME NEW j \in Open, j # i
               PROVE  wm_windows[j].id = wm_focus_id' <=> wm_windows[j].id = wm_focus_id
    OBVIOUS
  <2>1. wm_windows[j].id # id /\ wm_windows[j].id # 0
    BY <1>2 DEF WmIds, old
  <2> QED BY <1>1, <2>1 DEF FocusAfterClose
<1>13. FocusIsKnown'
  <2>1. Known(wm_windows, told, wm_focus_id) /\ Open' = OpenOf(wm_windows') /\ Open = OpenOf(wm_windows)
    BY KnownViews, Views, NextViews DEF WmInv
  <2>2. Known(wm_windows', told, wm_focus_id')
    BY <1>5, <1>12, <2>1 DEF Known
  <2> QED BY <1>1, <2>2, KnownViews
<1>14. Marks
  <2> SUFFICES ASSUME NEW l \in Screen, ~IsDirty(dirty', l) PROVE Drawn(l)' = Drawn(l)
    BY <1>8 DEF Marks
  <2>1. ~Shown(old, l)
    BY <1>8
  <2>2. ASSUME NEW j \in Slot, j \in CoverOf(wm_windows, l) \/ j \in CoverOf(wm_windows', l)
        PROVE  /\ SameFace(wm_windows'[j], wm_windows[j])
               /\ wm_windows[j].id = wm_focus_id' <=> wm_windows[j].id = wm_focus_id
    <3>1. j # i
      BY <1>3, <1>4, <2>1, <2>2 DEF CoverOf, OpenOf, old
    <3>2. wm_windows'[j] = wm_windows[j]
      BY <1>4, <3>1
    <3>3. wm_windows[j].used
      BY <2>2, <3>2 DEF CoverOf, OpenOf
    <3>4. j \in Open
      BY <3>3 DEF Open
    <3> QED BY <3>4, <1>12, <3>1, <3>2, <3>3 DEF SameFace
  <2> QED BY <1>1, <1>4, <1>11, <2>2, SameLine, Zenon
<1> QED BY <1>4, <1>7, <1>10, <1>11, <1>13, <1>14 DEF WmInv

(* A window comes to the front and takes the focus: by wm_focus, and by a  *)
(* press of the mouse button.                                              *)
Front(i) ==
  LET raised == [wm_windows EXCEPT ![i].z = wm_next_z]
      id == wm_windows[i].id
  IN  /\ wm_windows' = IF wm_focus_id = id THEN raised ELSE FocusEvents(raised, id)
      /\ wm_focus_id' = id
      /\ wm_next_z' = wm_next_z + 1
      /\ UNCHANGED <<wm_next_id, wm_cursor_y, wm_gpu_ready, screen, pages, told>>

LEMMA FrontStep ==
  ASSUME WmInv, NEW i \in Open, Front(i), dirty' \in Clip \cup {<<>>}
  PROVE  WmInv' /\ \A j \in Slot : j # i => SameFace(wm_windows'[j], wm_windows[j])
<1> DEFINE W == wm_windows
           V == [wm_windows EXCEPT ![i].z = wm_next_z]
           X == wm_windows'
           id == wm_windows[i].id
<1>1. WmTypes /\ WmIds /\ W \in [Slot -> Win] /\ i \in Slot /\ wm_next_z \in Nat
      /\ \A j \in Slot : Len(W[j].ev_ring) < WM_EVENT_RING_SIZE
  BY DEF WmInv, WmTypes, WinTypes, Open
<1>2. /\ X = IF wm_focus_id = id THEN V ELSE FocusEvents(V, id)
      /\ wm_focus_id' = id /\ wm_next_z' = wm_next_z + 1
      /\ UNCHANGED <<wm_next_id, wm_cursor_y, wm_gpu_ready, screen, pages, told>>
  BY DEF Front
<1>3. V[i] = [W[i] EXCEPT !.z = wm_next_z] /\ \A j \in Slot : j # i => V[j] = W[j]
  BY <1>1
<1>4. W[i] \in Win /\ V[i] \in Win /\ V[i].z = wm_next_z
  BY <1>1, <1>3, Zenon DEF Win
<1>5. V \in [Slot -> Win]
  BY <1>1, <1>3, <1>4
<1>6. \A j \in Slot : /\ V[j].used = W[j].used /\ V[j].id = W[j].id
                      /\ V[j].image_pages = W[j].image_pages /\ V[j].ev_ring = W[j].ev_ring
                      /\ V[j].ev_overflow_latched = W[j].ev_overflow_latched
                      /\ j # i => V[j] = W[j]
  BY <1>1, <1>3, <1>4 DEF Win
<1> HIDE DEF V
<1>7. /\ FocusEvents(V, id) \in [Slot -> Win]
      /\ \A j \in Slot : /\ Len(FocusEvents(V, id)[j].ev_ring) < WM_EVENT_RING_SIZE
                         /\ SameFace(FocusEvents(V, id)[j], V[j])
      /\ \A j \in Slot : ~FocusEvents(V, id)[j].ev_overflow_latched =>
           /\ ~V[j].ev_overflow_latched
           /\ FocusEvents(V, id)[j].ev_ring =
                IF j \in wm_find(wm_focus_id) THEN Append(V[j].ev_ring, "FOCUS_OUT")
                ELSE IF j \in wm_find(id) THEN Append(V[j].ev_ring, "FOCUS_IN")
                ELSE V[j].ev_ring
  BY <1>1, <1>5, <1>6, FocusMoves
<1>8. /\ X \in [Slot -> Win]
      /\ \A j \in Slot : Len(X[j].ev_ring) < WM_EVENT_RING_SIZE /\ SameFace(X[j], V[j])
  <2>1. CASE wm_focus_id = id
    BY <1>1, <1>2, <1>5, <1>6, <2>1 DEF SameFace
  <2>2. CASE wm_focus_id # id
    <3>1. X = FocusEvents(V, id)
      BY <1>2, <2>2
    <3> HIDE DEF X
    <3> QED BY <1>7, <3>1, Zenon
  <2> QED BY <2>1, <2>2
<1>9. \A j \in Slot : /\ X[j].used = W[j].used /\ X[j].id = W[j].id /\ X[j].image_pages = W[j].image_pages
                      /\ X[j].z = V[j].z
                      /\ j # i => SameFace(X[j], W[j])
  BY <1>6, <1>8 DEF SameFace
<1>10. Open' = Open /\ ImagePage' = ImagePage
  BY <1>9, PagesKept, Views, NextViews, Zenon
<1>11. IsFiniteSet(ImagePage') /\ ImagePagesAreOwned'
  BY <1>2, <1>10 DEF WmInv, ImagePagesAreOwned
<1>12. WinTypes'
  BY <1>8 DEF WinTypes
<1>13. id \in 0 .. MaxId /\ id < wm_next_id
  BY <1>1, <1>4 DEF WmIds, Win
<1>14. WmTypes'
  BY <1>1, <1>2, <1>12, <1>13 DEF WmTypes
<1>15. WmIds'
  <2>1. \A j \in Open : X[j].id = W[j].id
    BY <1>9 DEF Open
  <2> QED BY <1>1, <1>2, <1>10, <2>1 DEF WmIds
<1>16. OrderIsStrict'
  <2>1. \A j \in Open : W[j].z < wm_next_z /\ W[j].z \in Nat /\ X[j].z = (IF j = i THEN wm_next_z ELSE W[j].z)
    <3>1. \A j \in Open : j \in Slot /\ W[j].z < wm_next_z
      BY DEF WmInv, OrderIsStrict, Open
    <3>2. \A j \in Slot : W[j].z \in Nat
      BY <1>1 DEF Win
    <3>3. \A j \in Slot : X[j].z = V[j].z /\ (j # i => V[j] = W[j])
      BY <1>6, <1>9
    <3> QED BY <1>4, <3>1, <3>2, <3>3
  <2>2. \A j, k \in Open : W[j].z = W[k].z => j = k
    BY DEF WmInv, OrderIsStrict
  <2>3. ASSUME NEW j \in Open, NEW k \in Open
        PROVE  X[j].z < wm_next_z + 1 /\ (X[j].z = X[k].z => j = k)
    BY <1>1, <2>1, <2>2
  <2> QED BY <1>2, <1>10, <2>3 DEF OrderIsStrict
<1>17. FocusIsKnown'
  <2>1. Known(W, told, wm_focus_id) /\ Open' = OpenOf(X) /\ Open = OpenOf(W)
    BY KnownViews, Views, NextViews DEF WmInv
  <2>2. ASSUME NEW j \in Open, ~X[j].ev_overflow_latched
        PROVE  LastOf(X[j].ev_ring, told[j]) = "FOCUS_IN" <=> X[j].id = id
    <3>1. j \in Slot /\ X[j].id = W[j].id
      BY <1>9 DEF Open
    <3>2. CASE wm_focus_id = id
      <4>1. ~W[j].ev_overflow_latched /\ X[j].ev_ring = W[j].ev_ring
        BY <1>2, <1>6, <2>2, <3>1, <3>2
      <4> QED BY <2>1, <3>1, <3>2, <4>1 DEF Known
    <3>3. CASE wm_focus_id # id
      <4> DEFINE r == W[j].ev_ring
      <4>1. /\ ~W[j].ev_overflow_latched
            /\ X[j].ev_ring = IF j \in wm_find(wm_focus_id) THEN Append(r, "FOCUS_OUT")
                              ELSE IF j \in wm_find(id) THEN Append(r, "FOCUS_IN")
                              ELSE r
        BY <1>2, <1>6, <1>7, <2>2, <3>1, <3>3
      <4>2. LastOf(r, told[j]) = "FOCUS_IN" <=> W[j].id = wm_focus_id
        BY <2>1, <4>1 DEF Known
      <4>3. (j \in wm_find(wm_focus_id) <=> W[j].id = wm_focus_id) /\ (j \in wm_find(id) <=> W[j].id = id)
        BY DEF wm_find
      <4>4. r \in Seq(Event) /\ "FOCUS_IN" \in Event /\ "FOCUS_OUT" \in Event
        BY <1>1, <3>1 DEF Win, Event
      <4> HIDE DEF r
      <4>5. LastOf(Append(r, "FOCUS_OUT"), told[j]) = "FOCUS_OUT" /\ LastOf(Append(r, "FOCUS_IN"), told[j]) = "FOCUS_IN"
        BY <4>4, LastFacts
      <4>6. CASE W[j].id = wm_focus_id
        BY <3>1, <3>3, <4>1, <4>3, <4>5, <4>6
      <4>7. CASE W[j].id # wm_focus_id /\ W[j].id = id
        BY <3>1, <4>1, <4>3, <4>5, <4>7
      <4>8. CASE W[j].id # wm_focus_id /\ W[j].id # id
        BY <3>1, <4>1, <4>2, <4>3, <4>8
      <4> QED BY <4>6, <4>7, <4>8
    <3> QED BY <3>2, <3>3
  <2>3. Known(X, told, id)
    BY <1>10, <2>1, <2>2 DEF Known
  <2> QED BY <1>2, <2>3, KnownViews
<1> QED BY <1>9, <1>11, <1>14, <1>15, <1>16, <1>17 DEF WmInv


(* Moving the focus marks the taskbar and the two windows concerned.       *)
LEMMA FocusMarks ==
  ASSUME WmInv, NEW id
  PROVE  /\ FocusDirty(dirty, id) \in Clip \cup {<<>>}
         /\ \A l \in Screen : IsDirty(dirty, l) => IsDirty(FocusDirty(dirty, id), l)
         /\ \A l \in Screen : \A j \in wm_find(wm_focus_id) \cup wm_find(id) :
              Shown(wm_windows[j], l) => IsDirty(FocusDirty(dirty, id), l)
<1> DEFINE olds == wm_find(wm_focus_id)
           news == wm_find(id)
           o == CHOOSE i \in olds : TRUE
           n == CHOOSE i \in news : TRUE
           t == wm_mark_dirty_taskbar(dirty)
           first == IF olds = {} THEN t ELSE wm_mark_dirty_window(t, wm_windows[o])
           last == IF news = {} THEN first ELSE wm_mark_dirty_window(first, wm_windows[n])
<1>1. FocusDirty(dirty, id) = last
  BY DEF FocusDirty
<1>2. \A j \in olds \cup news : wm_windows[j] \in Win
  BY DEF WmInv, WmTypes, WinTypes, wm_find, Open
<1>3. (\A j \in olds : j = o) /\ (\A j \in news : j = n)
  BY DEF WmInv, WmIds, wm_find
<1>4. (olds # {} => o \in olds) /\ (news # {} => n \in news)
  OBVIOUS
<1>5. t \in Clip \cup {<<>>} /\ \A l \in Screen : IsDirty(dirty, l) => IsDirty(t, l)
  BY MarkTaskbar DEF WmInv, WmTypes
<1> HIDE DEF o, n, t, olds, news
<1>6. /\ first \in Clip \cup {<<>>}
      /\ \A l \in Screen : IsDirty(t, l) => IsDirty(first, l)
      /\ \A l \in Screen : \A j \in olds : Shown(wm_windows[j], l) => IsDirty(first, l)
  <2>1. CASE olds = {}
    BY <1>5, <2>1
  <2>2. CASE olds # {}
    <3>1. wm_windows[o] \in Win
      BY <1>2, <1>4, <2>2
    <3>2. first = wm_mark_dirty_window(t, wm_windows[o])
      BY <2>2
    <3> HIDE DEF first
    <3> QED BY <1>3, <1>5, <3>1, <3>2, MarkWindow
  <2> QED BY <2>1, <2>2
<1> HIDE DEF first
<1>7. /\ last \in Clip \cup {<<>>}
      /\ \A l \in Screen : IsDirty(first, l) => IsDirty(last, l)
      /\ \A l \in Screen : \A j \in news : Shown(wm_windows[j], l) => IsDirty(last, l)
  <2>1. CASE news = {}
    BY <1>6, <2>1
  <2>2. CASE news # {}
    <3>1. wm_windows[n] \in Win
      BY <1>2, <1>4, <2>2
    <3>2. last = wm_mark_dirty_window(first, wm_windows[n])
      BY <2>2
    <3> HIDE DEF last
    <3> QED BY <1>3, <1>6, <3>1, <3>2, MarkWindow
  <2> QED BY <2>1, <2>2
<1> HIDE DEF last
<1> QED BY <1>1, <1>5, <1>6, <1>7 DEF olds, news

LEMMA FocusStep ==
  ASSUME WmInv, NEW id, wm_focus(id)
  PROVE  WmInv' /\ (id # wm_focus_id => Marks)
<1>1. PICK i \in wm_find(id) : wm_set_focus_internal([wm_windows EXCEPT ![i].z = wm_next_z], id)
  BY Zenon DEF wm_focus
<1>2. i \in Open /\ wm_windows[i].id = id
  BY DEF wm_find
<1>3. Front(i)
  BY <1>1, <1>2 DEF Front, wm_focus, wm_set_focus_internal
<1>4. dirty' = IF wm_focus_id = id THEN dirty ELSE FocusDirty(dirty, id)
  BY <1>1 DEF wm_set_focus_internal
<1>5. dirty' \in Clip \cup {<<>>}
  BY <1>4, FocusMarks DEF WmInv, WmTypes
<1>6. WmInv' /\ \A j \in Slot : j # i => SameFace(wm_windows'[j], wm_windows[j])
  BY <1>2, <1>3, <1>5, FrontStep
<1>7. ASSUME id # wm_focus_id PROVE Marks
  <2>1. dirty' = FocusDirty(dirty, id)
    BY <1>4, <1>7
  <2> SUFFICES ASSUME NEW l \in Screen, ~IsDirty(dirty', l) PROVE Drawn(l)' = Drawn(l)
    BY <2>1, FocusMarks DEF Marks
  <2>2. \A j \in wm_find(wm_focus_id) \cup wm_find(id) : ~Shown(wm_windows[j], l)
    BY <2>1, FocusMarks
  <2>3. WinTypes' /\ OrderIsStrict' /\ wm_cursor_y' = wm_cursor_y /\ wm_focus_id' = id
    BY <1>2, <1>3, <1>6 DEF WmInv, WmTypes, Front
  <2>4. SameFace(wm_windows'[i], wm_windows[i]) \/ ~Shown(wm_windows'[i], l)
    <3>1. wm_windows'[i].y = wm_windows[i].y /\ wm_windows'[i].h = wm_windows[i].h
      <4> DEFINE V == [wm_windows EXCEPT ![i].z = wm_next_z]
      <4>1. wm_windows \in [Slot -> Win] /\ i \in Slot /\ wm_next_z \in Nat
            /\ \A j \in Slot : Len(wm_windows[j].ev_ring) < WM_EVENT_RING_SIZE
        BY <1>2 DEF WmInv, WmTypes, WinTypes, Open
      <4>2. V[i] = [wm_windows[i] EXCEPT !.z = wm_next_z] /\ \A j \in Slot : j # i => V[j] = wm_windows[j]
        BY <4>1
      <4>3. /\ wm_windows[i] \in Win /\ V[i] \in Win /\ V[i].y = wm_windows[i].y /\ V[i].h = wm_windows[i].h
            /\ V[i].ev_ring = wm_windows[i].ev_ring
        BY <4>1, <4>2, Zenon DEF Win
      <4>4. V \in [Slot -> Win] /\ \A j \in Slot : Len(V[j].ev_ring) < WM_EVENT_RING_SIZE
        BY <4>1, <4>2, <4>3
      <4>5. wm_windows' = FocusEvents(V, id)
        BY <1>1, <1>7 DEF wm_set_focus_internal
      <4> HIDE DEF V
      <4>6. SameFace(wm_windows'[i], V[i])
        BY <4>1, <4>4, <4>5, FocusMoves
      <4> QED BY <4>3, <4>6 DEF SameFace
    <3> QED BY <2>2, <3>1 DEF Shown
  <2>5. ASSUME NEW j \in Slot, j \in CoverOf(wm_windows, l) \/ j \in CoverOf(wm_windows', l)
        PROVE  /\ SameFace(wm_windows'[j], wm_windows[j])
               /\ wm_windows[j].id = wm_focus_id' <=> wm_windows[j].id = wm_focus_id
    <3>1. SameFace(wm_windows'[j], wm_windows[j])
      BY <1>6, <2>2, <2>4, <2>5 DEF CoverOf
    <3>2. j \in Open /\ Shown(wm_windows[j], l)
      BY <2>5, <3>1 DEF CoverOf, OpenOf, Open, SameFace, Shown
    <3>3. wm_windows[j].id # id /\ wm_windows[j].id # wm_focus_id
      BY <2>2, <3>2 DEF wm_find
    <3> QED BY <2>3, <3>1, <3>3
  <2> QED BY <2>3, <2>5, SameLine
<1> QED BY <1>6, <1>7

LEMMA CursorStep ==
  ASSUME WmInv, NEW y \in Int, wm_cursor_move(y)
  PROVE  WmInv' /\ Marks
<1>1. /\ dirty' = Full /\ wm_cursor_y' = y
      /\ UNCHANGED <<wm_windows, wm_next_id, wm_next_z, wm_focus_id, wm_gpu_ready, screen, pages, told>>
  BY DEF wm_cursor_move
<1>2. WinTypes' /\ WmIds' /\ OrderIsStrict' /\ FocusIsKnown' /\ IsFiniteSet(ImagePage') /\ ImagePagesAreOwned'
  BY <1>1, WindowsKept
<1>3. WmTypes'
  BY <1>1, <1>2, FullMarks DEF WmInv, WmTypes
<1> QED BY <1>1, <1>2, <1>3, FullMarks DEF WmInv, Marks

LEMMA MouseStep ==
  ASSUME WmInv, wm_poll_mouse_input
  PROVE  WmInv' /\ Marks
<1>1. CASE wm_cursor_move(wm_cursor_y)
  <2>1. wm_cursor_y \in Int
    BY DEF WmInv, WmTypes
  <2> QED BY <1>1, <2>1, CursorStep
<1>2. ASSUME NEW i \in wm_top_at(wm_cursor_y), Front(i), dirty' = Full PROVE WmInv' /\ Marks
  <2>1. Covering(wm_cursor_y) = CoverOf(wm_windows, wm_cursor_y)
    BY Views DEF Covering, CoverOf, Shown
  <2>2. Covering(wm_cursor_y) # {} /\ i = TopOf(wm_windows, Covering(wm_cursor_y))
    BY <1>2 DEF wm_top_at, Top, TopOf
  <2>3. CoverOf(wm_windows, wm_cursor_y) \in SUBSET Slot /\ wm_windows \in [Slot -> Win]
    BY DEF CoverOf, OpenOf, WmInv, WmTypes, WinTypes
  <2>4. IsTop(wm_windows, CoverOf(wm_windows, wm_cursor_y), i)
    BY <2>1, <2>2, <2>3, TopExists
  <2>5. i \in Open
    BY <2>4, Views DEF IsTop, CoverOf
  <2> QED BY <1>2, <2>5, FrontStep, FullMarks DEF Marks
<1>3. CASE \E i \in wm_top_at(wm_cursor_y) : Front(i) /\ dirty' = Full
  BY <1>2, <1>3
<1> QED BY <1>1, <1>3, Zenon DEF wm_poll_mouse_input, Front


----------------------------------------------------------------------------
(* Repacking: places 1, 2, ... in the old order.                           *)
Rank(W, i) == Cardinality({j \in OpenOf(W) : W[j].z <= W[i].z})

LEMMA Ranks ==
  ASSUME NEW W \in [Slot -> Win], Strict(W)
  PROVE  /\ Cardinality(OpenOf(W)) \in Nat
         /\ \A i \in OpenOf(W) : Rank(W, i) \in Nat /\ Rank(W, i) <= Cardinality(OpenOf(W))
         /\ \A i, j \in OpenOf(W) : /\ W[i].z <= W[j].z => Rank(W, i) <= Rank(W, j)
                                    /\ Rank(W, i) = Rank(W, j) => i = j
<1> DEFINE O == OpenOf(W)
           Upto(i) == {j \in O : W[j].z <= W[i].z}
<1>1. O \in SUBSET Slot /\ \A i \in O : W[i].z \in Nat
  BY DEF OpenOf, Win
<1>2. IsFiniteSet(Slot)
  BY FS_Interval, Screens DEF Slot
<1>3. IsFiniteSet(O) /\ Cardinality(O) \in Nat
  <2> HIDE DEF O
  <2> QED BY <1>1, <1>2, FS_Subset, FS_CardinalityType
<1>4. \A i \in O : Upto(i) \in SUBSET O
  OBVIOUS
<1>5. \A i, j \in O : W[i].z <= W[j].z => Upto(i) \in SUBSET Upto(j)
  <2> HIDE DEF O
  <2> QED BY <1>1
<1>6. \A i, j \in O : W[i].z < W[j].z => Upto(i) # Upto(j)
  <2> SUFFICES ASSUME NEW i \in O, NEW j \in O, W[i].z < W[j].z PROVE Upto(i) # Upto(j)
    OBVIOUS
  <2> HIDE DEF O
  <2>1. j \in Upto(j) /\ j \notin Upto(i)
    BY <1>1
  <2> QED BY <2>1
<1>7. \A i \in O : Rank(W, i) = Cardinality(Upto(i))
  BY DEF Rank
<1> HIDE DEF Upto
<1>8. \A i \in O : IsFiniteSet(Upto(i)) /\ Cardinality(Upto(i)) \in Nat /\ Cardinality(Upto(i)) <= Cardinality(O)
  <2> HIDE DEF O
  <2> QED BY <1>3, <1>4, FS_Subset, FS_CardinalityType
<1>9. \A i, j \in O : W[i].z <= W[j].z =>
        /\ Cardinality(Upto(i)) <= Cardinality(Upto(j))
        /\ Cardinality(Upto(j)) = Cardinality(Upto(i)) => Upto(j) = Upto(i)
  <2> HIDE DEF O
  <2> QED BY <1>5, <1>8, FS_Subset
<1>10. ASSUME NEW i \in O, NEW j \in O, Cardinality(Upto(i)) = Cardinality(Upto(j)) PROVE i = j
  <2>1. W[i].z \in Nat /\ W[j].z \in Nat
    BY <1>1
  <2>2. W[i].z = W[j].z
    <3>1. CASE W[i].z < W[j].z
      BY <1>6, <1>9, <1>10, <2>1, <3>1
    <3>2. CASE W[j].z < W[i].z
      BY <1>6, <1>9, <1>10, <2>1, <3>2
    <3> QED BY <2>1, <3>1, <3>2
  <2> QED BY <2>2 DEF Strict
<1> HIDE DEF O
<1>11. \A i \in O : Rank(W, i) \in Nat /\ Rank(W, i) <= Cardinality(O)
  BY <1>7, <1>8
<1>12. \A i, j \in O : /\ W[i].z <= W[j].z => Rank(W, i) <= Rank(W, j)
                       /\ Rank(W, i) = Rank(W, j) => i = j
  BY <1>7, <1>9, <1>10
<1> QED BY <1>3, <1>11, <1>12 DEF O

LEMMA RenderStep ==
  ASSUME WmInv, wm_render
  PROVE  WmInv' /\ \A l \in Screen : Drawn(l)' = Drawn(l)
<1> DEFINE W == wm_windows
           X == wm_windows'
<1>1. WmTypes /\ WmIds /\ W \in [Slot -> Win] /\ Strict(W)
      /\ \A j \in Slot : Len(W[j].ev_ring) < WM_EVENT_RING_SIZE
  BY Views DEF WmInv, WmTypes, WinTypes, OrderIsStrict, Strict
<1>2. /\ UNCHANGED <<wm_next_id, wm_focus_id, wm_cursor_y, wm_gpu_ready, pages, told>>
      /\ wm_next_z' = Cardinality(Open) + 1
      /\ X = [i \in Slot |-> IF i \in Open THEN [W[i] EXCEPT !.z = Rank(W, i)] ELSE W[i]]
  BY Views DEF wm_render, wm_repack_z, RepackedNext, Rank
<1>3. /\ Cardinality(Open) \in Nat
      /\ \A i \in Open : Rank(W, i) \in Nat /\ Rank(W, i) <= Cardinality(Open)
      /\ \A i, j \in Open : /\ W[i].z <= W[j].z => Rank(W, i) <= Rank(W, j)
                            /\ Rank(W, i) = Rank(W, j) => i = j
  <2>1. Open = OpenOf(W)
    BY Views
  <2> HIDE DEF W
  <2> QED BY <1>1, <2>1, Ranks, Zenon
<1>4. \A i \in Slot :
        /\ X[i] \in Win /\ X[i].used = W[i].used /\ X[i].id = W[i].id /\ X[i].y = W[i].y /\ X[i].h = W[i].h
        /\ X[i].image = W[i].image /\ X[i].image_pages = W[i].image_pages /\ X[i].ev_ring = W[i].ev_ring
        /\ X[i].ev_overflow_latched = W[i].ev_overflow_latched
        /\ X[i].z = IF i \in Open THEN Rank(W, i) ELSE W[i].z
  <2> SUFFICES ASSUME NEW i \in Slot
               PROVE  /\ X[i] \in Win /\ X[i].used = W[i].used /\ X[i].id = W[i].id /\ X[i].y = W[i].y /\ X[i].h = W[i].h
                      /\ X[i].image = W[i].image /\ X[i].image_pages = W[i].image_pages /\ X[i].ev_ring = W[i].ev_ring
                      /\ X[i].ev_overflow_latched = W[i].ev_overflow_latched
                      /\ X[i].z = IF i \in Open THEN Rank(W, i) ELSE W[i].z
    OBVIOUS
  <2>1. W[i] \in Win
    BY <1>1
  <2>2. CASE i \in Open
    <3>1. X[i] = [W[i] EXCEPT !.z = Rank(W, i)] /\ Rank(W, i) \in Nat
      BY <1>2, <1>3, <2>2
    <3> HIDE DEF X, W
    <3> QED BY <2>1, <2>2, <3>1 DEF Win
  <2>3. CASE i \notin Open
    <3>1. X[i] = W[i]
      BY <1>2, <2>3
    <3> QED BY <2>1, <2>3, <3>1
  <2> QED BY <2>2, <2>3
<1>5. X \in [Slot -> Win]
  BY <1>2, <1>4
<1>6. WinTypes'
  BY <1>1, <1>4, <1>5 DEF WinTypes
<1>7. Open' = Open /\ ImagePage' = ImagePage
  BY <1>4, PagesKept, Views, NextViews
<1>8. \A i \in Open : i \in Slot /\ X[i].z = Rank(W, i)
  BY <1>4 DEF Open
<1>9. OrderIsStrict'
  BY <1>2, <1>3, <1>7, <1>8 DEF OrderIsStrict
<1>10. WmIds'
  <2>1. \A j \in Open : X[j].id = W[j].id
    BY <1>4 DEF Open
  <2> QED BY <1>1, <1>2, <1>7, <2>1 DEF WmIds
<1>11. FocusIsKnown'
  <2>1. Known(W, told, wm_focus_id) /\ Open' = OpenOf(X) /\ Open = OpenOf(W)
    BY KnownViews, Views, NextViews DEF WmInv
  <2>2. ASSUME NEW j \in Open, ~X[j].ev_overflow_latched
        PROVE  LastOf(X[j].ev_ring, told[j]) = "FOCUS_IN" <=> X[j].id = wm_focus_id
    <3>1. ~W[j].ev_overflow_latched /\ X[j].id = W[j].id /\ X[j].ev_ring = W[j].ev_ring
      BY <1>4, <1>8, <2>2
    <3>2. LastOf(W[j].ev_ring, told[j]) = "FOCUS_IN" <=> W[j].id = wm_focus_id
      BY <2>1, <3>1 DEF Known
    <3> QED BY <3>1, <3>2
  <2>3. Known(X, told, wm_focus_id)
    BY <1>7, <2>1, <2>2 DEF Known
  <2> QED BY <1>2, <2>3, KnownViews
<1>12. WmTypes'
  <2>1. dirty' \in Clip \cup {<<>>} /\ DOMAIN screen' = Screen
    BY <1>1 DEF wm_render, wm_render_gpu, WmTypes
  <2>2. wm_next_z' \in Nat
    BY <1>2, <1>3
  <2> QED BY <1>1, <1>2, <1>6, <2>1, <2>2 DEF WmTypes
<1>13. IsFiniteSet(ImagePage') /\ ImagePagesAreOwned'
  BY <1>2, <1>7 DEF WmInv, ImagePagesAreOwned
<1>14. ASSUME NEW l \in Screen PROVE Drawn(l)' = Drawn(l)
  <2>1. Strict(X)
    BY <1>9, NextViews DEF OrderIsStrict, Strict
  <2>2. CoverOf(W, l) \subseteq Open /\ Open \subseteq Slot
    BY Views DEF CoverOf, OpenOf, Open
  <2>3. CoverOf(X, l) = CoverOf(W, l)
    <3>1. OpenOf(X) = OpenOf(W)
      BY <1>7, Views, NextViews
    <3>2. \A i \in OpenOf(W) : Shown(X[i], l) <=> Shown(W[i], l)
      BY <1>4 DEF OpenOf, Shown
    <3> HIDE DEF X, W
    <3> QED BY <3>1, <3>2 DEF CoverOf
  <2>4. \A i \in CoverOf(W, l) : X[i].id = W[i].id /\ X[i].image = W[i].image
    BY <1>4, <2>2
  <2>5. \A i, j \in CoverOf(W, l) : W[i].z <= W[j].z => X[i].z <= X[j].z
    BY <1>3, <1>8, <2>2
  <2>6. DrawnOf(X, wm_focus_id, wm_cursor_y, l) = DrawnOf(W, wm_focus_id, wm_cursor_y, l)
    <3> HIDE DEF X, W
    <3> QED BY <1>1, <1>5, <2>1, <2>3, <2>4, <2>5, SameDrawn
  <2> QED BY <1>2, <2>6, Views, NextViews
<1> QED BY <1>9, <1>10, <1>11, <1>12, <1>13, <1>14 DEF WmInv

----------------------------------------------------------------------------
LEMMA WmInit ==
  ASSUME wm_init
  PROVE  WmInv
<1>1. NoWindow \in Win /\ ~NoWindow.used /\ NoWindow.ev_ring = <<>>
  <2>1. 0 \in 0 .. MaxId /\ <<>> \in Seq(Event)
    BY Screens
  <2> QED BY <2>1 DEF NoWindow, Win, NoImage
<1>2. wm_windows = [i \in Slot |-> NoWindow]
  BY DEF wm_init
<1>3. wm_windows \in [Slot -> Win] /\ \A i \in Slot : wm_windows[i] = NoWindow
  BY <1>1, <1>2
<1>4. WinTypes
  <2>1. Len(<<>>) < WM_EVENT_RING_SIZE
    BY Screens
  <2> QED BY <1>1, <1>3, <2>1 DEF WinTypes
<1>5. Open = {}
  BY <1>1, <1>3 DEF Open
<1>6. WmTypes
  <2>1. wm_gpu_ready \in BOOLEAN /\ wm_cursor_y = wm_usable_h \div 2
    BY DEF wm_init
  <2>2. wm_cursor_y \in Int
    BY <2>1, UsableType
  <2>3. dirty \in Clip
    BY FullMarks DEF wm_init
  <2>4. told \in [Slot -> Event] /\ DOMAIN screen = Screen
    BY DEF wm_init, Event
  <2>5. /\ wm_next_id \in 1 .. MaxId + 1 /\ wm_next_z \in Nat /\ wm_focus_id \in 0 .. MaxId
        /\ wm_focus_id < wm_next_id /\ pages \in Nat
    BY Screens DEF wm_init
  <2> QED BY <1>4, <2>1, <2>2, <2>3, <2>4, <2>5 DEF WmTypes
<1>7. WmIds /\ OrderIsStrict /\ FocusIsKnown
  BY <1>5 DEF WmIds, OrderIsStrict, FocusIsKnown
<1>8. ImagePage = {}
  BY <1>5 DEF ImagePage
<1>9. IsFiniteSet(ImagePage) /\ ImagePagesAreOwned
  BY <1>8, FS_EmptySet DEF ImagePagesAreOwned, wm_init
<1> QED BY <1>6, <1>7, <1>9, Zenon DEF WmInv

(* Every call keeps the invariant and, apart from the two exceptions of    *)
(* ChangesAreMarked and from wm_render, marks the lines it changes.        *)
LEMMA WmStep ==
  ASSUME WmInv, WmNext
  PROVE  WmInv' /\ (Marks \/ Unmarked \/ wm_render)
<1>1. ASSUME NEW h \in Heights, wm_create(h) PROVE WmInv' /\ Marks
  BY <1>1, CreateStep
<1>2. ASSUME NEW id \in 1 .. MaxId,
             (\E y \in Lines : wm_move(id, y)) \/ (\E h \in Heights : wm_resize(id, h))
      PROVE  WmInv' /\ Marks
  BY <1>2, MoveStep
<1>3. ASSUME NEW id \in 1 .. MaxId, wm_focus(id) PROVE WmInv' /\ (Marks \/ Unmarked)
  <2>1. WmInv' /\ (id # wm_focus_id => Marks)
    BY <1>3, FocusStep
  <2>2. id = wm_focus_id => wm_focus(wm_focus_id)
    BY <1>3
  <2> QED BY <2>1, <2>2 DEF Unmarked
<1>4. ASSUME NEW id \in 1 .. MaxId, wm_close(id) PROVE WmInv' /\ Marks
  BY <1>4, CloseStep
<1>5. ASSUME NEW id \in 1 .. MaxId, wm_set_text(id) PROVE WmInv' /\ Marks
  BY <1>5, TextStep
<1>6. ASSUME NEW id \in 1 .. MaxId, NEW image \in Image \cup {NoImage}, wm_set_image(id, image)
      PROVE  WmInv' /\ (Marks \/ Unmarked)
  <2>1. WmInv' /\ (image # NoImage => Marks)
    BY <1>6, ImageStep
  <2>2. image = NoImage => Unmarked
    BY <1>6 DEF Unmarked
  <2> QED BY <2>1, <2>2
<1>7. ASSUME NEW id \in 1 .. MaxId, wm_poll_event(id) PROVE WmInv' /\ Marks
  BY <1>7, PollStep
<1>8. CASE wm_render
  BY <1>8, RenderStep
<1>9. ASSUME NEW y \in Lines, wm_cursor_move(y) PROVE WmInv' /\ Marks
  BY <1>9, CursorStep, Screens
<1>10. CASE wm_poll_mouse_input
  BY <1>10, MouseStep
<1> QED BY <1>1, <1>2, <1>3, <1>4, <1>5, <1>6, <1>7, <1>8, <1>9, <1>10 DEF WmNext

LEMMA WmKeeps ==
  ASSUME WmInv, [WmNext]_wm_vars
  PROVE  WmInv'
<1>1. CASE WmNext
  BY <1>1, WmStep
<1>2. CASE UNCHANGED wm_vars
  <2>1. UNCHANGED <<wm_windows, wm_next_id, wm_next_z, wm_focus_id, wm_cursor_y, wm_gpu_ready, dirty, screen, pages, told>>
    BY <1>2 DEF wm_vars
  <2>2. WinTypes' /\ WmIds' /\ OrderIsStrict' /\ FocusIsKnown' /\ IsFiniteSet(ImagePage') /\ ImagePagesAreOwned'
    BY <2>1, WindowsKept
  <2> QED BY <2>1, <2>2 DEF WmInv, WmTypes
<1> QED BY <1>1, <1>2

(* The inductive invariant of the window manager holds throughout.         *)
THEOREM WmInvariance == WmSpec => []WmInv
<1>1. wm_init => WmInv
  BY WmInit
<1>2. WmInv /\ [WmNext]_wm_vars => WmInv'
  BY WmKeeps
<1> QED BY <1>1, <1>2, PTL DEF WmSpec

(* Every variable of the window manager keeps its type: the dirty          *)
(* rectangle stays on the screen and no event ring holds more than         *)
(* WM_EVENT_RING_SIZE - 1 events.                                          *)
THEOREM WmTypeCorrect == WmSpec => []WmTypeOK
<1>1. WmInv => WmTypeOK
  BY DEF WmInv, WmTypes, WinTypes, Win, WmTypeOK, Clip
<1> QED BY <1>1, WmInvariance, PTL

(* No two windows have one place in the order, and the next window comes   *)
(* on top, whatever wm_create, wm_focus, wm_close and wm_repack_z did.     *)
THEOREM OrderStaysStrict == WmSpec => []OrderIsStrict
<1>1. WmInv => OrderIsStrict
  BY DEF WmInv
<1> QED BY <1>1, WmInvariance, PTL

(* The last focus event that wm_queue_event put in a ring that never       *)
(* overflowed says whether the window has the focus.                       *)
THEOREM FocusStaysKnown == WmSpec => []FocusIsKnown
<1>1. WmInv => FocusIsKnown
  BY DEF WmInv
<1> QED BY <1>1, WmInvariance, PTL

(* wm_set_image and wm_close give every image buffer back exactly once.    *)
THEOREM ImagePagesStayOwned == WmSpec => []ImagePagesAreOwned
<1>1. WmInv => ImagePagesAreOwned
  BY DEF WmInv
<1> QED BY <1>1, WmInvariance, PTL

(* Every call but the two exceptions marks the lines whose picture it      *)
(* changes, so wm_render_gpu may clip to the dirty rectangle.              *)
THEOREM EveryChangeIsMarked == WmSpec => ChangesAreMarked
<1>1. ASSUME WmInv, WmNext, ScreenIsCurrent, ~Unmarked PROVE ScreenIsCurrent'
  <2>1. Marks \/ wm_render
    BY <1>1, WmStep
  <2>2. CASE wm_render
    <3> SUFFICES ASSUME wm_gpu_ready', NEW l \in Screen PROVE IsDirty(dirty', l) \/ screen'[l] = Drawn(l)'
      BY DEF ScreenIsCurrent
    <3>1. Drawn(l)' = Drawn(l) /\ wm_gpu_ready
      BY <1>1, <2>2, RenderStep, Zenon DEF wm_render
    <3>2. IsDirty(dirty, l) \/ screen[l] = Drawn(l)
      BY <1>1, <3>1 DEF ScreenIsCurrent
    <3>3. CASE dirty # <<>>
      <4>1. screen' = [k \in Screen |-> IF IsDirty(dirty, k) THEN Drawn(k) ELSE screen[k]]
        BY <2>2, <3>1, <3>3 DEF wm_render, wm_render_gpu
      <4> QED BY <3>1, <3>2, <4>1
    <3>4. CASE dirty = <<>>
      <4>1. screen' = screen /\ dirty' = dirty
        BY <2>2, <3>4 DEF wm_render, wm_render_gpu
      <4> QED BY <3>1, <3>2, <3>4, <4>1 DEF IsDirty
    <3> QED BY <3>3, <3>4
  <2>3. CASE Marks /\ ~wm_render
    <3>1. screen' = screen /\ wm_gpu_ready' = wm_gpu_ready
      BY <1>1, <2>3, Zenon DEF WmNext, wm_create, wm_move, wm_resize, Reshape, wm_focus, wm_close, wm_set_text,
         wm_set_image, wm_poll_event, wm_cursor_move, wm_poll_mouse_input
    <3> QED BY <1>1, <2>3, <3>1 DEF Marks, ScreenIsCurrent
  <2> QED BY <2>1, <2>2, <2>3
<1>2. WmInv /\ [WmNext]_wm_vars => [ScreenIsCurrent => ScreenIsCurrent' \/ Unmarked]_wm_vars
  BY <1>1
<1> QED BY <1>2, WmInvariance, PTL DEF WmSpec, ChangesAreMarked
=============================================================================
