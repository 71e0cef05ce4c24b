--------------------------------- MODULE Wm ---------------------------------
(***************************************************************************)
(* The window manager (kernel/gui/wm.c): windows, their order and focus,   *)
(* the ring of events of each window, the dirty rectangle and what is on   *)
(* the screen.  Only the shell calls it, so a call is one step.            *)
(*                                                                         *)
(* Rectangles are intervals of lines: columns are treated like lines and   *)
(* have no taskbar.  The only events the code queues are those of focus.   *)
(***************************************************************************)
EXTENDS Integers, Sequences, FiniteSets

CONSTANTS
  WM_MAX_WINDOWS,
  WM_EVENT_RING_SIZE,
  WM_TASKBAR_PX,   \* lines of the taskbar
  Border,          \* lines around a window that are redrawn with it
  Height,          \* lines of the screen
  Lines,           \* where windows and the cursor are put
  Heights,         \* heights of windows
  Image,           \* images; image n takes n pages
  MaxId            \* bound: windows made

ASSUME WmAssumption ==
  /\ WM_MAX_WINDOWS \in Nat \ {0}
  /\ WM_EVENT_RING_SIZE \in Nat \ {0, 1}
  /\ WM_TASKBAR_PX \in Nat \ {0}
  /\ {Border, MaxId} \subseteq Nat
  /\ Height \in Nat \ {0, 1}
  /\ Lines \subseteq Int
  /\ Heights \subseteq Nat \ {0} /\ \A h \in Heights : h <= Height - WM_TASKBAR_PX
  /\ Image \subseteq Nat \ {0}

Slot   == 1 .. WM_MAX_WINDOWS
Screen == 0 .. Height - 1

NoImage == 0

VARIABLES
  wm_windows, wm_next_id, wm_next_z, wm_focus_id, wm_cursor_y,
  wm_gpu_ready,
  dirty,           \* the lines to redraw: <<>> or first and one past the last
  screen,          \* what each line shows
  pages,           \* pages the allocator has given out for images
  told             \* history: the last focus event each window has polled

wm_vars == <<wm_windows, wm_next_id, wm_next_z, wm_focus_id, wm_cursor_y,
             wm_gpu_ready, dirty, screen, pages, told>>

NoWindow == [used |-> FALSE, id |-> 0, y |-> 0, h |-> 0, z |-> 0, image |-> NoImage,
             image_pages |-> 0, ev_ring |-> <<>>, ev_overflow_latched |-> FALSE]

Open == {i \in Slot : wm_windows[i].used}

wm_find(id) == {i \in Open : wm_windows[i].id = id}

wm_usable_h == IF wm_gpu_ready
               THEN IF Height - WM_TASKBAR_PX > 1 THEN Height - WM_TASKBAR_PX ELSE 1
               ELSE Height - 1

----------------------------------------------------------------------------
(* The dirty rectangle: the smallest that holds all that was marked.       *)
Lowest(a, b)  == IF a < b THEN a ELSE b
Highest(a, b) == IF a > b THEN a ELSE b

Full == <<0, Height>>

wm_mark_dirty_rect(d, y, h) ==
  LET y0 == Highest(y, 0)
      y1 == Lowest(y + h, Height)
  IN  IF h <= 0 \/ y0 >= y1 THEN d
      ELSE IF d = <<>> THEN <<y0, y1>>
      ELSE <<Lowest(d[1], y0), Highest(d[2], y1)>>

wm_mark_dirty_window(d, w) == wm_mark_dirty_rect(d, w.y - Border, w.h + 2 * Border)

wm_mark_dirty_taskbar(d) == wm_mark_dirty_rect(d, wm_usable_h, Height - wm_usable_h)

IsDirty(d, l) == d # <<>> /\ d[1] <= l /\ l < d[2]

(* Mutant: only the new place of a window is redrawn.                      *)
Moved_new_only(d, old, new) == wm_mark_dirty_window(d, new)

Moved(d, old, new) == wm_mark_dirty_window(wm_mark_dirty_window(d, old), new)

----------------------------------------------------------------------------
(* Events.                                                                 *)

(* A full ring drops its oldest event for the overflow mark, once; from    *)
(* then on it drops the new event.                                         *)
wm_queue_event(w, type) ==
  IF Len(w.ev_ring) < WM_EVENT_RING_SIZE - 1 THEN [w EXCEPT !.ev_ring = Append(@, type)]
  ELSE IF w.ev_overflow_latched THEN w
  ELSE [w EXCEPT !.ev_overflow_latched = TRUE, !.ev_ring = Append(Tail(@), "OVERFLOW")]

(* Mutant: the window that loses the focus is not told.                    *)
FocusEvents_in_only(W, id) ==
  [i \in Slot |-> IF i \in wm_find(id) THEN wm_queue_event(W[i], "FOCUS_IN") ELSE W[i]]

FocusEvents(W, id) ==
  [i \in Slot |-> IF i \in wm_find(wm_focus_id) THEN wm_queue_event(W[i], "FOCUS_OUT")
                  ELSE IF i \in wm_find(id) THEN wm_queue_event(W[i], "FOCUS_IN")
                  ELSE W[i]]

FocusDirty(d, id) ==
  LET Mark(e, i) == wm_mark_dirty_window(e, wm_windows[i])
      olds == wm_find(wm_focus_id)
      news == wm_find(id)
      first == IF olds = {} THEN wm_mark_dirty_taskbar(d)
               ELSE Mark(wm_mark_dirty_taskbar(d), CHOOSE i \in olds : TRUE)
  IN  IF news = {} THEN first ELSE Mark(first, CHOOSE i \in news : TRUE)

(* From windows W, with id one of them.  All windows are visible and can   *)
(* have the focus.                                                         *)
wm_set_focus_internal(W, id) ==
  /\ wm_focus_id' = id
  /\ IF wm_focus_id = id THEN wm_windows' = W /\ UNCHANGED dirty
     ELSE wm_windows' = FocusEvents(W, id) /\ dirty' = FocusDirty(dirty, id)

----------------------------------------------------------------------------
(* wm_init, once, when the shell starts.                                   *)
wm_init ==
  /\ wm_windows = [i \in Slot |-> NoWindow]
  /\ wm_next_id = 1
  /\ wm_next_z = 1
  /\ wm_focus_id = 0
  /\ wm_gpu_ready \in BOOLEAN
  /\ wm_cursor_y = wm_usable_h \div 2
  /\ dirty = Full
  /\ screen = [l \in Screen |-> "garbage"]
  /\ pages = 0
  /\ told = [i \in Slot |-> "FOCUS_OUT"]

wm_create(h) ==
  /\ wm_next_id <= MaxId
  /\ \E i \in Slot \ Open :
       /\ \A j \in Slot \ Open : i <= j
       /\ LET win == [NoWindow EXCEPT !.used = TRUE, !.id = wm_next_id, !.h = h, !.z = wm_next_z,
                                      !.y = (wm_next_id * 2) % (wm_usable_h - h + 1)]
          IN  /\ wm_windows' = [wm_windows EXCEPT ![i] = win]
              /\ dirty' = wm_mark_dirty_taskbar(wm_mark_dirty_window(dirty, win))
       /\ told' = [told EXCEPT ![i] = "FOCUS_OUT"]
  /\ wm_next_id' = wm_next_id + 1
  /\ wm_next_z' = wm_next_z + 1
  /\ UNCHANGED <<wm_focus_id, wm_cursor_y, wm_gpu_ready, screen, pages>>

(* wm_move and wm_resize.                                                  *)
Reshape(i, win) ==
  /\ wm_windows' = [wm_windows EXCEPT ![i] = win]
  /\ dirty' = Moved(dirty, wm_windows[i], win)
  /\ UNCHANGED <<wm_next_id, wm_next_z, wm_focus_id, wm_cursor_y, wm_gpu_ready, screen, pages, told>>

wm_move(id, y) == \E i \in wm_find(id) : Reshape(i, [wm_windows[i] EXCEPT !.y = y])

wm_resize(id, h) == \E i \in wm_find(id) : Reshape(i, [wm_windows[i] EXCEPT !.h = h])

(* The window comes to the front; a window that has the focus already is   *)
(* not marked dirty.                                                       *)
wm_focus(id) ==
  /\ \E i \in wm_find(id) : wm_set_focus_internal([wm_windows EXCEPT ![i].z = wm_next_z], id)
  /\ wm_next_z' = wm_next_z + 1
  /\ UNCHANGED <<wm_next_id, wm_cursor_y, wm_gpu_ready, screen, pages, told>>

FocusAfterClose(id) == IF wm_focus_id = id THEN 0 ELSE wm_focus_id

wm_close(id) ==
  \E i \in wm_find(id) :
    /\ wm_windows' = [wm_windows EXCEPT ![i] = NoWindow]
    /\ pages' = pages - wm_windows[i].image_pages
    /\ wm_focus_id' = FocusAfterClose(id)
    /\ dirty' = wm_mark_dirty_taskbar(wm_mark_dirty_window(dirty, wm_windows[i]))
    /\ UNCHANGED <<wm_next_id, wm_next_z, wm_cursor_y, wm_gpu_ready, screen, told>>

(* The text is stored, but no renderer draws it.                           *)
wm_set_text(id) ==
  /\ \E i \in wm_find(id) : dirty' = wm_mark_dirty_window(dirty, wm_windows[i])
  /\ UNCHANGED <<wm_windows, wm_next_id, wm_next_z, wm_focus_id, wm_cursor_y, wm_gpu_ready,
                 screen, pages, told>>

(* Mutant: a buffer that is too small is replaced without being freed.     *)
ImagePages_not_freed(win, image) ==
  IF image = NoImage THEN pages - win.image_pages
  ELSE IF win.image_pages < image THEN pages + image
  ELSE pages

(* wm_window_free_image, and a new buffer when the old one is too small.   *)
ImagePages(win, image) ==
  IF image = NoImage THEN pages - win.image_pages
  ELSE IF win.image_pages < image THEN pages - win.image_pages + image
  ELSE pages

(* NoImage stands for a null pointer; the removed image is not marked.     *)
wm_set_image(id, image) ==
  \E i \in wm_find(id) :
    LET win == wm_windows[i]
    IN  /\ wm_windows' = [wm_windows EXCEPT ![i].image = image,
             ![i].image_pages = IF image = NoImage THEN 0 ELSE Highest(@, image)]
        /\ pages' = ImagePages(win, image)
        /\ dirty' = IF image = NoImage THEN dirty ELSE wm_mark_dirty_window(dirty, win)
        /\ UNCHANGED <<wm_next_id, wm_next_z, wm_focus_id, wm_cursor_y, wm_gpu_ready, screen, told>>

wm_poll_event(id) ==
  \E i \in wm_find(id) :
    /\ wm_windows[i].ev_ring # <<>>
    /\ wm_windows' = [wm_windows EXCEPT ![i].ev_ring = Tail(@)]
    /\ told' = [told EXCEPT ![i] = Head(wm_windows[i].ev_ring)]
    /\ UNCHANGED <<wm_next_id, wm_next_z, wm_focus_id, wm_cursor_y, wm_gpu_ready, dirty, screen, pages>>

----------------------------------------------------------------------------
(* Rendering.                                                              *)
Covering(l) == {i \in Open : wm_windows[i].y <= l /\ l < wm_windows[i].y + wm_windows[i].h}

Top(S) == CHOOSE i \in S : \A j \in S : wm_windows[j].z <= wm_windows[i].z

(* The last thing drawn on line l: cursor, top window, or desktop.         *)
Drawn(l) ==
  IF l = wm_cursor_y THEN "cursor"
  ELSE IF Covering(l) = {} THEN "desktop"
  ELSE LET win == wm_windows[Top(Covering(l))]
       IN  <<win.id, win.id = wm_focus_id, win.image>>

wm_render_gpu ==
  IF wm_gpu_ready /\ dirty # <<>>
  THEN /\ screen' = [l \in Screen |-> IF IsDirty(dirty, l) THEN Drawn(l) ELSE screen[l]]
       /\ dirty' = <<>>
  ELSE UNCHANGED <<screen, dirty>>

(* Mutant: the next window gets the place of the top one.                  *)
RepackedNext_n == Cardinality(Open)

RepackedNext == Cardinality(Open) + 1

(* A window's place is the number of windows up to it in the old order.    *)
wm_repack_z ==
  /\ wm_windows' = [i \in Slot |->
       IF i \in Open
       THEN [wm_windows[i] EXCEPT !.z = Cardinality({j \in Open : wm_windows[j].z <= wm_windows[i].z})]
       ELSE wm_windows[i]]
  /\ wm_next_z' = RepackedNext

wm_render ==
  /\ wm_repack_z
  /\ wm_render_gpu
  /\ UNCHANGED <<wm_next_id, wm_focus_id, wm_cursor_y, wm_gpu_ready, pages, told>>

(* wm_cursor_move, and wm_poll_mouse_input with a motion event.            *)
wm_cursor_move(y) ==
  /\ wm_cursor_y' = y
  /\ dirty' = Full
  /\ UNCHANGED <<wm_windows, wm_next_id, wm_next_z, wm_focus_id, wm_gpu_ready, screen, pages, told>>

(* wm_poll_mouse_input with a button event: a press raises and focuses the *)
(* window under the cursor; the full screen is marked at the end.          *)
wm_top_at(l) == IF Covering(l) = {} THEN {} ELSE {Top(Covering(l))}

wm_poll_mouse_input ==
  \/ \E i \in wm_top_at(wm_cursor_y) :
       /\ LET raised == [wm_windows EXCEPT ![i].z = wm_next_z]
              id == wm_windows[i].id
          IN  wm_windows' = IF wm_focus_id = id THEN raised ELSE FocusEvents(raised, id)
       /\ wm_focus_id' = wm_windows[i].id
       /\ wm_next_z' = wm_next_z + 1
       /\ dirty' = Full
       /\ UNCHANGED <<wm_next_id, wm_cursor_y, wm_gpu_ready, screen, pages, told>>
  \/ wm_cursor_move(wm_cursor_y)

WmNext ==
  \/ \E h \in Heights : wm_create(h)
  \/ \E id \in 1 .. MaxId :
       \/ \E y \in Lines : wm_move(id, y)
       \/ \E h \in Heights : wm_resize(id, h)
       \/ wm_focus(id)
       \/ wm_close(id)
       \/ wm_set_text(id)
       \/ \E image \in Image \cup {NoImage} : wm_set_image(id, image)
       \/ wm_poll_event(id)
  \/ wm_render
  \/ \E y \in Lines : wm_cursor_move(y)
  \/ wm_poll_mouse_input

WmSpec == wm_init /\ [][WmNext]_wm_vars

----------------------------------------------------------------------------
Event == {"FOCUS_IN", "FOCUS_OUT", "OVERFLOW"}

WmTypeOK ==
  /\ DOMAIN wm_windows = Slot
  /\ \A i \in Slot :
       LET w == wm_windows[i]
       IN  /\ w.used \in BOOLEAN /\ w.ev_overflow_latched \in BOOLEAN
           /\ w.id \in 0 .. MaxId /\ w.z \in Nat
           /\ w.y \in Int /\ w.h \in Heights \cup {0}
           /\ w.image \in Image \cup {NoImage} /\ w.image_pages \in Nat
           /\ w.ev_ring \in Seq(Event) /\ Len(w.ev_ring) < WM_EVENT_RING_SIZE
  /\ wm_next_id \in 1 .. MaxId + 1
  /\ wm_next_z \in Nat
  /\ wm_focus_id \in 0 .. MaxId
  /\ wm_cursor_y \in Int /\ wm_gpu_ready \in BOOLEAN
  /\ dirty = <<>> \/ (0 <= dirty[1] /\ dirty[1] < dirty[2] /\ dirty[2] <= Height)
  /\ DOMAIN screen = Screen
  /\ pages \in Nat
  /\ told \in [Slot -> Event]

(* The order is strict: whatever creates, raises, closes and repacks came  *)
(* before, no two windows have one place, and the next one comes on top.   *)
OrderIsStrict ==
  \A i, j \in Open :
    /\ wm_windows[i].z < wm_next_z
    /\ wm_windows[i].z = wm_windows[j].z => i = j

(* A program that follows its window's events knows whether it has the     *)
(* focus, as long as its ring never overflowed: the last event, polled or  *)
(* still in the ring, says so.                                             *)
LastFocusEvent(i) ==
  LET ring == wm_windows[i].ev_ring
  IN  IF ring = <<>> THEN told[i] ELSE ring[Len(ring)]

FocusIsKnown ==
  \A i \in Open : ~wm_windows[i].ev_overflow_latched =>
    (LastFocusEvent(i) = "FOCUS_IN" <=> wm_windows[i].id = wm_focus_id)

(* The pages of the images of all open windows.                            *)
ImagePage == UNION {{i} \X (1 .. wm_windows[i].image_pages) : i \in Open}

(* The pages that wm_set_image allocated are those of the open windows:    *)
(* replacing, removing and closing give each buffer back once.             *)
ImagePagesAreOwned == pages = Cardinality(ImagePage)

(* Outside the dirty rectangle the screen shows what would be drawn.       *)
ScreenIsCurrent == wm_gpu_ready => \A l \in Screen : IsDirty(dirty, l) \/ screen[l] = Drawn(l)

(* Every change marks the lines whose picture it changes, so that clipping *)
(* the next wm_render to the dirty rectangle loses nothing.  Two calls are *)
(* exceptions: wm_focus of the window that has the focus but is not on     *)
(* top, and wm_set_image with a null pointer.                              *)
Unmarked ==
  \/ wm_focus(wm_focus_id)
  \/ \E id \in 1 .. MaxId : wm_set_image(id, NoImage)

ChangesAreMarked == [][ScreenIsCurrent => ScreenIsCurrent' \/ Unmarked]_wm_vars
=============================================================================
