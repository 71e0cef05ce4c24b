------------------------------- MODULE MCWm -------------------------------
(* A small screen for model checking.  The view leaves out what no later   *)
(* step and no property reads: lines that will be redrawn before they are  *)
(* compared, the screen and the dirty rectangle where there is no GPU, all *)
(* of a window's events but their number and the last, and of the windows' *)
(* places all but their order.                                             *)
EXTENDS Wm

EventView(i) ==
  LET win == wm_windows[i]
  IN  <<Len(win.ev_ring), IF win.ev_overflow_latched THEN "OVERFLOW" ELSE LastFocusEvent(i)>>

Place(z) == Cardinality({i \in Open : wm_windows[i].z < z})

View ==
  <<[i \in Slot |-> [wm_windows[i] EXCEPT !.ev_ring = <<>>, !.z = Place(@)]],
    [i \in Slot |-> EventView(i)],
    Place(wm_next_z), wm_next_id, wm_focus_id, wm_cursor_y, wm_gpu_ready, pages,
    IF wm_gpu_ready
    THEN <<dirty, [l \in Screen |-> IF IsDirty(dirty, l) THEN "dirty" ELSE screen[l]]>>
    ELSE <<>>>>
=============================================================================
