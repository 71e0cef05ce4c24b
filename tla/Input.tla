-------------------------------- MODULE Input --------------------------------
(***************************************************************************)
(* A key on its way to the shell's line: the input devices and their       *)
(* interrupt handler (drivers/virtio/virtio_input.c), the kernel event     *)
(* queue, and u_getchar and the line editor of the shell                   *)
(* (kernel/apps/user_init.c).                                              *)
(*                                                                         *)
(* The shell runs with interrupts on: the handler may start between any    *)
(* two of its steps, and the devices run beside both.                      *)
(***************************************************************************)
EXTENDS Kevent

CONSTANTS
  vi_dev_count,    \* the devices; device 0 is the keyboard
  VI_QNUM,         \* event buffers of a device
  INPUT_Q_SIZE,    \* size of g_input_q; one entry is kept free
  PollMax,         \* events u_getchar takes in one call
  SHELL_MAX_LINE,
  KeyEvent,        \* what the keyboard may send
  Console,         \* what may be typed on the serial console
  MaxTyped, MaxMoves \* bounds: events of the keyboard and of the others

VARIABLES
  vi_avail,        \* how many buffers the device may fill
  vi_used,         \* the events in the buffers it has filled
  isr,             \* the device's interrupt is asserted
  vi_rr_next, hpc, \* the handler: where it looks first, and what it does next
  g_input_q, g_input_shift,
  spc,             \* the shell: events u_getchar has taken, or Done
  line,            \* g_line
  typed, moves,    \* history: what the keyboard sent; how much the others sent
  read,            \* history: the characters u_getchar got from the keyboard
  lost             \* history: a queue overflowed

handlerVars == <<vi_rr_next, hpc>>
shellVars == <<g_input_q, g_input_shift, spc, line, read>>
deviceVars == <<vi_avail, vi_used, isr>>
vars == <<deviceVars, handlerVars, keventVars, shellVars, typed, moves, lost>>

Dev  == 0 .. vi_dev_count - 1
Move == [type |-> "REL", code |-> "X", value |-> 1]

Off   == 0 - 1          \* hpc: no handler runs
Fetch == vi_dev_count   \* hpc: devices are acknowledged, events are fetched
Done  == PollMax + 1    \* spc: u_getchar is past its loop
Start == 0 - 1          \* spc: u_getchar is called

ASSUME InputAssumption ==
  /\ vi_dev_count \in Nat \ {0} /\ VI_QNUM \in Nat \ {0}
  /\ {PollMax, INPUT_Q_SIZE, SHELL_MAX_LINE} \subseteq Nat \ {0}
  /\ MaxTyped \in Nat /\ MaxMoves \in Nat /\ MaxTyped + MaxMoves <= MaxSeq
  /\ Payload = KeyEvent \cup {Move}

----------------------------------------------------------------------------
(* The devices.  virtio_input_init has given each all its buffers.         *)
Init ==
  /\ vi_avail = [d \in Dev |-> VI_QNUM]
  /\ vi_used = [d \in Dev |-> <<>>]
  /\ isr = [d \in Dev |-> FALSE]
  /\ vi_rr_next = 0
  /\ hpc = Off
  /\ kevent_init
  /\ g_input_q = <<>> /\ g_input_shift = 0
  /\ spc = Start
  /\ line = <<>>
  /\ typed = <<>> /\ moves = 0 /\ read = <<>> /\ lost = FALSE

(* Device d fills its next buffer and asserts its interrupt.               *)
DeviceFills(d, ev) ==
  /\ vi_avail[d] > 0
  /\ vi_avail' = [vi_avail EXCEPT ![d] = @ - 1]
  /\ vi_used' = [vi_used EXCEPT ![d] = Append(@, ev)]
  /\ isr' = [isr EXCEPT ![d] = TRUE]
  /\ UNCHANGED <<handlerVars, keventVars, shellVars, lost>>

KeyTyped(ev) ==
  /\ Len(typed) < MaxTyped
  /\ DeviceFills(0, ev)
  /\ typed' = Append(typed, ev)
  /\ UNCHANGED moves

MouseMoved(d) ==
  /\ moves < MaxMoves
  /\ DeviceFills(d, Move)
  /\ moves' = moves + 1
  /\ UNCHANGED typed

----------------------------------------------------------------------------
(* The interrupt handler: acknowledge every device, then fetch until no    *)
(* device has an event.  (Mutant: only the keyboard's interrupt is taken.)  *)
handle_external_interrupt_keyboard ==
  /\ hpc = Off
  /\ isr[0]
  /\ hpc' = 0
  /\ UNCHANGED <<deviceVars, vi_rr_next, keventVars, shellVars, typed, moves, lost>>

handle_external_interrupt ==
  /\ hpc = Off
  /\ \E d \in Dev : isr[d]
  /\ hpc' = 0
  /\ UNCHANGED <<deviceVars, vi_rr_next, keventVars, shellVars, typed, moves, lost>>

irq_ack ==
  /\ hpc \in Dev
  /\ isr' = [isr EXCEPT ![hpc] = FALSE]
  /\ hpc' = hpc + 1
  /\ UNCHANGED <<vi_avail, vi_used, vi_rr_next, keventVars, shellVars, typed, moves, lost>>

(* The device whose turn it is, of those with an event.                    *)
Turn(d) == (d - vi_rr_next) % vi_dev_count

vi_fetch_one_event(d) ==
  /\ vi_used[d] # <<>>
  /\ \A e \in Dev : vi_used[e] # <<>> => Turn(d) <= Turn(e)
  /\ vi_used' = [vi_used EXCEPT ![d] = Tail(@)]
  /\ vi_avail' = [vi_avail EXCEPT ![d] = @ + 1]
  /\ vi_rr_next' = (d + 1) % vi_dev_count
  /\ UNCHANGED isr

(* Mutant: one interrupt, one event.                                       *)
irq_push_once(d) ==
  /\ hpc = Fetch
  /\ vi_fetch_one_event(d)
  /\ kevent_push(Head(vi_used[d]))
  /\ lost' = (lost \/ Count = KEVENT_Q_CAP - 1)
  /\ hpc' = Off
  /\ UNCHANGED <<shellVars, typed, moves>>

irq_push(d) ==
  /\ hpc = Fetch
  /\ vi_fetch_one_event(d)
  /\ kevent_push(Head(vi_used[d]))
  /\ lost' = (lost \/ Count = KEVENT_Q_CAP - 1)
  /\ UNCHANGED <<hpc, shellVars, typed, moves>>

irq_return ==
  /\ hpc = Fetch
  /\ \A d \in Dev : vi_used[d] = <<>>
  /\ hpc' = Off
  /\ UNCHANGED <<deviceVars, vi_rr_next, keventVars, shellVars, typed, moves, lost>>

virtio_input_handle_irq == irq_ack \/ (\E d \in Dev : irq_push(d)) \/ irq_return

----------------------------------------------------------------------------
(* The shell.                                                              *)

(* The characters of a key: one key for all that have two characters.      *)
map_key_ascii(code, shift) ==
  CASE code = "KEY_A"         -> <<IF shift = 1 THEN "A" ELSE "a">>
    [] code = "KEY_ENTER"     -> <<"LF">>
    [] code = "KEY_BACKSPACE" -> <<"BS">>
    [] OTHER                  -> <<>>

IsShift(ev) == ev.type = "KEY" /\ ev.code = "KEY_SHIFT"

(* Mutant: the release of shift is ignored, like that of other keys.       *)
ShiftAfter_sticky(ev, shift) == IF IsShift(ev) /\ ev.value # 0 THEN 1 ELSE shift

ShiftAfter(ev, shift) == IF IsShift(ev) THEN (IF ev.value # 0 THEN 1 ELSE 0) ELSE shift

KeyChars(ev, shift) ==
  IF ev.type # "KEY" \/ IsShift(ev) \/ ev.value = 0 THEN <<>>
  ELSE IF ev.code = "KEY_UP" THEN <<"ESC", "[", "A">>
  ELSE map_key_ascii(ev.code, shift)

Front(s) == SubSeq(s, 1, Len(s) - 1)

(* Mutant: a full queue takes the new character at its front.              *)
input_q_push_front(q, ch) ==
  IF Len(q) < INPUT_Q_SIZE - 1 THEN Append(q, ch) ELSE <<ch>> \o Front(q)

input_q_push(q, ch) == IF Len(q) < INPUT_Q_SIZE - 1 THEN Append(q, ch) ELSE q

(* The characters of one key, pushed one after the other.                  *)
input_q_push_all(q, chars) ==
  LET after[k \in 0 .. Len(chars)] == IF k = 0 THEN q ELSE input_q_push(after[k - 1], chars[k])
  IN  after[Len(chars)]

(* The editor's loop for one character.  A command of the line is run to   *)
(* its end before the next character is read.                              *)
Edit(l, ch) ==
  CASE ch \in {"LF", "CR"} -> <<>>
    [] ch = "BS"  -> IF l = <<>> THEN l ELSE Front(l)
    [] ch = "ESC" -> l
    [] OTHER -> IF Len(l) + 1 < SHELL_MAX_LINE THEN Append(l, ch) ELSE l

(* input_q_pop returns a character, which u_getchar returns.               *)
input_q_pop ==
  /\ hpc = Off
  /\ spc \in {Start, Done} /\ g_input_q # <<>>
  /\ read' = Append(read, Head(g_input_q))
  /\ line' = Edit(line, Head(g_input_q))
  /\ g_input_q' = Tail(g_input_q)
  /\ spc' = Start
  /\ UNCHANGED <<deviceVars, handlerVars, keventVars, g_input_shift, typed, moves, lost>>

input_q_empty ==
  /\ hpc = Off
  /\ spc = Start /\ g_input_q = <<>>
  /\ spc' = 0
  /\ UNCHANGED <<deviceVars, handlerVars, keventVars, g_input_q, g_input_shift, line, read,
                 typed, moves, lost>>

(* One turn of the loop of u_getchar.                                      *)
u_getchar_event ==
  /\ hpc = Off
  /\ spc \in 0 .. PollMax - 1
  /\ kevent_pop /\ rc' = 1
  /\ LET ev == out'.payload
         chars == KeyChars(ev, g_input_shift)
     IN  /\ g_input_shift' = ShiftAfter(ev, g_input_shift)
         /\ g_input_q' = input_q_push_all(g_input_q, chars)
         /\ lost' = (lost \/ Len(g_input_q) + Len(chars) > INPUT_Q_SIZE - 1)
  /\ spc' = IF spc + 1 = PollMax THEN Done ELSE spc + 1
  /\ UNCHANGED <<deviceVars, handlerVars, line, read, typed, moves>>

u_getchar_no_event ==
  /\ hpc = Off
  /\ spc \in 0 .. PollMax - 1
  /\ kevent_pop /\ rc' = 0
  /\ spc' = Done
  /\ UNCHANGED <<deviceVars, handlerVars, g_input_q, g_input_shift, line, read, typed, moves, lost>>

(* Nothing from the keyboard: the serial console is asked.                 *)
u_getchar_console(ch) ==
  /\ hpc = Off
  /\ spc = Done /\ g_input_q = <<>>
  /\ line' = IF ch = None THEN line ELSE Edit(line, ch)
  /\ spc' = Start
  /\ UNCHANGED <<deviceVars, handlerVars, keventVars, g_input_q, g_input_shift, read, typed, moves, lost>>

user_init_entry ==
  \/ input_q_pop
  \/ input_q_empty
  \/ u_getchar_event
  \/ u_getchar_no_event
  \/ \E ch \in Console \cup {None} : u_getchar_console(ch)

Next ==
  \/ \E ev \in KeyEvent : KeyTyped(ev)
  \/ \E d \in Dev \ {0} : MouseMoved(d)
  \/ handle_external_interrupt
  \/ virtio_input_handle_irq
  \/ user_init_entry

(* An interrupt that is asserted is taken, the handler runs to its end,    *)
(* and the shell, which yields whenever it has nothing to do, gets the CPU *)
(* again.                                                                  *)
Fairness ==
  /\ WF_vars(handle_external_interrupt)
  /\ WF_vars(virtio_input_handle_irq)
  /\ WF_vars(user_init_entry)

Spec == Init /\ [][Next]_vars /\ Fairness

----------------------------------------------------------------------------
TypeOK ==
  /\ \A d \in Dev : vi_avail[d] \in Nat /\ vi_avail[d] + Len(vi_used[d]) = VI_QNUM
  /\ isr \in [Dev -> BOOLEAN] /\ vi_rr_next \in Dev /\ hpc \in Dev \cup {Fetch, Off}
  /\ KeventTypeOK /\ Len(g_input_q) < INPUT_Q_SIZE
  /\ g_input_shift \in {0, 1} /\ spc \in Start .. Done
  /\ Len(line) < SHELL_MAX_LINE

(* No event is forgotten in a device's ring: as long as one is there, the  *)
(* device's interrupt is asserted or the handler is on its way to fetch    *)
(* it.  The handler acknowledges before it looks, and looks until nothing  *)
(* is left.                                                                *)
NoForgottenEvent ==
  \A d \in Dev : vi_used[d] # <<>> => isr[d] \/ hpc # Off

(* What the keys of events mean to the shell, one after the other: shift   *)
(* holds from its press to its release.                                    *)
Key(m, ev) ==
  [shift |-> IF IsShift(ev) THEN (IF ev.value = 0 THEN 0 ELSE 1) ELSE m.shift,
   chars |-> m.chars \o KeyChars(ev, m.shift)]

After(shift, evs) ==
  LET after[k \in 0 .. Len(evs)] ==
        IF k = 0 THEN [shift |-> shift, chars |-> <<>>] ELSE Key(after[k - 1], evs[k])
  IN  after[Len(evs)]

Meaning(shift, evs) == After(shift, evs).chars

(* Unless a queue overflowed, every key is read once, in order, and with   *)
(* the shift key as it was when the key was pressed, wherever interrupts   *)
(* cut into u_getchar: what was read, what waits in the shell's queue, and *)
(* what the events still on their way mean is what was typed.              *)
OnTheWay == [i \in DOMAIN Held |-> Held[i].payload] \o vi_used[0]

KeysArriveInOrder ==
  ~lost => read \o g_input_q \o Meaning(g_input_shift, OnTheWay) = Meaning(0, typed)

(* After an overflow keys may be missing and shift may be wrong, but the   *)
(* characters that are read still come in the order they were typed, each  *)
(* at most once.                                                           *)
Unshifted(s) == [i \in DOMAIN s |-> IF s[i] = "A" THEN "a" ELSE s[i]]

IsSubsequence(s, t) ==
  LET Match(rest, ch) == IF rest # <<>> /\ Head(rest) = ch THEN Tail(rest) ELSE rest
      rest[k \in 0 .. Len(t)] == IF k = 0 THEN s ELSE Match(rest[k - 1], t[k])
  IN  rest[Len(t)] = <<>>

LossKeepsOrder == IsSubsequence(Unshifted(read), Unshifted(Meaning(0, typed)))

(* A burst of keys is dealt with: again and again nothing is left in the   *)
(* devices' rings, in the event queue and in the shell's queue.            *)
BurstIsConsumed ==
  []<>(Count = 0 /\ g_input_q = <<>> /\ \A d \in Dev : vi_used[d] = <<>>)
=============================================================================
