----------------------------- MODULE VirtioGpu -----------------------------
(***************************************************************************)
(* The GPU driver (drivers/virtio/virtio_gpu.c): one command at a time in  *)
(* descriptors 0 and 1, a busy wait, a sleep on the driver's wait queue,   *)
(* initialisation with its error paths, and the two ways to show a frame:  *)
(* the shell's wm_render and the system call gpu_flush.                    *)
(*                                                                         *)
(* The device runs beside the kernel.  The kernel is cooperative: a caller *)
(* keeps the CPU until it sleeps, and only then another one can enter      *)
(* vg_submit.  Interrupts come while a system call does not run.           *)
(***************************************************************************)
EXTENDS Integers, Sequences

CONSTANTS
  Shell,       \* the kernel process that initialises the driver and renders
  Users,       \* the user processes that call gpu_flush
  Sleeps,      \* how often a caller sleeps before it gives up (100)
  MaxDrawn,    \* frames the shell draws
  MaxPending,  \* completions still to come when a call starts
  MaxEvents    \* interrupts of the device that answer no command

ASSUME VirtioGpuAssumption ==
  /\ Shell \notin Users
  /\ Sleeps \in Nat \ {0}
  /\ MaxDrawn \in Nat
  /\ MaxPending \in Nat
  /\ MaxEvents \in Nat

Caller == Users \cup {Shell}

Command == {"get_display_info", "resource_create_2d", "attach_backing", "set_scanout",
            "resource_unref", "transfer_to_host_2d", "resource_flush"}

(* Where a caller is: outside the driver, in the busy wait, in waitq_sleep *)
(* before it blocks, blocked, or made RUNNABLE again.                      *)
Place == {"out", "poll", "enqueued", "asleep", "woken"}

VARIABLES
  booted,          \* virtio_gpu_init has been called
  vg_ready,        \* the driver accepts commands
  vg_backbuffer,   \* does the driver hold the pages of the back buffer?
  desc,            \* the request that descriptors 0 and 1 describe
  avail,           \* entries of the available ring the device has not taken
  taken,           \* the requests the device has taken, oldest first
  used,            \* entries of the used ring behind vg_last_used
  isr,             \* the device asserts its interrupt
  waiters,         \* vg_waitq
  place,           \* where each caller is
  cmd,             \* the command of its present call
  resp,            \* what is in its response buffer
  tries,           \* its sleeps left
  seen,            \* the frame in the back buffer when its transfer was submitted
  gpu,             \* the device's resource, backing and copies
  drawn,           \* the frame in the back buffer
  events,          \* interrupts left that answer no command
  shown,           \* history: the newest frame a successful call showed
  refused,         \* history: the device has refused a resource_unref, or an "other" command
  disturbed,       \* history: a command was submitted while the ring was busy, or given up
  faults           \* history: "failed" commands, "stray" writes into a buffer of the past

driver == <<booted, vg_ready, vg_backbuffer>>
callers == <<waiters, place, cmd, resp, tries, seen>>
history == <<shown, disturbed>>
vars == <<driver, desc, avail, taken, used, isr, callers, gpu, drawn, events,
          history, refused, faults>>

NoRequest == [who |-> Shell, cmd |-> "get_display_info", live |-> FALSE]

(* The device: whether resource 1 exists, whether the back buffer's pages  *)
(* are attached to it, the frame copied to the host and the one on screen. *)
Gpu == [resource : BOOLEAN, backing : BOOLEAN, host : 0 .. MaxDrawn, screen : 0 .. MaxDrawn]

Init ==
  /\ booted = FALSE /\ vg_ready = FALSE /\ vg_backbuffer = FALSE
  /\ desc = NoRequest /\ avail = 0 /\ taken = <<>> /\ used = 0
  /\ isr = FALSE /\ waiters = {}
  /\ place = [c \in Caller |-> "out"]
  /\ cmd = [c \in Caller |-> "get_display_info"]
  /\ resp = [c \in Caller |-> "none"]
  /\ tries = [c \in Caller |-> 0]
  /\ seen = [c \in Caller |-> 0]
  /\ gpu = [resource |-> FALSE, backing |-> FALSE, host |-> 0, screen |-> 0]
  /\ drawn = 0 /\ events = MaxEvents
  /\ shown = 0 /\ refused = {} /\ disturbed = FALSE /\ faults = {}

(* A caller that has the CPU inside the driver.                            *)
OnCpu == {c \in Caller : place[c] \in {"poll", "enqueued"}}

(* System calls run with interrupts off, the shell with interrupts on.     *)
InterruptsOn == OnCpu \subseteq {Shell}

(* Commands of the past whose completion nobody has taken.                 *)
Pending == avail + Len(taken) + used

----------------------------------------------------------------------------
(* vg_submit.                                                              *)

(* The caller leaves vg_submit: its stack, where request and response are, *)
(* is used for something else while the device may still hold the request. *)
Forget(r, c) == IF r.who = c THEN [r EXCEPT !.live = FALSE] ELSE r
TakenWithout(c) == [i \in DOMAIN taken |-> Forget(taken[i], c)]

(* Up to the busy wait, with u entries in the used ring.                   *)
vg_submit(c, k, u) ==
  /\ desc' = [who |-> c, cmd |-> k, live |-> TRUE]
  /\ avail' = avail + 1
  /\ taken' = TakenWithout(c)
  /\ used' = u
  /\ place' = [place EXCEPT ![c] = "poll"]
  /\ cmd' = [cmd EXCEPT ![c] = k]
  /\ resp' = [resp EXCEPT ![c] = "none"]
  /\ tries' = [tries EXCEPT ![c] = Sleeps]
  /\ UNCHANGED waiters

(* The caller returns to where it came from; its locals are gone.          *)
Leave(c, u) ==
  /\ desc' = Forget(desc, c)
  /\ taken' = TakenWithout(c)
  /\ used' = u
  /\ place' = [place EXCEPT ![c] = "out"]
  /\ cmd' = [cmd EXCEPT ![c] = "get_display_info"]
  /\ resp' = [resp EXCEPT ![c] = "none"]
  /\ tries' = [tries EXCEPT ![c] = 0]
  /\ seen' = [seen EXCEPT ![c] = 0]
  /\ UNCHANGED <<avail, waiters>>

----------------------------------------------------------------------------
(* What follows a command of c: ok says whether it succeeded, u how many   *)
(* used entries are left.                                                  *)

(* virtio_gpu_init fails: vg_release_backbuffer and vg_ready = 0.          *)
InitFails(c, u) ==
  /\ Leave(c, u)
  /\ vg_ready' = FALSE
  /\ vg_backbuffer' = FALSE
  /\ UNCHANGED <<booted, shown>>

Setup(c, k, u) ==
  /\ vg_submit(c, k, u)
  /\ UNCHANGED <<driver, seen, shown>>

virtio_gpu_present(c, u) ==
  /\ vg_submit(c, "transfer_to_host_2d", u)
  /\ seen' = [seen EXCEPT ![c] = drawn']
  /\ UNCHANGED shown

AfterInfo(c, ok, u) ==
  /\ cmd[c] = "get_display_info"
  /\ \/ /\ ok
        /\ vg_submit(c, "resource_create_2d", u)
        /\ vg_backbuffer' = TRUE
        /\ UNCHANGED <<booted, vg_ready, seen, shown>>
     \/ InitFails(c, u)      \* also when there are no pages

AfterCreate(c, ok, u) ==
  /\ cmd[c] = "resource_create_2d"
  /\ \/ ok /\ Setup(c, "attach_backing", u)
     \/ ~ok /\ InitFails(c, u)

AfterAttach(c, ok, u) ==
  /\ cmd[c] = "attach_backing"
  /\ \/ ok /\ Setup(c, "set_scanout", u)
     \/ ~ok /\ Setup(c, "resource_unref", u)

(* Mutant: the pages are given back and the device keeps its resource.     *)
AfterScanout_no_unref(c, ok, u) ==
  /\ cmd[c] = "set_scanout"
  /\ \/ ok /\ virtio_gpu_present(c, u) /\ UNCHANGED driver
     \/ ~ok /\ InitFails(c, u)

AfterScanout(c, ok, u) ==
  /\ cmd[c] = "set_scanout"
  /\ \/ ok /\ virtio_gpu_present(c, u) /\ UNCHANGED driver
     \/ ~ok /\ Setup(c, "resource_unref", u)

(* The result of unref is not looked at.                                   *)
AfterUnref(c, ok, u) ==
  /\ cmd[c] = "resource_unref"
  /\ InitFails(c, u)

(* The driver may have been shut down since the transfer was submitted.    *)
AfterTransfer(c, ok, u) ==
  /\ cmd[c] = "transfer_to_host_2d"
  /\ \/ ok /\ vg_ready /\ vg_submit(c, "resource_flush", u) /\ UNCHANGED seen
     \/ ~(ok /\ vg_ready) /\ Leave(c, u)
  /\ UNCHANGED <<driver, shown>>

AfterFlush(c, ok, u) ==
  /\ cmd[c] = "resource_flush"
  /\ Leave(c, u)
  /\ shown' = IF ok /\ seen[c] > shown THEN seen[c] ELSE shown
  /\ UNCHANGED driver

After(c, ok, u) ==
  /\ UNCHANGED <<isr, gpu, drawn, events, refused>>
  /\ \/ AfterInfo(c, ok, u)
     \/ AfterCreate(c, ok, u)
     \/ AfterAttach(c, ok, u)
     \/ AfterScanout(c, ok, u)
     \/ AfterUnref(c, ok, u)
     \/ AfterTransfer(c, ok, u)
     \/ AfterFlush(c, ok, u)
  /\ faults' = IF ok THEN faults ELSE faults \cup {"failed"}

(* Mutant: a completion counts as success, whatever its type.              *)
Completed_unchecked(c) ==
  /\ used > 0
  /\ After(c, TRUE, used - 1)
  /\ disturbed' = (disturbed \/ (place'[c] = "poll" /\ Pending > 1))

(* Mutant: vg_last_used is not advanced.                                   *)
Completed_not_taken(c) ==
  /\ used > 0
  /\ After(c, resp[c] = "ok", used)
  /\ disturbed' = (disturbed \/ (place'[c] = "poll" /\ Pending > 1))

(* A completion is there; the caller takes it for its own and looks at the *)
(* type in its response buffer.                                            *)
Completed(c) ==
  /\ used > 0
  /\ After(c, resp[c] = "ok", used - 1)
  /\ disturbed' = (disturbed \/ (place'[c] = "poll" /\ Pending > 1))

(* The last sleep ended without a completion.  The command stays with the  *)
(* device and vg_last_used where it is.                                    *)
TimedOut(c) ==
  /\ used = 0
  /\ After(c, FALSE, 0)
  /\ disturbed' = TRUE

Sleep(c) ==
  /\ used = 0
  /\ tries[c] > 0
  /\ waiters' = waiters \cup {c}
  /\ place' = [place EXCEPT ![c] = "enqueued"]
  /\ UNCHANGED <<driver, desc, avail, taken, used, isr, cmd, resp, tries, seen, gpu,
                 drawn, events, history, refused, faults>>

(* The busy wait ends with a completion, or after 20000000 rounds without. *)
busy_wait(c) == place[c] = "poll" /\ (Completed(c) \/ Sleep(c))

(* The lock of the queue is released; the shell can be interrupted here.   *)
waitq_sleep_block(c) ==
  /\ place[c] = "enqueued"
  /\ place' = [place EXCEPT ![c] = "asleep"]
  /\ tries' = [tries EXCEPT ![c] = @ - 1]
  /\ UNCHANGED <<driver, desc, avail, taken, used, isr, waiters, cmd, resp, seen, gpu,
                 drawn, events, history, refused, faults>>

(* It has the CPU again.                                                   *)
waitq_sleep_return(c) ==
  /\ place[c] = "woken"
  /\ OnCpu = {}
  /\ Completed(c) \/ Sleep(c) \/ (tries[c] = 0 /\ TimedOut(c))

----------------------------------------------------------------------------
(* The callers.                                                            *)

Starts(c) ==
  /\ place[c] = "out"
  /\ OnCpu = {}
  /\ Pending <= MaxPending
  /\ disturbed' = (disturbed \/ Pending > 0)
  /\ UNCHANGED <<isr, gpu, events, refused, faults>>

(* Called once, by wm_init of the shell: no device, no feature, or a queue *)
(* that is too small end it.  The rings are empty.                         *)
virtio_gpu_init ==
  /\ ~booted
  /\ booted' = TRUE
  /\ \/ UNCHANGED <<vg_ready, vg_backbuffer, desc, avail, taken, used, isr, callers, gpu,
                    drawn, events, history, refused, faults>>
     \/ /\ Starts(Shell)
        /\ vg_submit(Shell, "get_display_info", 0)
        /\ vg_ready' = TRUE
        /\ UNCHANGED <<vg_backbuffer, seen, drawn, shown>>

(* wm_render_gpu draws into the back buffer and shows it.                  *)
wm_render ==
  /\ vg_ready /\ booted
  /\ drawn < MaxDrawn
  /\ drawn' = drawn + 1
  /\ Starts(Shell)
  /\ virtio_gpu_present(Shell, used)
  /\ UNCHANGED driver

(* The system call returns -1 if the driver is not ready.                  *)
sys_gpu_flush(c) ==
  /\ vg_ready
  /\ Starts(c)
  /\ UNCHANGED <<driver, drawn>>
  /\ virtio_gpu_present(c, used)

sys_gpu_flush_fails == ~vg_ready /\ UNCHANGED vars

----------------------------------------------------------------------------
(* The device and its interrupt.                                           *)

(* It takes an entry of the available ring and reads the descriptors as    *)
(* they are now.                                                           *)
device_takes ==
  /\ avail > 0
  /\ avail' = avail - 1
  /\ taken' = Append(taken, desc)
  /\ UNCHANGED <<driver, desc, used, isr, callers, gpu, drawn, events, history, refused, faults>>

Possible(k) ==
  CASE k = "get_display_info"    -> TRUE
    [] k = "resource_create_2d"  -> ~gpu.resource
    [] k = "attach_backing"      -> gpu.resource /\ ~gpu.backing
    [] k \in {"set_scanout", "resource_unref", "resource_flush"} -> gpu.resource
    [] k = "transfer_to_host_2d" -> gpu.backing

Executed(k) ==
  CASE k = "resource_create_2d"  -> [gpu EXCEPT !.resource = TRUE]
    [] k = "attach_backing"      -> [gpu EXCEPT !.backing = TRUE]
    [] k = "resource_unref"      -> [gpu EXCEPT !.resource = FALSE, !.backing = FALSE]
    [] k = "transfer_to_host_2d" -> [gpu EXCEPT !.host = drawn]
    [] k = "resource_flush"      -> [gpu EXCEPT !.screen = gpu.host]
    [] k \in {"get_display_info", "set_scanout"} -> gpu

Refusal(k) == IF k = "resource_unref" THEN k ELSE "other"

(* It answers the oldest request, in the buffer the request names.  It may *)
(* refuse a command that is possible, when it is short of memory.          *)
device_answers ==
  /\ taken # <<>>
  /\ LET r == Head(taken)
     IN  \E ok \in IF Possible(r.cmd) THEN BOOLEAN ELSE {FALSE} :
           /\ gpu' = IF ok THEN Executed(r.cmd) ELSE gpu
           /\ resp' = IF r.live THEN [resp EXCEPT ![r.who] = IF ok THEN "ok" ELSE "err"] ELSE resp
           /\ faults' = IF r.live THEN faults ELSE faults \cup {"stray"}
           /\ refused' = IF Possible(r.cmd) /\ ~ok THEN refused \cup {Refusal(r.cmd)} ELSE refused
  /\ taken' = Tail(taken)
  /\ used' = used + 1
  /\ isr' = TRUE
  /\ UNCHANGED <<driver, desc, avail, waiters, place, cmd, tries, seen, drawn, events, history>>

(* A change of the display: an interrupt without an answer.                *)
device_notifies ==
  /\ booted /\ events > 0
  /\ events' = events - 1
  /\ isr' = TRUE
  /\ UNCHANGED <<driver, desc, avail, taken, used, callers, gpu, drawn, history, refused, faults>>

(* Mutant: the interrupt is acknowledged and nobody is woken.              *)
virtio_gpu_handle_irq_no_wake ==
  /\ isr /\ InterruptsOn
  /\ isr' = FALSE
  /\ UNCHANGED <<driver, desc, avail, taken, used, callers, gpu, drawn, events,
                 history, refused, faults>>

(* waitq_wake_all: those that are blocked become RUNNABLE, and the queue   *)
(* is emptied.                                                             *)
virtio_gpu_handle_irq ==
  /\ isr /\ InterruptsOn
  /\ isr' = FALSE
  /\ waiters' = {}
  /\ place' = [c \in Caller |-> IF c \in waiters /\ place[c] = "asleep" THEN "woken" ELSE place[c]]
  /\ UNCHANGED <<driver, desc, avail, taken, used, cmd, resp, tries, seen, gpu, drawn, events,
                 history, refused, faults>>

----------------------------------------------------------------------------
Step(c) == busy_wait(c) \/ waitq_sleep_block(c)

Next ==
  \/ virtio_gpu_init
  \/ wm_render
  \/ \E c \in Users : sys_gpu_flush(c)
  \/ sys_gpu_flush_fails
  \/ \E c \in Caller : busy_wait(c) \/ waitq_sleep_block(c) \/ waitq_sleep_return(c)
  \/ device_takes
  \/ device_answers
  \/ device_notifies
  \/ virtio_gpu_handle_irq

Spec == Init /\ [][Next]_vars

(* The device answers; a pending interrupt is taken as soon as interrupts  *)
(* are on; a caller goes on, and one that is RUNNABLE gets the CPU again.  *)
FairSpec ==
  /\ Spec
  /\ WF_vars(device_takes) /\ WF_vars(device_answers)
  /\ SF_vars(virtio_gpu_handle_irq)
  /\ \A c \in Caller : WF_vars(Step(c)) /\ SF_vars(waitq_sleep_return(c))

----------------------------------------------------------------------------
TypeOK ==
  /\ booted \in BOOLEAN /\ vg_ready \in BOOLEAN /\ vg_backbuffer \in BOOLEAN
  /\ desc \in [who : Caller, cmd : Command, live : BOOLEAN]
  /\ avail \in Nat /\ used \in Nat
  /\ taken \in Seq([who : Caller, cmd : Command, live : BOOLEAN])
  /\ isr \in BOOLEAN /\ waiters \subseteq Caller
  /\ place \in [Caller -> Place]
  /\ cmd \in [Caller -> Command]
  /\ resp \in [Caller -> {"none", "ok", "err"}]
  /\ tries \in [Caller -> 0 .. Sleeps]
  /\ seen \in [Caller -> 0 .. MaxDrawn]
  /\ gpu \in Gpu
  /\ drawn \in 0 .. MaxDrawn /\ events \in 0 .. MaxEvents /\ shown \in 0 .. MaxDrawn
  /\ refused \subseteq {"resource_unref", "other"} /\ disturbed \in BOOLEAN /\ faults \subseteq {"failed", "stray"}

(* A frame that was shown is on the screen: when both commands of          *)
(* virtio_gpu_present succeed, the device has copied and flushed the frame *)
(* that was in the back buffer or a newer one, even if callers took each   *)
(* other's completions or one of them had given up.                        *)
ShownIsOnScreen == shown <= gpu.screen

(* As long as every command finds the ring quiet and none is given up, a   *)
(* command fails only if the device refuses it, and the device writes only *)
(* into the response buffer of a caller that waits for it.                 *)
FailuresHaveACause ==
  ~disturbed => /\ "failed" \in faults => refused # {}
                /\ "stray" \notin faults

(* The error paths of virtio_gpu_init leave the device no pages that were  *)
(* given back to the allocator, unless the ring was disturbed or the       *)
(* device refused to drop its resource.                                    *)
BackingIsHeld ==
  gpu.backing => vg_backbuffer \/ disturbed \/ "resource_unref" \in refused

(* A system call gpu_flush always comes back: its sleep cannot miss the    *)
(* interrupt, and completions that others have taken are replaced.         *)
FlushReturns == \A c \in Users : place[c] # "out" ~> place[c] = "out"
=============================================================================
