--------------------------- MODULE ServiceProofs ---------------------------
(***************************************************************************)
(* Two services that several processes call at once: the GPU and files.    *)
(*                                                                         *)
(* Of the GPU driver, for every number of callers, frames and sleeps: what *)
(* callers that take each other's completions can still rely on, and what  *)
(* holds as long as the ring is not disturbed.  Of the RAM file system,    *)
(* for every size of its tables and every number of processes: its names   *)
(* and descriptors.                                                        *)
(***************************************************************************)
EXTENDS VirtioGpu, RamFs, TLAPS

----------------------------------------------------------------------------
(* The GPU driver: its types.                                              *)
Request == [who : Caller, cmd : Command, live : BOOLEAN]

Types ==
  /\ booted \in BOOLEAN /\ vg_ready \in BOOLEAN /\ vg_backbuffer \in BOOLEAN
  /\ desc \in Request
  /\ avail \in Nat /\ used \in Nat
  /\ taken \in Seq(Request)
  /\ place \in [Caller -> Place]
  /\ cmd \in [Caller -> Command]
  /\ resp \in [Caller -> {"none", "ok", "err"}]
  /\ seen \in [Caller -> Nat]
  /\ gpu \in [resource : BOOLEAN, backing : BOOLEAN, host : Nat, screen : Nat]
  /\ drawn \in Nat /\ shown \in Nat
  /\ disturbed \in BOOLEAN

----------------------------------------------------------------------------
(* Frames.  A request with a live buffer is the present command of its     *)
(* caller, so an answer "ok" means that this command was executed.         *)
Owned(r) == r.live => r.cmd = cmd[r.who]

Requests == Owned(desc) /\ \A i \in DOMAIN taken : Owned(taken[i])

Frames(c) ==
  /\ seen[c] <= drawn
  /\ cmd[c] = "resource_flush" => seen[c] <= gpu.host
  /\ resp[c] = "ok" /\ cmd[c] = "transfer_to_host_2d" => seen[c] <= gpu.host
  /\ resp[c] = "ok" /\ cmd[c] = "resource_flush" => seen[c] <= gpu.screen

(* The device's copies are never newer than what they were copied from.    *)
Copies ==
  /\ gpu.screen <= gpu.host /\ gpu.host <= drawn
  /\ gpu.backing => gpu.resource

FrameInv == Copies /\ Requests /\ ShownIsOnScreen /\ \A c \in Caller : Frames(c)

----------------------------------------------------------------------------
(* An undisturbed ring: nobody is in the driver and nothing is in flight,  *)
(* or one caller is, and its request is the only one.                      *)
Inside(c) == place[c] # "out"

Asked(c) == [who |-> c, cmd |-> cmd[c], live |-> TRUE]

InFlight(c) ==
  \/ resp[c] = "none" /\ used = 0 /\ avail = 1 /\ taken = <<>> /\ desc = Asked(c)
  \/ resp[c] = "none" /\ used = 0 /\ avail = 0 /\ taken = <<Asked(c)>>
  \/ resp[c] # "none" /\ used = 1 /\ avail = 0 /\ taken = <<>>

Idle == avail = 0 /\ taken = <<>> /\ used = 0

Quiet ==
  /\ \A c, d \in Caller : Inside(c) /\ Inside(d) => c = d
  /\ \A c \in Caller : Inside(c) => InFlight(c) /\ booted
  /\ (\A c \in Caller : ~Inside(c)) => Idle
  /\ ~booted => ~vg_ready /\ ~gpu.resource /\ ~gpu.backing

(* As long as the device has refused nothing, every command is possible    *)
(* when it is answered.                                                    *)
Phase(c) ==
  /\ resp[c] # "err"
  /\ cmd[c] = "get_display_info" => ~gpu.resource /\ ~gpu.backing
  /\ cmd[c] = "resource_create_2d" => ~gpu.backing /\ (gpu.resource <=> resp[c] = "ok")
  /\ cmd[c] = "attach_backing" => gpu.resource /\ (gpu.backing <=> resp[c] = "ok")
  /\ cmd[c] \in {"set_scanout", "transfer_to_host_2d", "resource_flush"} => gpu.resource /\ gpu.backing
  /\ cmd[c] # "resource_unref"

Obliging ==
  /\ \A c \in Caller : Inside(c) => Phase(c)
  /\ (\A c \in Caller : ~Inside(c)) /\ vg_ready => gpu.resource /\ gpu.backing

(* As long as it has refused no unref, its backing is the driver's.        *)
Backed(c) ==
  /\ cmd[c] = "get_display_info" => ~gpu.backing
  /\ cmd[c] = "resource_create_2d" => ~gpu.backing /\ vg_backbuffer
  /\ cmd[c] = "attach_backing" => vg_backbuffer
  /\ cmd[c] = "resource_unref" /\ resp[c] # "none" => ~gpu.backing

Holding ==
  /\ gpu.backing => vg_backbuffer
  /\ \A c \in Caller : Inside(c) => Backed(c)

RingInv ==
  ~disturbed =>
    /\ Quiet
    /\ "stray" \notin faults
    /\ "failed" \in faults => refused # {}
    /\ refused = {} => Obliging
    /\ "resource_unref" \notin refused => Holding

IInv == Types /\ FrameInv /\ RingInv

----------------------------------------------------------------------------
(* What vg_submit and the return from it do to the callers' state.         *)

LEMMA Strings ==
  /\ Command = {"get_display_info", "resource_create_2d", "attach_backing", "set_scanout",
                "resource_unref", "transfer_to_host_2d", "resource_flush"}
  /\ Place = {"out", "poll", "enqueued", "asleep", "woken"}
  /\ Shell \in Caller /\ Users \subseteq Caller
  BY DEF Command, Place, Caller

LEMMA ForgetFacts ==
  ASSUME Types, NEW c \in Caller
  PROVE  /\ \A r \in Request : /\ Forget(r, c) \in Request
                               /\ Forget(r, c).cmd = r.cmd /\ Forget(r, c).who = r.who
                               /\ Forget(r, c).live => r.live /\ r.who # c
         /\ TakenWithout(c) \in Seq(Request) /\ Len(TakenWithout(c)) = Len(taken)
         /\ DOMAIN TakenWithout(c) = DOMAIN taken
         /\ \A i \in DOMAIN taken : TakenWithout(c)[i] = Forget(taken[i], c) /\ taken[i] \in Request
<1>1. ASSUME NEW r \in Request
      PROVE  /\ Forget(r, c) \in Request
             /\ Forget(r, c).cmd = r.cmd /\ Forget(r, c).who = r.who
             /\ Forget(r, c).live => r.live /\ r.who # c
  BY Zenon DEF Forget, Request
<1>2. taken \in Seq(Request) /\ DOMAIN taken = 1 .. Len(taken) /\ Len(taken) \in Nat
  BY DEF Types
<1>3. \A i \in DOMAIN taken : taken[i] \in Request
  BY <1>2
<1> QED BY <1>1, <1>3 DEF TakenWithout

(* The requests of others are left alone, and c has a new one.             *)
LEMMA SubmitFacts ==
  ASSUME Types, NEW c \in Caller, NEW k \in Command, NEW u \in Nat, vg_submit(c, k, u)
  PROVE  /\ desc' \in Request /\ avail' \in Nat /\ used' \in Nat /\ taken' \in Seq(Request)
         /\ place' \in [Caller -> Place] /\ cmd' \in [Caller -> Command]
         /\ resp' \in [Caller -> {"none", "ok", "err"}]
         /\ cmd'[c] = k /\ resp'[c] = "none" /\ place'[c] = "poll"
         /\ \A d \in Caller : d # c => cmd'[d] = cmd[d] /\ resp'[d] = resp[d] /\ place'[d] = place[d]
         /\ Requests => Requests'
<1>1. /\ desc' = [who |-> c, cmd |-> k, live |-> TRUE]
      /\ avail' = avail + 1 /\ taken' = TakenWithout(c) /\ used' = u
      /\ place' = [place EXCEPT ![c] = "poll"] /\ cmd' = [cmd EXCEPT ![c] = k]
      /\ resp' = [resp EXCEPT ![c] = "none"]
  BY DEF vg_submit
<1>2. desc' \in Request /\ avail' \in Nat /\ used' \in Nat /\ taken' \in Seq(Request)
  BY <1>1, ForgetFacts DEF Types, Request
<1>3. /\ place' \in [Caller -> Place] /\ cmd' \in [Caller -> Command]
      /\ resp' \in [Caller -> {"none", "ok", "err"}]
      /\ cmd'[c] = k /\ resp'[c] = "none" /\ place'[c] = "poll"
      /\ \A d \in Caller : d # c => cmd'[d] = cmd[d] /\ resp'[d] = resp[d] /\ place'[d] = place[d]
  BY <1>1, Strings DEF Types
<1>4. ASSUME Requests PROVE Requests'
  <2>1. Owned(desc)'
    BY <1>1, <1>3 DEF Owned
  <2>2. ASSUME NEW i \in DOMAIN taken' PROVE Owned(taken[i])'
    <3>1. /\ i \in DOMAIN taken /\ taken[i] \in Request /\ taken'[i] = Forget(taken[i], c)
          /\ taken'[i].cmd = taken[i].cmd /\ taken'[i].who = taken[i].who
          /\ taken'[i].live => taken[i].live /\ taken[i].who # c
      BY <1>1, ForgetFacts
    <3>2. Owned(taken[i]) /\ taken[i].who \in Caller
      BY <1>4, <3>1 DEF Requests, Request
    <3> QED BY <1>3, <3>1, <3>2 DEF Owned
  <2> QED BY <2>1, <2>2 DEF Requests
<1> QED BY <1>2, <1>3, <1>4

LEMMA LeaveFacts ==
  ASSUME Types, NEW c \in Caller, NEW u \in Nat, Leave(c, u)
  PROVE  /\ desc' \in Request /\ avail' \in Nat /\ used' \in Nat /\ taken' \in Seq(Request)
         /\ place' \in [Caller -> Place] /\ cmd' \in [Caller -> Command]
         /\ resp' \in [Caller -> {"none", "ok", "err"}] /\ seen' \in [Caller -> Nat]
         /\ cmd'[c] = "get_display_info" /\ resp'[c] = "none" /\ place'[c] = "out" /\ seen'[c] = 0
         /\ \A d \in Caller : d # c => /\ cmd'[d] = cmd[d] /\ resp'[d] = resp[d]
                                       /\ place'[d] = place[d] /\ seen'[d] = seen[d]
         /\ Requests => Requests'
<1>1. /\ desc' = Forget(desc, c)
      /\ avail' = avail /\ taken' = TakenWithout(c) /\ used' = u
      /\ place' = [place EXCEPT ![c] = "out"] /\ cmd' = [cmd EXCEPT ![c] = "get_display_info"]
      /\ resp' = [resp EXCEPT ![c] = "none"] /\ seen' = [seen EXCEPT ![c] = 0]
  BY DEF Leave
<1>2. desc' \in Request /\ avail' \in Nat /\ used' \in Nat /\ taken' \in Seq(Request)
  BY <1>1, ForgetFacts DEF Types
<1>3. /\ place' \in [Caller -> Place] /\ cmd' \in [Caller -> Command]
      /\ resp' \in [Caller -> {"none", "ok", "err"}] /\ seen' \in [Caller -> Nat]
      /\ cmd'[c] = "get_display_info" /\ resp'[c] = "none" /\ place'[c] = "out" /\ seen'[c] = 0
      /\ \A d \in Caller : d # c => /\ cmd'[d] = cmd[d] /\ resp'[d] = resp[d]
                                    /\ place'[d] = place[d] /\ seen'[d] = seen[d]
  BY <1>1, Strings DEF Types
<1>4. ASSUME Requests PROVE Requests'
  <2>1. Owned(desc)'
    <3>1. /\ desc \in Request /\ desc'.cmd = desc.cmd /\ desc'.who = desc.who
          /\ desc'.live => desc.live /\ desc.who # c
      BY <1>1, ForgetFacts DEF Types
    <3>2. Owned(desc) /\ desc.who \in Caller
      BY <1>4, <3>1 DEF Requests, Request
    <3> QED BY <1>3, <3>1, <3>2 DEF Owned
  <2>2. ASSUME NEW i \in DOMAIN taken' PROVE Owned(taken[i])'
    <3>1. /\ i \in DOMAIN taken /\ taken[i] \in Request /\ taken'[i] = Forget(taken[i], c)
          /\ taken'[i].cmd = taken[i].cmd /\ taken'[i].who = taken[i].who
          /\ taken'[i].live => taken[i].live /\ taken[i].who # c
      BY <1>1, ForgetFacts
    <3>2. Owned(taken[i]) /\ taken[i].who \in Caller
      BY <1>4, <3>1 DEF Requests, Request
    <3> QED BY <1>3, <3>1, <3>2 DEF Owned
  <2> QED BY <2>1, <2>2 DEF Requests
<1> QED BY <1>2, <1>3, <1>4

----------------------------------------------------------------------------
(* Frames.                                                                 *)

(* How a call goes on after a command: with another one, or it returns.    *)
GoesOn(c, ok, u) ==
  \E k \in Command :
    /\ vg_submit(c, k, u) /\ shown' = shown /\ vg_ready' = vg_ready
    /\ vg_backbuffer' = IF k = "resource_create_2d" THEN TRUE ELSE vg_backbuffer
    /\ k # "get_display_info"
    /\ k = "resource_create_2d" => ok /\ cmd[c] = "get_display_info"
    /\ k = "attach_backing" => ok /\ cmd[c] = "resource_create_2d"
    /\ k = "set_scanout" => ok /\ cmd[c] = "attach_backing"
    /\ k = "resource_unref" => ~ok /\ cmd[c] \in {"attach_backing", "set_scanout"}
    /\ k = "transfer_to_host_2d" => ok /\ cmd[c] = "set_scanout"
    /\ k = "resource_flush" => ok /\ cmd[c] = "transfer_to_host_2d"
    /\ seen' = IF k = "transfer_to_host_2d" THEN [seen EXCEPT ![c] = drawn] ELSE seen

Returns(c, ok, u) ==
  /\ Leave(c, u)
  /\ shown' = IF cmd[c] = "resource_flush" /\ ok /\ seen[c] > shown THEN seen[c] ELSE shown
  /\ \/ /\ cmd[c] \in {"get_display_info", "resource_create_2d", "resource_unref"}
        /\ cmd[c] = "resource_create_2d" => ~ok
        /\ vg_ready' = FALSE /\ vg_backbuffer' = FALSE
     \/ /\ cmd[c] \in {"transfer_to_host_2d", "resource_flush"}
        /\ UNCHANGED <<vg_ready, vg_backbuffer>>

LEMMA AfterCases ==
  ASSUME Types, NEW c \in Caller, NEW ok \in BOOLEAN, NEW u \in Nat, After(c, ok, u)
  PROVE  /\ UNCHANGED <<booted, isr, gpu, drawn, events, refused>>
         /\ faults' = IF ok THEN faults ELSE faults \cup {"failed"}
         /\ GoesOn(c, ok, u) \/ Returns(c, ok, u)
<1>1. /\ UNCHANGED <<isr, gpu, drawn, events, refused>>
      /\ faults' = IF ok THEN faults ELSE faults \cup {"failed"}
  BY DEF After
<1>2. \A k \in {"get_display_info", "resource_create_2d", "attach_backing", "set_scanout",
                "resource_unref", "transfer_to_host_2d", "resource_flush"} : k \in Command
  BY Strings
<1>3. ASSUME InitFails(c, u), cmd[c] \in {"get_display_info", "resource_create_2d", "resource_unref"},
             cmd[c] = "resource_create_2d" => ~ok
      PROVE  booted' = booted /\ Returns(c, ok, u)
  BY <1>3 DEF InitFails, Returns
<1>4. ASSUME NEW k \in Command, Setup(c, k, u), k \in {"attach_backing", "set_scanout", "resource_unref"},
             k = "attach_backing" => ok /\ cmd[c] = "resource_create_2d",
             k = "set_scanout" => ok /\ cmd[c] = "attach_backing",
             k = "resource_unref" => ~ok /\ cmd[c] \in {"attach_backing", "set_scanout"}
      PROVE  booted' = booted /\ GoesOn(c, ok, u)
  BY <1>4, Zenon DEF Setup, driver, GoesOn
<1>5. CASE AfterInfo(c, ok, u)
  <2>1. CASE InitFails(c, u)
    BY <1>1, <1>3, <1>5, <2>1 DEF AfterInfo
  <2>2. CASE /\ ok
             /\ vg_submit(c, "resource_create_2d", u)
             /\ vg_backbuffer' = TRUE
             /\ UNCHANGED <<booted, vg_ready, seen, shown>>
    BY <1>1, <1>2, <1>5, <2>2, Zenon DEF AfterInfo, GoesOn
  <2> QED BY <1>5, <2>1, <2>2, Zenon DEF AfterInfo
<1>6. CASE AfterCreate(c, ok, u)
  BY <1>1, <1>2, <1>3, <1>4, <1>6 DEF AfterCreate
<1>7. CASE AfterAttach(c, ok, u)
  BY <1>1, <1>2, <1>4, <1>7 DEF AfterAttach
<1>8. CASE AfterScanout(c, ok, u)
  <2>1. CASE ok
    <3>1. virtio_gpu_present(c, u) /\ UNCHANGED driver /\ cmd[c] = "set_scanout"
      BY <1>8, <2>1 DEF AfterScanout
    <3> QED BY <1>1, <1>2, <2>1, <3>1, Zenon DEF virtio_gpu_present, driver, GoesOn
  <2>2. CASE ~ok
    BY <1>1, <1>2, <1>4, <1>8, <2>2 DEF AfterScanout
  <2> QED BY <2>1, <2>2
<1>9. CASE AfterUnref(c, ok, u)
  BY <1>1, <1>3, <1>9 DEF AfterUnref
<1>10. CASE AfterTransfer(c, ok, u)
  <2>1. CASE ok /\ vg_ready
    BY <1>1, <1>2, <1>10, <2>1, Zenon DEF AfterTransfer, driver, GoesOn
  <2>2. CASE ~(ok /\ vg_ready)
    BY <1>1, <1>10, <2>2 DEF AfterTransfer, driver, Returns
  <2> QED BY <2>1, <2>2
<1>11. CASE AfterFlush(c, ok, u)
  BY <1>1, <1>11 DEF AfterFlush, driver, Returns
<1> QED BY <1>5, <1>6, <1>7, <1>8, <1>9, <1>10, <1>11 DEF After

(* The caller that takes a completion shows a frame only if its own flush  *)
(* was executed.                                                           *)
LEMMA AfterFrames ==
  ASSUME Types, FrameInv, NEW c \in Caller, NEW ok \in BOOLEAN, NEW u \in Nat,
         ok => resp[c] = "ok", After(c, ok, u), disturbed' \in BOOLEAN
  PROVE  Types' /\ FrameInv'
<1>1. UNCHANGED <<booted, gpu, drawn>> /\ (GoesOn(c, ok, u) \/ Returns(c, ok, u))
  BY AfterCases
<1>2. /\ gpu.host \in Nat /\ gpu.screen \in Nat /\ drawn \in Nat /\ shown \in Nat
      /\ \A d \in Caller : seen[d] \in Nat
      /\ gpu.screen <= gpu.host /\ gpu.host <= drawn /\ shown <= gpu.screen
      /\ Requests /\ (gpu.backing => gpu.resource)
      /\ \A d \in Caller : Frames(d)
  BY DEF Types, FrameInv, Copies, ShownIsOnScreen
<1>3. CASE GoesOn(c, ok, u)
  <2>1. PICK k \in Command :
          /\ vg_submit(c, k, u) /\ shown' = shown
          /\ vg_ready' = vg_ready
          /\ vg_backbuffer' = IF k = "resource_create_2d" THEN TRUE ELSE vg_backbuffer
          /\ k = "resource_flush" => ok /\ cmd[c] = "transfer_to_host_2d"
          /\ seen' = IF k = "transfer_to_host_2d" THEN [seen EXCEPT ![c] = drawn] ELSE seen
    BY <1>3, Zenon DEF GoesOn
  <2>2. /\ desc' \in Request /\ avail' \in Nat /\ used' \in Nat /\ taken' \in Seq(Request)
        /\ place' \in [Caller -> Place] /\ cmd' \in [Caller -> Command]
        /\ resp' \in [Caller -> {"none", "ok", "err"}]
        /\ cmd'[c] = k /\ resp'[c] = "none"
        /\ \A d \in Caller : d # c => cmd'[d] = cmd[d] /\ resp'[d] = resp[d]
        /\ Requests'
    BY <1>2, <2>1, SubmitFacts
  <2>3. /\ seen' \in [Caller -> Nat]
        /\ \A d \in Caller : d # c => seen'[d] = seen[d]
        /\ seen'[c] = IF k = "transfer_to_host_2d" THEN drawn ELSE seen[c]
    BY <2>1 DEF Types
  <2>4. Types'
    BY <1>1, <2>1, <2>2, Zenon DEF Types
  <2>5. ASSUME NEW d \in Caller PROVE Frames(d)'
    <3>1. CASE d = c
      <4>1. seen[c] <= drawn /\ (k = "resource_flush" => seen[c] <= gpu.host)
        BY <1>2, <2>1 DEF Frames
      <4> QED BY <1>1, <2>2, <2>3, <3>1, <4>1 DEF Frames
    <3>2. CASE d # c
      BY <1>1, <1>2, <2>2, <2>3, <3>2, Zenon DEF Frames
    <3> QED BY <3>1, <3>2
  <2> QED BY <1>1, <2>1, <2>2, <2>4, <2>5 DEF FrameInv, Copies, ShownIsOnScreen
<1>4. CASE Returns(c, ok, u)
  <2>1. /\ Leave(c, u) /\ vg_ready' \in BOOLEAN /\ vg_backbuffer' \in BOOLEAN
        /\ shown' = IF cmd[c] = "resource_flush" /\ ok /\ seen[c] > shown THEN seen[c] ELSE shown
    BY <1>4, Zenon DEF Returns, Types
  <2>2. /\ desc' \in Request /\ avail' \in Nat /\ used' \in Nat /\ taken' \in Seq(Request)
        /\ place' \in [Caller -> Place] /\ cmd' \in [Caller -> Command]
        /\ resp' \in [Caller -> {"none", "ok", "err"}] /\ seen' \in [Caller -> Nat]
        /\ cmd'[c] = "get_display_info" /\ resp'[c] = "none" /\ seen'[c] = 0
        /\ \A d \in Caller : d # c => cmd'[d] = cmd[d] /\ resp'[d] = resp[d] /\ seen'[d] = seen[d]
        /\ Requests'
    BY <1>2, <2>1, LeaveFacts
  <2>3. shown' \in Nat /\ shown' <= gpu.screen
    BY <1>2, <2>1 DEF Frames
  <2>4. Types'
    BY <1>1, <2>1, <2>2 DEF Types
  <2>5. ASSUME NEW d \in Caller PROVE Frames(d)'
    <3>1. CASE d = c
      BY <1>1, <1>2, <2>2, <3>1 DEF Frames
    <3>2. CASE d # c
      BY <1>1, <1>2, <2>2, <3>2, Zenon DEF Frames
    <3> QED BY <3>1, <3>2
  <2> QED BY <1>1, <2>2, <2>3, <2>4, <2>5 DEF FrameInv, Copies, ShownIsOnScreen
<1> QED BY <1>1, <1>3, <1>4

(* A present starts: the frame it must show is the one in the back buffer. *)
LEMMA StartFrames ==
  ASSUME Types, FrameInv, NEW c \in Caller, NEW u \in Nat, NEW k \in {"get_display_info", "transfer_to_host_2d"},
         vg_submit(c, k, u),
         seen' = IF k = "transfer_to_host_2d" THEN [seen EXCEPT ![c] = drawn'] ELSE seen,
         drawn' \in Nat, drawn <= drawn', UNCHANGED <<gpu, shown>>,
         booted' \in BOOLEAN, vg_ready' \in BOOLEAN, vg_backbuffer' \in BOOLEAN, disturbed' \in BOOLEAN
  PROVE  Types' /\ FrameInv'
<1>1. /\ gpu.host \in Nat /\ gpu.screen \in Nat /\ drawn \in Nat /\ shown \in Nat
      /\ \A d \in Caller : seen[d] \in Nat
      /\ gpu.screen <= gpu.host /\ gpu.host <= drawn /\ shown <= gpu.screen
      /\ Requests /\ (gpu.backing => gpu.resource)
      /\ \A d \in Caller : Frames(d)
  BY DEF Types, FrameInv, Copies, ShownIsOnScreen
<1>2. k \in Command
  BY Strings
<1>3. /\ desc' \in Request /\ avail' \in Nat /\ used' \in Nat /\ taken' \in Seq(Request)
      /\ place' \in [Caller -> Place] /\ cmd' \in [Caller -> Command]
      /\ resp' \in [Caller -> {"none", "ok", "err"}]
      /\ cmd'[c] = k /\ resp'[c] = "none"
      /\ \A d \in Caller : d # c => cmd'[d] = cmd[d] /\ resp'[d] = resp[d]
      /\ Requests'
  BY <1>1, <1>2, SubmitFacts
<1>4. /\ seen' \in [Caller -> Nat]
      /\ \A d \in Caller : d # c => seen'[d] = seen[d]
      /\ seen'[c] = IF k = "transfer_to_host_2d" THEN drawn' ELSE seen[c]
  BY DEF Types
<1>5. Types'
  BY <1>3 DEF Types
<1>6. ASSUME NEW d \in Caller PROVE Frames(d)'
  <2>1. CASE d = c
    <3>1. seen[c] <= drawn
      BY <1>1 DEF Frames
    <3>2. seen'[c] <= drawn' /\ cmd'[c] # "resource_flush"
      BY <1>1, <1>3, <3>1
    <3> QED BY <1>3, <2>1, <3>2 DEF Frames
  <2>2. CASE d # c
    <3>1. seen[d] <= drawn'
      BY <1>1 DEF Frames
    <3> QED BY <1>1, <1>3, <1>4, <2>2, <3>1, Zenon DEF Frames
  <2> QED BY <2>1, <2>2
<1>7. gpu.host <= drawn'
  BY <1>1
<1> QED BY <1>3, <1>5, <1>6, <1>7 DEF FrameInv, Copies, ShownIsOnScreen

(* What executing a command does to each part of the device.               *)
LEMMA Execution ==
  ASSUME Types, NEW k \in Command
  PROVE  LET g == Executed(k)
         IN  /\ g \in [resource : BOOLEAN, backing : BOOLEAN, host : Nat, screen : Nat]
             /\ g.resource = IF k = "resource_create_2d" THEN TRUE
                            ELSE IF k = "resource_unref" THEN FALSE ELSE gpu.resource
             /\ g.backing = IF k = "attach_backing" THEN TRUE
                           ELSE IF k = "resource_unref" THEN FALSE ELSE gpu.backing
             /\ g.host = IF k = "transfer_to_host_2d" THEN drawn ELSE gpu.host
             /\ g.screen = IF k = "resource_flush" THEN gpu.host ELSE gpu.screen
<1> DEFINE G == [resource : BOOLEAN, backing : BOOLEAN, host : Nat, screen : Nat]
<1>1. gpu \in G /\ drawn \in Nat /\ gpu.host \in Nat
  BY DEF Types
<1>2. CASE k = "resource_create_2d"
  <2>1. Executed(k) = [gpu EXCEPT !.resource = TRUE]
    BY <1>2 DEF Executed
  <2> QED BY <1>1, <1>2, <2>1, Zenon
<1>3. CASE k = "attach_backing"
  <2>1. Executed(k) = [gpu EXCEPT !.backing = TRUE]
    BY <1>3 DEF Executed
  <2> QED BY <1>1, <1>3, <2>1, Zenon
<1>4. CASE k = "resource_unref"
  <2>1. Executed(k) = [gpu EXCEPT !.resource = FALSE, !.backing = FALSE]
    BY <1>4 DEF Executed
  <2> QED BY <1>1, <1>4, <2>1, Zenon
<1>5. CASE k = "transfer_to_host_2d"
  <2>1. Executed(k) = [gpu EXCEPT !.host = drawn]
    BY <1>5 DEF Executed
  <2> QED BY <1>1, <1>5, <2>1
<1>6. CASE k = "resource_flush"
  <2>1. Executed(k) = [gpu EXCEPT !.screen = gpu.host]
    BY <1>6 DEF Executed
  <2> QED BY <1>1, <1>6, <2>1
<1>7. CASE k \in {"get_display_info", "set_scanout"}
  <2>1. Executed(k) = gpu
    BY <1>7 DEF Executed
  <2> QED BY <1>1, <1>7, <2>1, Zenon
<1> QED BY <1>2, <1>3, <1>4, <1>5, <1>6, <1>7, Strings, Zenon

(* Every answer of the device leaves its copies as new as they were.       *)
LEMMA AnswerFrames ==
  ASSUME Types, FrameInv, device_answers
  PROVE  Types' /\ FrameInv'
<1> DEFINE r == Head(taken)
<1>1. /\ gpu.host \in Nat /\ gpu.screen \in Nat /\ drawn \in Nat /\ shown \in Nat
      /\ gpu \in [resource : BOOLEAN, backing : BOOLEAN, host : Nat, screen : Nat]
      /\ \A d \in Caller : seen[d] \in Nat
      /\ gpu.screen <= gpu.host /\ gpu.host <= drawn /\ shown <= gpu.screen
      /\ Requests /\ (gpu.backing => gpu.resource)
      /\ \A d \in Caller : Frames(d)
  BY DEF Types, FrameInv, Copies, ShownIsOnScreen
<1>2. PICK ok \in IF Possible(r.cmd) THEN BOOLEAN ELSE {FALSE} :
        /\ gpu' = IF ok THEN Executed(r.cmd) ELSE gpu
        /\ resp' = IF r.live THEN [resp EXCEPT ![r.who] = IF ok THEN "ok" ELSE "err"] ELSE resp
  BY Zenon DEF device_answers
<1>3. /\ taken' = Tail(taken) /\ used' = used + 1 /\ taken # <<>>
      /\ UNCHANGED <<driver, desc, avail, place, cmd, seen, drawn, history>>
  BY DEF device_answers
<1>4. /\ r \in Request /\ Owned(r) /\ taken' \in Seq(Request)
      /\ \A i \in DOMAIN taken' : i + 1 \in DOMAIN taken /\ taken'[i] = taken[i + 1]
  <2>1. taken \in Seq(Request) /\ taken # <<>>
    BY <1>3 DEF Types
  <2> QED BY <1>1, <1>3, <2>1 DEF Requests
<1>5. r.cmd \in Command /\ r.who \in Caller /\ r.live \in BOOLEAN
  BY <1>4 DEF Request
<1> HIDE DEF r
<1>7. /\ gpu' \in [resource : BOOLEAN, backing : BOOLEAN, host : Nat, screen : Nat]
      /\ gpu'.screen <= gpu'.host /\ gpu'.host <= drawn
      /\ gpu.host <= gpu'.host /\ gpu.screen <= gpu'.screen
      /\ gpu'.backing => gpu'.resource
      /\ ok /\ r.cmd = "transfer_to_host_2d" => gpu'.host = drawn
      /\ ok /\ r.cmd = "resource_flush" => gpu'.screen = gpu.host /\ gpu'.host = gpu.host
  <2>1. CASE ~ok
    BY <1>1, <1>2, <2>1
  <2>2. CASE ok
    <3>1. gpu' = Executed(r.cmd) /\ Possible(r.cmd)
      BY <1>2, <2>2, Zenon
    <3>2. r.cmd = "attach_backing" => gpu.resource
      BY <3>1 DEF Possible
    <3>3. /\ gpu' \in [resource : BOOLEAN, backing : BOOLEAN, host : Nat, screen : Nat]
          /\ gpu'.resource = IF r.cmd = "resource_create_2d" THEN TRUE
                             ELSE IF r.cmd = "resource_unref" THEN FALSE ELSE gpu.resource
          /\ gpu'.backing = IF r.cmd = "attach_backing" THEN TRUE
                            ELSE IF r.cmd = "resource_unref" THEN FALSE ELSE gpu.backing
          /\ gpu'.host = IF r.cmd = "transfer_to_host_2d" THEN drawn ELSE gpu.host
          /\ gpu'.screen = IF r.cmd = "resource_flush" THEN gpu.host ELSE gpu.screen
      BY <1>5, <3>1, Execution, Zenon
    <3> QED BY <1>1, <3>2, <3>3
  <2> QED BY <2>1, <2>2
<1>8. resp' \in [Caller -> {"none", "ok", "err"}]
  BY <1>2, Zenon DEF Types
<1>9. Types'
  BY <1>3, <1>7, <1>8 DEF Types, driver, history
<1>10. Requests'
  BY <1>1, <1>3, <1>4 DEF Requests, Owned
<1>11. ASSUME NEW d \in Caller PROVE Frames(d)'
  <2>1. /\ seen'[d] = seen[d] /\ cmd'[d] = cmd[d] /\ drawn' = drawn
        /\ gpu'.host \in Nat /\ gpu'.screen \in Nat
    BY <1>3, <1>7
  <2>2. seen'[d] <= drawn' /\ (cmd'[d] = "resource_flush" => seen'[d] <= gpu'.host)
    BY <1>1, <1>7, <2>1 DEF Frames
  <2>3. CASE r.live /\ r.who = d
    <3>1. r.cmd = cmd[d] /\ (resp'[d] = "ok" => ok)
      BY <1>2, <1>4, <2>3 DEF Owned, Types
    <3>2. /\ resp'[d] = "ok" /\ cmd'[d] = "transfer_to_host_2d" => seen'[d] <= gpu'.host
      BY <1>7, <2>1, <2>2, <3>1
    <3>3. /\ resp'[d] = "ok" /\ cmd'[d] = "resource_flush" => seen'[d] <= gpu'.screen
      BY <1>7, <2>1, <2>2, <3>1
    <3> QED BY <2>2, <3>2, <3>3 DEF Frames
  <2>4. CASE ~(r.live /\ r.who = d)
    <3>1. resp'[d] = resp[d]
      BY <1>2, <2>4 DEF Types
    <3> QED BY <1>1, <1>7, <2>1, <3>1 DEF Frames
  <2> QED BY <2>3, <2>4
<1>12. Copies' /\ ShownIsOnScreen'
  <2>1. shown' = shown /\ drawn' = drawn
    BY <1>3 DEF history
  <2> QED BY <1>1, <1>7, <2>1 DEF Copies, ShownIsOnScreen
<1> QED BY <1>9, <1>10, <1>11, <1>12 DEF FrameInv

LEMMA TakeFrames ==
  ASSUME Types, FrameInv, device_takes
  PROVE  Types' /\ FrameInv'
<1>1. /\ avail > 0 /\ avail' = avail - 1 /\ taken' = Append(taken, desc)
      /\ UNCHANGED <<driver, desc, used, callers, gpu, drawn, history>>
  BY DEF device_takes
<1>3. Types'
  BY <1>1 DEF Types, driver, callers, history
<1>4. ASSUME NEW i \in DOMAIN taken' PROVE Owned(taken[i])'
  <2> QED BY <1>1 DEF FrameInv, Requests, Owned, callers
<1> QED BY <1>1, <1>3, <1>4 DEF FrameInv, Copies, Requests, Owned, ShownIsOnScreen, Frames, callers, history

(* Steps that only move a caller between its places.                       *)
LEMMA WaitFrames ==
  ASSUME Types, FrameInv, place' \in [Caller -> Place],
         UNCHANGED <<driver, desc, avail, taken, used, cmd, resp, seen, gpu, drawn, history>>
  PROVE  Types' /\ FrameInv'
<1>1. Types'
  BY DEF Types, driver, history
<1> QED BY <1>1 DEF FrameInv, Copies, Requests, Owned, ShownIsOnScreen, Frames, history

----------------------------------------------------------------------------
(* The undisturbed ring.                                                   *)

LEMMA AloneInside ==
  ASSUME Quiet, NEW c \in Caller, Inside(c)
  PROVE  booted /\ InFlight(c) /\ \A d \in Caller : Inside(d) => d = c
  BY DEF Quiet

LEMMA MakeQuiet ==
  ASSUME NEW c \in Caller, Inside(c)', booted', InFlight(c)', \A d \in Caller : Inside(d)' => d = c
  PROVE  Quiet'
  BY DEF Quiet

LEMMA EmptyTaken ==
  ASSUME taken = <<>>, NEW c \in Caller
  PROVE  TakenWithout(c) = <<>>
  BY DEF TakenWithout

(* A completion is taken by the caller it is for.                          *)
LEMMA CompletedRing ==
  ASSUME IInv, NEW c \in Caller, Inside(c), Completed(c)
  PROVE  RingInv'
<1> SUFFICES ASSUME ~disturbed'
             PROVE  /\ Quiet'
                    /\ "stray" \notin faults'
                    /\ "failed" \in faults' => refused' # {}
                    /\ refused' = {} => Obliging'
                    /\ "resource_unref" \notin refused' => Holding'
  BY DEF RingInv
<1> DEFINE ok == resp[c] = "ok"
           u == used - 1
<1>1. /\ ~disturbed /\ used > 0 /\ After(c, ok, u)
  BY Zenon DEF Completed
<1>2. /\ Types /\ Copies /\ Quiet /\ "stray" \notin faults
      /\ "failed" \in faults => refused # {}
      /\ refused = {} => Obliging
      /\ "resource_unref" \notin refused => Holding
  BY <1>1 DEF IInv, RingInv, FrameInv
<1>3. /\ booted /\ \A d \in Caller : Inside(d) => d = c
      /\ resp[c] # "none" /\ used = 1 /\ avail = 0 /\ taken = <<>>
  BY <1>1, <1>2, AloneInside DEF InFlight
<1>4. u = 0 /\ u \in Nat /\ ok \in BOOLEAN
  BY <1>3
<1>5. /\ UNCHANGED <<booted, gpu, refused>>
      /\ faults' = IF ok THEN faults ELSE faults \cup {"failed"}
      /\ GoesOn(c, ok, u) \/ Returns(c, ok, u)
  BY <1>1, <1>2, <1>4, AfterCases, Zenon
<1>6. resp[c] \in {"ok", "err"}
  BY <1>2, <1>3 DEF Types
<1>7. refused = {} => ok /\ Phase(c)
  BY <1>2, <1>6 DEF Obliging, Phase
<1>8. "resource_unref" \notin refused => Backed(c) /\ (gpu.backing => vg_backbuffer)
  BY <1>2 DEF Holding
<1>9. "stray" \notin faults' /\ ("failed" \in faults' => refused' # {})
  BY <1>2, <1>5, <1>7
<1> HIDE DEF ok, u
<1>10. CASE GoesOn(c, ok, u)
  <2>1. PICK k \in Command :
          /\ vg_submit(c, k, u) /\ vg_ready' = vg_ready
          /\ vg_backbuffer' = IF k = "resource_create_2d" THEN TRUE ELSE vg_backbuffer
          /\ k # "get_display_info"
          /\ k = "resource_create_2d" => ok /\ cmd[c] = "get_display_info"
          /\ k = "attach_backing" => ok /\ cmd[c] = "resource_create_2d"
          /\ k = "set_scanout" => ok /\ cmd[c] = "attach_backing"
          /\ k = "resource_unref" => ~ok /\ cmd[c] \in {"attach_backing", "set_scanout"}
          /\ k = "transfer_to_host_2d" => ok /\ cmd[c] = "set_scanout"
          /\ k = "resource_flush" => ok /\ cmd[c] = "transfer_to_host_2d"
    BY <1>10, Zenon DEF GoesOn
  <2>2. /\ cmd' \in [Caller -> Command]
        /\ cmd'[c] = k /\ resp'[c] = "none" /\ place'[c] = "poll"
        /\ \A d \in Caller : d # c => place'[d] = place[d]
    BY <1>2, <1>4, <2>1, SubmitFacts
  <2>3. /\ desc' = [who |-> c, cmd |-> cmd'[c], live |-> TRUE]
        /\ avail' = 1 /\ used' = 0 /\ taken' = <<>>
    BY <1>3, <1>4, <2>1, <2>2, EmptyTaken DEF vg_submit
  <2>4. Inside(c)' /\ \A d \in Caller : Inside(d)' => d = c
    BY <1>3, <2>2 DEF Inside
  <2>5. Quiet'
    BY <1>3, <1>5, <2>2, <2>3, <2>4, MakeQuiet, Zenon DEF InFlight, Asked
  <2>6. ASSUME refused' = {} PROVE Obliging'
    <3>1. ok /\ Phase(c)
      BY <1>5, <1>7, <2>6
    <3>2. Phase(c)'
      BY <1>5, <2>1, <2>2, <3>1, Zenon DEF Phase, ok
    <3> QED BY <2>4, <3>2 DEF Obliging
  <2>7. ASSUME "resource_unref" \notin refused' PROVE Holding'
    <3>1. Backed(c) /\ (gpu.backing => vg_backbuffer)
      BY <1>5, <1>8, <2>7
    <3>2. Backed(c)' /\ (gpu'.backing => vg_backbuffer')
      BY <1>5, <2>1, <2>2, <3>1 DEF Backed
    <3> QED BY <2>4, <3>2 DEF Holding
  <2> QED BY <1>9, <2>5, <2>6, <2>7
<1>11. CASE Returns(c, ok, u)
  <2>1. /\ Leave(c, u)
        /\ \/ /\ cmd[c] \in {"get_display_info", "resource_create_2d", "resource_unref"}
              /\ cmd[c] = "resource_create_2d" => ~ok
              /\ vg_ready' = FALSE /\ vg_backbuffer' = FALSE
           \/ /\ cmd[c] \in {"transfer_to_host_2d", "resource_flush"}
              /\ UNCHANGED <<vg_ready, vg_backbuffer>>
    BY <1>11 DEF Returns
  <2>2. /\ place'[c] = "out" /\ \A d \in Caller : d # c => place'[d] = place[d]
    BY <1>2, <1>4, <2>1, LeaveFacts
  <2>3. \A d \in Caller : ~Inside(d)'
    BY <1>3, <2>2 DEF Inside
  <2>4. Idle'
    BY <1>3, <1>4, <2>1, EmptyTaken DEF Leave, Idle
  <2>5. Quiet'
    BY <1>3, <1>5, <2>3, <2>4 DEF Quiet
  <2>6. ASSUME refused' = {} PROVE Obliging'
    <3>1. vg_ready' => gpu'.resource /\ gpu'.backing
      BY <1>5, <1>7, <2>1, <2>6 DEF Phase
    <3> QED BY <2>3, <3>1 DEF Obliging
  <2>7. ASSUME "resource_unref" \notin refused' PROVE Holding'
    <3>1. Backed(c) /\ (gpu.backing => vg_backbuffer)
      BY <1>5, <1>8, <2>7
    <3>2. gpu'.backing => vg_backbuffer'
      BY <1>3, <1>5, <2>1, <3>1, Zenon DEF Backed
    <3> QED BY <2>3, <3>2 DEF Holding
  <2> QED BY <1>9, <2>5, <2>6, <2>7
<1> QED BY <1>5, <1>10, <1>11

(* A call that starts on an idle ring.                                     *)
LEMMA StartRing ==
  ASSUME IInv, NEW c \in Caller, NEW u \in {0, used}, NEW k \in {"get_display_info", "transfer_to_host_2d"},
         vg_submit(c, k, u), disturbed' = (disturbed \/ Pending > 0), booted' = TRUE,
         UNCHANGED <<gpu, refused, faults, vg_backbuffer>>,
         k = "get_display_info" => ~booted, k = "transfer_to_host_2d" => vg_ready
  PROVE  RingInv'
<1> SUFFICES ASSUME ~disturbed'
             PROVE  /\ Quiet'
                    /\ "stray" \notin faults'
                    /\ "failed" \in faults' => refused' # {}
                    /\ refused' = {} => Obliging'
                    /\ "resource_unref" \notin refused' => Holding'
  BY DEF RingInv
<1>1. /\ ~disturbed /\ ~(Pending > 0) /\ Types /\ Quiet /\ "stray" \notin faults
      /\ "failed" \in faults => refused # {}
      /\ refused = {} => Obliging
      /\ "resource_unref" \notin refused => Holding
  BY Zenon DEF IInv, RingInv
<1>2. avail = 0 /\ used = 0 /\ taken = <<>>
  <2>1. avail \in Nat /\ used \in Nat /\ taken \in Seq(Request) /\ Len(taken) \in Nat
    BY <1>1 DEF Types
  <2>2. avail = 0 /\ used = 0 /\ Len(taken) = 0
    BY <1>1, <2>1 DEF Pending
  <2> QED BY <2>2
<1>3. \A d \in Caller : ~Inside(d)
  BY <1>1, <1>2, AloneInside DEF InFlight
<1>4. u = 0 /\ u \in Nat /\ k \in Command
  BY <1>2, Strings
<1>5. /\ cmd' \in [Caller -> Command]
      /\ cmd'[c] = k /\ resp'[c] = "none" /\ place'[c] = "poll"
      /\ \A d \in Caller : d # c => place'[d] = place[d]
  BY <1>1, <1>4, SubmitFacts
<1>6. /\ desc' = [who |-> c, cmd |-> cmd'[c], live |-> TRUE]
      /\ avail' = 1 /\ used' = 0 /\ taken' = <<>>
  BY <1>2, <1>5, EmptyTaken DEF vg_submit
<1>7. Inside(c)' /\ \A d \in Caller : Inside(d)' => d = c
  BY <1>3, <1>5 DEF Inside
<1>8. Quiet'
  BY <1>5, <1>6, <1>7, MakeQuiet DEF InFlight, Asked
<1>9. ASSUME refused' = {} PROVE Obliging'
  <2>1. Phase(c)'
    BY <1>1, <1>3, <1>5, <1>9 DEF Phase, Quiet, Obliging
  <2> QED BY <1>7, <2>1 DEF Obliging
<1>10. ASSUME "resource_unref" \notin refused' PROVE Holding'
  <2>1. Backed(c)' /\ (gpu'.backing => vg_backbuffer')
    BY <1>1, <1>5, <1>10 DEF Backed, Quiet, Holding
  <2> QED BY <1>7, <2>1 DEF Holding
<1> QED BY <1>1, <1>8, <1>9, <1>10

LEMMA AnswerRing ==
  ASSUME IInv, device_answers
  PROVE  RingInv'
<1> SUFFICES ASSUME ~disturbed'
             PROVE  /\ Quiet'
                    /\ "stray" \notin faults'
                    /\ "failed" \in faults' => refused' # {}
                    /\ refused' = {} => Obliging'
                    /\ "resource_unref" \notin refused' => Holding'
  BY DEF RingInv
<1>1. /\ ~disturbed /\ Types /\ Copies /\ Quiet /\ "stray" \notin faults
      /\ "failed" \in faults => refused # {}
      /\ refused = {} => Obliging
      /\ "resource_unref" \notin refused => Holding
  BY DEF IInv, RingInv, FrameInv, device_answers, history
<1>2. taken # <<>>
  BY DEF device_answers
<1>3. PICK c \in Caller : Inside(c)
  BY <1>1, <1>2 DEF Quiet, Idle
<1> DEFINE k == cmd[c]
           r == [who |-> c, cmd |-> k, live |-> TRUE]
<1>4. /\ booted /\ \A d \in Caller : Inside(d) => d = c
      /\ resp[c] = "none" /\ used = 0 /\ avail = 0 /\ taken = <<r>>
  BY <1>1, <1>2, <1>3, AloneInside DEF InFlight, Asked
<1>5. Head(taken) = r /\ Tail(taken) = <<>>
  BY <1>4
<1>6. PICK ok \in IF Possible(k) THEN BOOLEAN ELSE {FALSE} :
        /\ gpu' = IF ok THEN Executed(k) ELSE gpu
        /\ resp' = [resp EXCEPT ![c] = IF ok THEN "ok" ELSE "err"]
        /\ faults' = faults
        /\ refused' = IF Possible(k) /\ ~ok THEN refused \cup {Refusal(k)} ELSE refused
  <2>1. PICK ok \in IF Possible(r.cmd) THEN BOOLEAN ELSE {FALSE} :
          /\ gpu' = IF ok THEN Executed(r.cmd) ELSE gpu
          /\ resp' = IF r.live THEN [resp EXCEPT ![r.who] = IF ok THEN "ok" ELSE "err"] ELSE resp
          /\ faults' = IF r.live THEN faults ELSE faults \cup {"stray"}
          /\ refused' = IF Possible(r.cmd) /\ ~ok THEN refused \cup {Refusal(r.cmd)} ELSE refused
    <3> HIDE DEF r
    <3> QED BY <1>5, Zenon DEF device_answers
  <2>2. r.cmd = k /\ r.who = c /\ r.live = TRUE
    OBVIOUS
  <2> HIDE DEF r, k
  <2> QED BY <2>1, <2>2, Zenon
<1>7. /\ taken' = <<>> /\ used' = 1 /\ avail' = 0
      /\ UNCHANGED <<booted, vg_ready, vg_backbuffer, place, cmd>>
  <2>1. taken' = Tail(taken) /\ used' = used + 1 /\ UNCHANGED <<driver, avail, place, cmd>>
    BY DEF device_answers
  <2> HIDE DEF r, k
  <2> QED BY <1>4, <2>1 DEF driver
<1>8. /\ resp'[c] = IF ok THEN "ok" ELSE "err"
      /\ k \in Command /\ cmd' \in [Caller -> Command] /\ ok \in BOOLEAN /\ (ok => Possible(k))
  BY <1>1, <1>6, <1>7, Zenon DEF Types
<1> HIDE DEF r
<1>9. Inside(c)' /\ \A d \in Caller : Inside(d)' => d = c
  BY <1>3, <1>4, <1>7 DEF Inside
<1>10. Quiet'
  BY <1>4, <1>7, <1>8, <1>9, MakeQuiet DEF InFlight
<1>11. /\ gpu'.resource = IF ~ok THEN gpu.resource
                          ELSE IF k = "resource_create_2d" THEN TRUE
                          ELSE IF k = "resource_unref" THEN FALSE ELSE gpu.resource
       /\ gpu'.backing = IF ~ok THEN gpu.backing
                         ELSE IF k = "attach_backing" THEN TRUE
                         ELSE IF k = "resource_unref" THEN FALSE ELSE gpu.backing
  BY <1>1, <1>6, <1>8, Execution, Zenon
<1>12. ASSUME refused' = {} PROVE Obliging'
  <2>1. refused = {} /\ Phase(c)
    BY <1>1, <1>3, <1>6, <1>12 DEF Obliging
  <2>2. Possible(k)
    BY <1>4, <1>8, <2>1, Strings, Zenon DEF Possible, Phase
  <2>3. ok
    BY <1>6, <1>12, <2>2
  <2>4. Phase(c)'
    BY <1>7, <1>8, <1>11, <2>1, <2>3, Zenon DEF Phase
  <2> QED BY <1>9, <2>4 DEF Obliging
<1>13. ASSUME "resource_unref" \notin refused' PROVE Holding'
  <2>1. "resource_unref" \notin refused /\ Backed(c) /\ (gpu.backing => vg_backbuffer)
    BY <1>1, <1>3, <1>6, <1>13 DEF Holding
  <2>2. k = "resource_unref" => ~gpu'.backing
    <3>1. CASE ok
      BY <1>11, <3>1
    <3>2. CASE ~ok /\ k = "resource_unref"
      <4>1. ~Possible(k)
        BY <1>6, <1>13, <3>2 DEF Refusal
      <4>2. ~gpu.resource
        BY <3>2, <4>1 DEF Possible
      <4> QED BY <1>1, <1>11, <4>2 DEF Copies
    <3> QED BY <3>1, <3>2
  <2>3. Backed(c)' /\ (gpu'.backing => vg_backbuffer')
    BY <1>7, <1>11, <2>1, <2>2 DEF Backed
  <2> QED BY <1>9, <2>3 DEF Holding
<1> QED BY <1>1, <1>6, <1>10, <1>12, <1>13

LEMMA TakeRing ==
  ASSUME IInv, device_takes
  PROVE  RingInv'
<1> SUFFICES ASSUME ~disturbed'
             PROVE  /\ Quiet'
                    /\ "stray" \notin faults'
                    /\ "failed" \in faults' => refused' # {}
                    /\ refused' = {} => Obliging'
                    /\ "resource_unref" \notin refused' => Holding'
  BY DEF RingInv
<1>1. /\ ~disturbed /\ Types /\ Quiet /\ "stray" \notin faults
      /\ "failed" \in faults => refused # {}
      /\ refused = {} => Obliging
      /\ "resource_unref" \notin refused => Holding
  BY DEF IInv, RingInv, device_takes, history
<1>2. /\ avail > 0 /\ avail' = avail - 1 /\ taken' = Append(taken, desc)
      /\ UNCHANGED <<booted, vg_ready, vg_backbuffer, used, place, cmd, resp, gpu, refused, faults>>
  BY DEF device_takes, driver, callers
<1>3. PICK c \in Caller : Inside(c)
  BY <1>1, <1>2 DEF Quiet, Idle
<1>4. /\ booted /\ \A d \in Caller : Inside(d) => d = c
      /\ resp[c] = "none" /\ used = 0 /\ avail = 1 /\ taken = <<>> /\ desc = Asked(c)
  BY <1>1, <1>2, <1>3, AloneInside DEF InFlight
<1>6. InFlight(c)'
  BY <1>2, <1>4 DEF InFlight, Asked
<1>7. Quiet'
  BY <1>2, <1>3, <1>4, <1>6, MakeQuiet DEF Inside
<1>8. (refused' = {} => Obliging') /\ ("resource_unref" \notin refused' => Holding')
  BY <1>1, <1>2 DEF Obliging, Holding, Inside, Phase, Backed
<1> QED BY <1>1, <1>2, <1>7, <1>8

(* Steps that leave the ring, the device and the commands alone.           *)
LEMMA WaitRing ==
  ASSUME RingInv, \A d \in Caller : place'[d] = "out" <=> place[d] = "out",
         UNCHANGED <<driver, desc, avail, taken, used, cmd, resp, gpu, refused, faults, disturbed>>
  PROVE  RingInv'
<1>1. Quiet => Quiet'
  BY DEF Quiet, Inside, InFlight, Asked, Idle, driver
<1>2. (Obliging => Obliging') /\ (Holding => Holding')
  BY DEF Obliging, Holding, Inside, Phase, Backed, driver
<1> QED BY <1>1, <1>2 DEF RingInv

----------------------------------------------------------------------------
(* Every step keeps the invariant.                                         *)

LEMMA InitInv == Init => IInv
<1> SUFFICES ASSUME Init PROVE IInv
  OBVIOUS
<1>1. Types
  <2>1. "get_display_info" \in Command /\ "out" \in Place /\ Shell \in Caller
    BY Strings
  <2>2. desc \in Request /\ taken \in Seq(Request) /\ avail \in Nat /\ used \in Nat
    BY <2>1 DEF Init, NoRequest, Request
  <2>3. /\ place \in [Caller -> Place] /\ cmd \in [Caller -> Command]
        /\ resp \in [Caller -> {"none", "ok", "err"}] /\ seen \in [Caller -> Nat]
    BY <2>1 DEF Init
  <2> QED BY <2>2, <2>3, Zenon DEF Init, Types
<1>2. gpu = [resource |-> FALSE, backing |-> FALSE, host |-> 0, screen |-> 0] /\ drawn = 0 /\ shown = 0
  BY DEF Init
<1>3. Copies /\ ShownIsOnScreen
  BY <1>2 DEF Copies, ShownIsOnScreen
<1>4. Requests
  BY DEF Init, NoRequest, Requests, Owned
<1>5. \A c \in Caller : Frames(c)
  BY DEF Init, Frames
<1>6. \A c \in Caller : ~Inside(c)
  BY DEF Init, Inside
<1>7. Quiet /\ Obliging /\ Holding
  BY <1>6 DEF Init, Quiet, Idle, Obliging, Holding
<1>8. RingInv
  BY <1>7 DEF RingInv, Init
<1> QED BY <1>1, <1>3, <1>4, <1>5, <1>8 DEF IInv, FrameInv

LEMMA CompletedStep ==
  ASSUME IInv, NEW c \in Caller, Inside(c), Completed(c)
  PROVE  IInv'
<1>1. /\ used > 0 /\ After(c, resp[c] = "ok", used - 1)
      /\ disturbed' = (disturbed \/ (place'[c] = "poll" /\ Pending > 1))
  BY DEF Completed
<1>2. used - 1 \in Nat /\ (resp[c] = "ok") \in BOOLEAN /\ disturbed' \in BOOLEAN
  BY <1>1 DEF IInv, Types
<1>3. Types' /\ FrameInv'
  BY <1>1, <1>2, AfterFrames, Zenon DEF IInv
<1> QED BY <1>3, CompletedRing DEF IInv

LEMMA TimedOutStep ==
  ASSUME IInv, NEW c \in Caller, TimedOut(c)
  PROVE  IInv'
<1>1. After(c, FALSE, 0) /\ disturbed' = TRUE
  BY Zenon DEF TimedOut
<1>2. Types' /\ FrameInv'
  BY <1>1, AfterFrames, Zenon DEF IInv
<1> QED BY <1>1, <1>2 DEF IInv, RingInv

LEMMA WaitStep ==
  ASSUME IInv, place' \in [Caller -> Place],
         \A d \in Caller : place'[d] = "out" <=> place[d] = "out",
         UNCHANGED <<driver, desc, avail, taken, used, cmd, resp, seen, gpu, drawn, history, refused, faults>>
  PROVE  IInv'
<1>1. Types' /\ FrameInv'
  BY WaitFrames DEF IInv
<1>2. RingInv'
  BY WaitRing DEF IInv, history
<1> QED BY <1>1, <1>2 DEF IInv

LEMMA SleepStep ==
  ASSUME IInv, NEW c \in Caller, Inside(c), Sleep(c) \/ waitq_sleep_block(c)
  PROVE  IInv'
<1>1. /\ place' = [place EXCEPT ![c] = "enqueued"] \/ place' = [place EXCEPT ![c] = "asleep"]
      /\ UNCHANGED <<driver, desc, avail, taken, used, cmd, resp, seen, gpu, drawn, history, refused, faults>>
  BY DEF Sleep, waitq_sleep_block
<1>2. place' \in [Caller -> Place] /\ \A d \in Caller : place'[d] = "out" <=> place[d] = "out"
  BY <1>1, Strings, Zenon DEF IInv, Types, Inside
<1> QED BY <1>1, <1>2, WaitStep

LEMMA CallerStep ==
  ASSUME IInv, NEW c \in Caller, busy_wait(c) \/ waitq_sleep_block(c) \/ waitq_sleep_return(c)
  PROVE  IInv'
<1>1. Inside(c)
  BY DEF Inside, busy_wait, waitq_sleep_block, waitq_sleep_return
<1> QED BY <1>1, CompletedStep, SleepStep, TimedOutStep DEF busy_wait, waitq_sleep_return

LEMMA StartStep ==
  ASSUME IInv, virtio_gpu_init \/ wm_render \/ \E c \in Users : sys_gpu_flush(c)
  PROVE  IInv'
<1>1. Types /\ FrameInv /\ RingInv
  BY DEF IInv
<1>2. ASSUME NEW c \in Caller, NEW u \in {0, used}, NEW k \in {"get_display_info", "transfer_to_host_2d"},
             vg_submit(c, k, u),
             seen' = IF k = "transfer_to_host_2d" THEN [seen EXCEPT ![c] = drawn'] ELSE seen,
             drawn' = drawn \/ drawn' = drawn + 1, Starts(c), booted' = TRUE, vg_ready' \in BOOLEAN,
             UNCHANGED <<shown, vg_backbuffer>>,
             k = "get_display_info" => ~booted, k = "transfer_to_host_2d" => vg_ready
      PROVE  IInv'
  <2>1. disturbed' = (disturbed \/ Pending > 0) /\ UNCHANGED <<gpu, refused, faults>>
    BY <1>2 DEF Starts
  <2>2. disturbed' \in BOOLEAN /\ drawn' \in Nat /\ drawn <= drawn' /\ vg_backbuffer' \in BOOLEAN /\ u \in Nat
    BY <1>1, <1>2, <2>1 DEF Types
  <2>3. Types' /\ FrameInv'
    BY <1>1, <1>2, <2>1, <2>2, StartFrames
  <2>4. RingInv'
    BY <1>2, <2>1, StartRing
  <2> QED BY <2>3, <2>4 DEF IInv
<1>3. CASE virtio_gpu_init
  <2>1. CASE UNCHANGED <<vg_ready, vg_backbuffer, desc, avail, taken, used, isr, callers, gpu,
                         drawn, events, history, refused, faults>>
    <3>1. ~booted /\ booted' = TRUE
      BY <1>3 DEF virtio_gpu_init
    <3>2. Types'
      BY <1>1, <2>1, <3>1 DEF Types, callers, history
    <3>3. FrameInv'
      BY <1>1, <2>1, Zenon DEF FrameInv, Copies, Requests, Owned, ShownIsOnScreen, Frames, callers, history
    <3>4. Quiet => Quiet'
      BY <2>1, <3>1 DEF Quiet, Inside, InFlight, Asked, Idle, callers
    <3>5. (Obliging => Obliging') /\ (Holding => Holding')
      BY <2>1 DEF Obliging, Holding, Inside, Phase, Backed, callers
    <3>6. RingInv'
      BY <1>1, <2>1, <3>4, <3>5 DEF RingInv, history
    <3> QED BY <3>2, <3>3, <3>6 DEF IInv
  <2>2. CASE /\ Starts(Shell)
             /\ vg_submit(Shell, "get_display_info", 0)
             /\ vg_ready' = TRUE
             /\ UNCHANGED <<vg_backbuffer, seen, drawn, shown>>
    BY <1>2, <1>3, <2>2, Strings DEF virtio_gpu_init
  <2> QED BY <1>3, <2>1, <2>2, Zenon DEF virtio_gpu_init
<1>4. CASE wm_render
  <2>1. /\ vg_ready /\ booted /\ drawn' = drawn + 1 /\ Starts(Shell) /\ UNCHANGED driver
        /\ vg_submit(Shell, "transfer_to_host_2d", used)
        /\ seen' = [seen EXCEPT ![Shell] = drawn'] /\ UNCHANGED shown
    BY <1>4 DEF wm_render, virtio_gpu_present
  <2>2. booted' = TRUE /\ vg_ready' \in BOOLEAN /\ UNCHANGED vg_backbuffer
    BY <2>1 DEF Types, driver
  <2> QED BY <1>2, <2>1, <2>2, Strings, Zenon
<1>5. ASSUME NEW c \in Users, sys_gpu_flush(c) PROVE IInv'
  <2>1. /\ vg_ready /\ drawn' = drawn /\ Starts(c) /\ UNCHANGED driver
        /\ vg_submit(c, "transfer_to_host_2d", used)
        /\ seen' = [seen EXCEPT ![c] = drawn'] /\ UNCHANGED shown
    BY <1>5 DEF sys_gpu_flush, virtio_gpu_present
  <2>2. vg_ready' \in BOOLEAN /\ UNCHANGED vg_backbuffer /\ booted' = booted /\ c \in Caller
    BY <2>1, Strings DEF Types, driver
  <2>3. CASE booted
    <3>1. booted' = TRUE
      BY <2>2, <2>3 DEF Types
    <3> QED BY <1>2, <2>1, <2>2, <3>1, Zenon
  <2>4. CASE ~booted
    <3>1. disturbed
      BY <1>1, <2>1, <2>4 DEF RingInv, Quiet
    <3>2. disturbed' = TRUE /\ UNCHANGED gpu
      BY <2>1, <3>1, Zenon DEF Starts
    <3>3. Types' /\ FrameInv'
      <4>1. drawn' \in Nat /\ drawn <= drawn' /\ booted' \in BOOLEAN /\ vg_backbuffer' \in BOOLEAN /\ used \in Nat
        BY <1>1, <2>1, <2>2 DEF Types
      <4> QED BY <1>1, <2>1, <2>2, <3>2, <4>1, StartFrames, Zenon
    <3> QED BY <3>2, <3>3 DEF IInv, RingInv
  <2> QED BY <2>3, <2>4
<1> QED BY <1>3, <1>4, <1>5

LEMMA NextInv == IInv /\ [Next]_vars => IInv'
<1> SUFFICES ASSUME IInv, [Next]_vars PROVE IInv'
  OBVIOUS
<1>1. CASE UNCHANGED vars
  BY <1>1, WaitStep DEF vars, callers, IInv, Types
<1>2. CASE sys_gpu_flush_fails
  BY <1>1, <1>2 DEF sys_gpu_flush_fails
<1>3. CASE device_takes
  BY <1>3, TakeFrames, TakeRing DEF IInv
<1>4. CASE device_answers
  BY <1>4, AnswerFrames, AnswerRing DEF IInv
<1>5. CASE device_notifies
  BY <1>5, WaitStep DEF device_notifies, callers, IInv, Types
<1>6. CASE virtio_gpu_handle_irq
  <2>1. place' \in [Caller -> Place] /\ \A d \in Caller : place'[d] = "out" <=> place[d] = "out"
    BY <1>6, Strings DEF virtio_gpu_handle_irq, IInv, Types
  <2> QED BY <1>6, <2>1, WaitStep DEF virtio_gpu_handle_irq
<1> QED BY <1>1, <1>2, <1>3, <1>4, <1>5, <1>6, StartStep, CallerStep DEF Next

----------------------------------------------------------------------------
(* The inductive invariant holds in every reachable state.                 *)
THEOREM VirtioGpuInvariance == Spec => []IInv
  BY InitInv, NextInv, PTL DEF Spec

(* A frame that virtio_gpu_present reported as shown is on the screen,     *)
(* though callers may take each other's completions.                       *)
THEOREM ShownStaysOnScreen == Spec => []ShownIsOnScreen
<1>1. IInv => ShownIsOnScreen
  BY DEF IInv, FrameInv
<1> QED BY <1>1, VirtioGpuInvariance, PTL

(* Without a disturbed ring vg_submit fails only when the device refuses a *)
(* command, and no response is written into a stack that is gone.          *)
THEOREM FailuresAreCaused == Spec => []FailuresHaveACause
<1>1. IInv => FailuresHaveACause
  BY DEF IInv, RingInv, FailuresHaveACause
<1> QED BY <1>1, VirtioGpuInvariance, PTL

(* The error paths of virtio_gpu_init take the back buffer's pages away    *)
(* from the device before they are given back.                             *)
THEOREM BackingStaysHeld == Spec => []BackingIsHeld
<1>1. IInv => BackingIsHeld
  BY DEF IInv, RingInv, Holding, BackingIsHeld
<1> QED BY <1>1, VirtioGpuInvariance, PTL

----------------------------------------------------------------------------
(* The RAM file system: its tables.                                        *)
InodeRecord ==
  [used : BOOLEAN, name : Name \cup {NoName}, data : [Pos -> Byte], size : 0 .. RAMFS_DATA_MAX]

Desc ==
  [used : BOOLEAN, inode : Inode, offset : 0 .. RAMFS_DATA_MAX, mode : Mode, append : BOOLEAN]

TablesOK ==
  /\ inodes \in [Inode -> InodeRecord]
  /\ fds \in [Proc -> [Fd -> Desc]]
  /\ alive \subseteq Proc

(* The two properties are inductive together, over tables whose offsets    *)
(* and sizes stay within the data area.                                    *)
FsInv == TablesOK /\ NamesAreUnique /\ DescriptorsAreLive

----------------------------------------------------------------------------
(* Tables.                                                                 *)

LEMMA Constants ==
  /\ RAMFS_DATA_MAX \in Nat /\ RAMFS_DATA_MAX > 0 /\ 0 \in Inode /\ 1 \in Proc /\ 1 \in Pos
  /\ NoDesc \in Desc /\ NoDesc.used = FALSE
  /\ NoInode \in InodeRecord /\ NoInode.used = FALSE
<1>1. /\ RAMFS_DATA_MAX \in Nat /\ RAMFS_DATA_MAX > 0 /\ 0 \in Inode /\ 1 \in Proc /\ 1 \in Pos
  BY RamFsAssumption DEF Inode, Proc, Pos
<1>2. NoDesc \in Desc /\ NoDesc.used = FALSE
  BY <1>1 DEF NoDesc, Desc, Mode
<1>3. [i \in Pos |-> 0] \in [Pos -> Byte]
  BY DEF Byte
<1>4. NoInode \in InodeRecord /\ NoInode.used = FALSE
  BY <1>1, <1>3 DEF NoInode, InodeRecord
<1> QED BY <1>1, <1>2, <1>4

(* One descriptor is written.                                              *)
LEMMA FdWrite ==
  ASSUME NEW f \in [Proc -> [Fd -> Desc]], NEW p \in Proc, NEW d \in Fd, NEW fd \in Desc
  PROVE  LET g == [f EXCEPT ![p][d] = fd]
         IN  /\ g \in [Proc -> [Fd -> Desc]]
             /\ \A q \in Proc, e \in Fd : g[q][e] = IF q = p /\ e = d THEN fd ELSE f[q][e]
OBVIOUS

(* One inode is written.                                                   *)
LEMMA InodeWrite ==
  ASSUME NEW f \in [Inode -> InodeRecord], NEW i \in Inode, NEW r \in InodeRecord
  PROVE  LET g == [f EXCEPT ![i] = r]
         IN  /\ g \in [Inode -> InodeRecord]
             /\ g[i] = r /\ \A j \in Inode : j # i => g[j] = f[j]
OBVIOUS

(* A new table of descriptors whose open ones are live or were open.       *)
LEMMA FdsStep ==
  ASSUME FsInv, fds' \in [Proc -> [Fd -> Desc]], alive' \subseteq Proc, UNCHANGED inodes,
         \A p \in Proc, d \in Fd :
           fds'[p][d].used => p \in alive' /\ inodes[fds'[p][d].inode].used
  PROVE  FsInv'
BY DEF FsInv, TablesOK, NamesAreUnique, DescriptorsAreLive

(* An inode that stays in use keeps its name, or gets one that is free.    *)
LEMMA InodeStep ==
  ASSUME FsInv, NEW i \in Inode, NEW r \in InodeRecord, inodes' = [inodes EXCEPT ![i] = r],
         r.used = TRUE,
         \/ inodes[i].used /\ r.name = inodes[i].name
         \/ \A j \in Inode : inodes[j].used => inodes[j].name # r.name
  PROVE  /\ inodes' \in [Inode -> InodeRecord] /\ NamesAreUnique'
         /\ inodes'[i].used
         /\ \A j \in Inode : inodes[j].used => inodes'[j].used
<1>1. /\ inodes' \in [Inode -> InodeRecord]
      /\ inodes'[i] = r /\ \A j \in Inode : j # i => inodes'[j] = inodes[j]
  BY DEF FsInv, TablesOK
<1>2. NamesAreUnique'
  BY DEF FsInv, NamesAreUnique
<1> QED BY <1>1, <1>2

----------------------------------------------------------------------------
LEMMA FsInitInv == FsInit => FsInv
<1> SUFFICES ASSUME FsInit PROVE FsInv
  OBVIOUS
<1>1. PICK b \in Data : inodes = [i \in Inode |->
        IF i = 0 THEN [used |-> TRUE, name |-> README, data |-> [NoInode.data EXCEPT ![1] = b], size |-> 1]
                 ELSE NoInode]
  BY DEF FsInit
<1>2. [NoInode.data EXCEPT ![1] = b] \in [Pos -> Byte]
  BY Zenon DEF NoInode, Byte
<1>3. inodes \in [Inode -> InodeRecord] /\ \A i \in Inode : inodes[i].used => i = 0
  <2> DEFINE data == [NoInode.data EXCEPT ![1] = b]
             r == [used |-> TRUE, name |-> README, data |-> data, size |-> 1]
  <2> HIDE DEF data
  <2>1. data \in [Pos -> Byte]
    BY <1>2 DEF data
  <2>2. r \in InodeRecord
    BY <2>1, Constants, RamFsAssumption DEF InodeRecord
  <2>3. inodes = [i \in Inode |-> IF i = 0 THEN r ELSE NoInode]
    BY <1>1 DEF data
  <2> HIDE DEF r
  <2> QED BY <2>2, <2>3, Constants
<1>4. fds \in [Proc -> [Fd -> Desc]] /\ \A p \in Proc, d \in Fd : ~fds[p][d].used
  <2>1. fds = [p \in Proc |-> [d \in Fd |-> NoDesc]]
    BY DEF FsInit
  <2> QED BY <2>1, Constants
<1>5. alive \subseteq Proc
  BY Constants DEF FsInit
<1> QED BY <1>3, <1>4, <1>5 DEF FsInv, TablesOK, NamesAreUnique, DescriptorsAreLive

LEMMA OpenStep ==
  ASSUME FsInv, NEW p \in alive, NEW name \in Name, NEW flags \in OpenFlags, fs_open(p, name, flags)
  PROVE  FsInv'
<1>1. CASE Fails
  BY <1>1 DEF Fails, FsInv, TablesOK, NamesAreUnique, DescriptorsAreLive
<1>2. ASSUME NEW i \in ensure_ramfs_inode(name, flags.creat),
             LET found == IF inodes[i].used THEN inodes[i]
                          ELSE [NoInode EXCEPT !.used = TRUE, !.name = name]
                 inode == IF flags.trunc THEN [found EXCEPT !.size = 0] ELSE found
             IN  /\ inodes' = [inodes EXCEPT ![i] = inode]
                 /\ install_fd(p, [used |-> TRUE, inode |-> i, mode |-> flags.mode, append |-> flags.append,
                                   offset |-> IF flags.append THEN inode.size ELSE 0])
                 /\ UNCHANGED alive
      PROVE  FsInv'
  <2> DEFINE found == IF inodes[i].used THEN inodes[i] ELSE [NoInode EXCEPT !.used = TRUE, !.name = name]
             inode == IF flags.trunc THEN [found EXCEPT !.size = 0] ELSE found
             fd == [used |-> TRUE, inode |-> i, mode |-> flags.mode, append |-> flags.append,
                      offset |-> IF flags.append THEN inode.size ELSE 0]
  <2>1. /\ i \in Inode
        /\ \/ inodes[i].used /\ inodes[i].name = name
           \/ ~inodes[i].used /\ \A j \in Inode : inodes[j].used => inodes[j].name # name
    BY DEF ensure_ramfs_inode, find_inode_by_name, alloc_inode
  <2>2. /\ inodes \in [Inode -> InodeRecord] /\ fds \in [Proc -> [Fd -> Desc]] /\ p \in Proc
        /\ alive' = alive /\ alive \subseteq Proc
    BY <1>2 DEF FsInv, TablesOK
  <2>3. found \in InodeRecord /\ found.used = TRUE /\ found.name = name
    <3>1. CASE inodes[i].used
      BY <2>1, <2>2, <3>1 DEF InodeRecord
    <3>2. CASE ~inodes[i].used
      BY <3>2, Constants, Zenon DEF InodeRecord
    <3> QED BY <3>1, <3>2, Zenon
  <2>4. /\ inodes' = [inodes EXCEPT ![i] = inode] /\ install_fd(p, fd)
    BY <1>2
  <2> HIDE DEF found
  <2>5. inode \in InodeRecord /\ inode.used = TRUE /\ inode.name = name
    BY <2>3, Constants DEF InodeRecord
  <2> HIDE DEF inode
  <2>6. fd \in Desc /\ fd.inode = i
    <3>1. inode.size \in 0 .. RAMFS_DATA_MAX
      BY <2>5 DEF InodeRecord
    <3>2. flags.mode \in Mode /\ flags.append \in BOOLEAN
      BY RamFsAssumption DEF Mode
    <3> DEFINE offset == IF flags.append THEN inode.size ELSE 0
    <3>3. offset \in 0 .. RAMFS_DATA_MAX
      BY <3>1, Constants
    <3> HIDE DEF offset
    <3>4. [used |-> TRUE, inode |-> i, mode |-> flags.mode, append |-> flags.append, offset |-> offset] \in Desc
      BY <2>1, <3>2, <3>3, Zenon DEF Desc
    <3> QED BY <3>4 DEF offset
  <2> HIDE DEF fd
  <2>7. /\ inodes' \in [Inode -> InodeRecord] /\ NamesAreUnique' /\ inodes'[i].used
        /\ \A j \in Inode : inodes[j].used => inodes'[j].used
    BY <2>1, <2>4, <2>5, InodeStep, Zenon
  <2>8. /\ fds' \in [Proc -> [Fd -> Desc]]
        /\ \A q \in Proc, e \in Fd : fds'[q][e] = fds[q][e] \/ (q = p /\ fds'[q][e] = fd)
    <3>1. CASE UNCHANGED fds
      BY <2>2, <3>1
    <3>2. CASE \E d \in alloc_fd(p) : fds' = [fds EXCEPT ![p][d] = fd]
      BY <2>2, <2>6, <3>2, FdWrite DEF alloc_fd
    <3> QED BY <2>4, <3>1, <3>2 DEF install_fd
  <2>9. DescriptorsAreLive'
    <3> SUFFICES ASSUME NEW q \in Proc, NEW e \in Fd, fds'[q][e].used
                 PROVE  q \in alive /\ inodes'[fds'[q][e].inode].used
      BY <2>2, Zenon DEF DescriptorsAreLive
    <3>1. CASE fds'[q][e] = fds[q][e]
      <4>1. fds[q][e].inode \in Inode
        BY <2>2 DEF Desc
      <4> QED BY <2>7, <3>1, <4>1, Zenon DEF FsInv, DescriptorsAreLive
    <3>2. CASE q = p /\ fds'[q][e] = fd
      BY <2>6, <2>7, <3>2
    <3> QED BY <2>8, <3>1, <3>2, Zenon
  <2> QED BY <2>2, <2>7, <2>8, <2>9 DEF FsInv, TablesOK
<1> QED BY <1>1, <1>2, Zenon DEF fs_open

(* One open descriptor is written and keeps its file, or is closed.        *)
LEMMA DescStep ==
  ASSUME FsInv, NEW p \in alive, NEW d \in Fd, fds[p][d].used, NEW fd \in Desc,
         ~fd.used \/ fd.inode = fds[p][d].inode,
         fds' = [fds EXCEPT ![p][d] = fd], UNCHANGED alive,
         inodes' \in [Inode -> InodeRecord], NamesAreUnique',
         \A j \in Inode : inodes[j].used => inodes'[j].used
  PROVE  FsInv'
<1>1. fds \in [Proc -> [Fd -> Desc]] /\ p \in Proc /\ alive \subseteq Proc
  BY DEF FsInv, TablesOK
<1>2. /\ fds' \in [Proc -> [Fd -> Desc]]
      /\ \A q \in Proc, e \in Fd : fds'[q][e] = IF q = p /\ e = d THEN fd ELSE fds[q][e]
  BY <1>1
<1>3. \A q \in Proc, e \in Fd : fds[q][e].inode \in Inode
  BY <1>1 DEF Desc
<1>4. DescriptorsAreLive'
  BY <1>2, <1>3 DEF FsInv, DescriptorsAreLive
<1> QED BY <1>4 DEF FsInv, TablesOK

LEMMA CloseStep ==
  ASSUME FsInv, NEW p \in alive, NEW d \in Fd, fs_close(p, d)
  PROVE  FsInv'
<1>1. fds[p][d].used /\ fds' = [fds EXCEPT ![p][d] = NoDesc] /\ UNCHANGED <<inodes, alive>>
  BY DEF fs_close, get_open_fd
<1>2. inodes' \in [Inode -> InodeRecord] /\ NamesAreUnique'
  BY <1>1 DEF FsInv, TablesOK, NamesAreUnique
<1> QED BY <1>1, <1>2, Constants, DescStep, Zenon

LEMMA ReadStep ==
  ASSUME FsInv, NEW p \in alive, NEW d \in Fd, NEW len \in 0 .. MaxLen, fs_read(p, d, len)
  PROVE  FsInv'
<1> DEFINE old == fds[p][d]
           n == Readable(old, len)
           fd == [old EXCEPT !.offset = old.offset + n]
<1>1. old.used /\ fds' = [fds EXCEPT ![p][d].offset = @ + n] /\ UNCHANGED <<inodes, alive>>
  BY DEF fs_read, get_open_fd
<1>2. fds \in [Proc -> [Fd -> Desc]] /\ p \in Proc /\ inodes \in [Inode -> InodeRecord]
  BY DEF FsInv, TablesOK
<1>3. old \in Desc
  BY <1>2
<1>4. fds' = [fds EXCEPT ![p][d] = fd]
  BY <1>1
<1>5. old.offset + n \in 0 .. RAMFS_DATA_MAX
  <2>1. inodes[old.inode].size \in 0 .. RAMFS_DATA_MAX /\ old.offset \in 0 .. RAMFS_DATA_MAX
    BY <1>2, <1>3 DEF Desc, InodeRecord
  <2> DEFINE s == inodes[old.inode].size
             o == old.offset
  <2>3. n = IF o >= s THEN 0 ELSE IF len < s - o THEN len ELSE s - o
    BY Zenon DEF Readable, Lower
  <2> HIDE DEF s, o, n
  <2>4. s \in 0 .. RAMFS_DATA_MAX /\ o \in 0 .. RAMFS_DATA_MAX /\ RAMFS_DATA_MAX \in Nat
    BY <2>1, Constants DEF s, o
  <2>5. o + n \in 0 .. RAMFS_DATA_MAX
    BY ONLY <2>3, <2>4
  <2> QED BY <2>5 DEF o
<1> HIDE DEF n
<1>6. fd \in Desc /\ fd.inode = old.inode
  BY <1>3, <1>5 DEF Desc
<1>7. inodes' \in [Inode -> InodeRecord] /\ NamesAreUnique'
  BY <1>1 DEF FsInv, TablesOK, NamesAreUnique
<1> HIDE DEF fd
<1> QED BY <1>1, <1>4, <1>6, <1>7, DescStep, Zenon

LEMMA WriteStep ==
  ASSUME FsInv, NEW p \in alive, NEW d \in Fd, NEW bytes \in Bytes, fs_write(p, d, bytes)
  PROVE  FsInv'
<1> DEFINE old == fds[p][d]
           offset == WriteOffset(old)
           n == Writable(offset, Len(bytes))
           inode == inodes[old.inode]
           data == [k \in Pos |-> IF k \in offset + 1 .. offset + n THEN bytes[k - offset] ELSE inode.data[k]]
           size == IF offset < RAMFS_DATA_MAX /\ offset + n > inode.size THEN offset + n ELSE inode.size
           new == [inode EXCEPT !.data = data, !.size = size]
           fd == [old EXCEPT !.offset = offset + n]
<1>1. fds \in [Proc -> [Fd -> Desc]] /\ p \in Proc /\ inodes \in [Inode -> InodeRecord]
  BY DEF FsInv, TablesOK
<1>2. old.used /\ fds' = [fds EXCEPT ![p][d].offset = offset + n] /\ UNCHANGED alive
  BY DEF fs_write, get_open_fd
<1>3. inodes' = [inodes EXCEPT ![old.inode] = new]
  BY DEF fs_write
<1>4. /\ old \in Desc /\ old.inode \in Inode /\ inode \in InodeRecord
      /\ old.offset \in 0 .. RAMFS_DATA_MAX /\ inode.size \in 0 .. RAMFS_DATA_MAX
      /\ inode.data \in [Pos -> Byte]
  BY <1>1 DEF Desc, InodeRecord
<1>5. PICK m \in Nat : bytes \in [1 .. m -> Data] /\ Len(bytes) = m
  BY DEF Bytes
<1>6. offset \in 0 .. RAMFS_DATA_MAX
  BY <1>4, Zenon DEF WriteOffset
<1> HIDE DEF offset, old, inode
<1>7. n \in 0 .. m /\ offset + n \in 0 .. RAMFS_DATA_MAX
  BY <1>5, <1>6, Constants DEF Writable, Lower
<1> HIDE DEF n
<1>8. data \in [Pos -> Byte]
  <2> SUFFICES ASSUME NEW k \in Pos
               PROVE  (IF k \in offset + 1 .. offset + n THEN bytes[k - offset] ELSE inode.data[k]) \in Byte
    OBVIOUS
  <2>1. CASE k \in offset + 1 .. offset + n
    <3>1. k - offset \in 1 .. m
      BY <1>6, <1>7, <2>1 DEF Pos
    <3> QED BY <1>5, <2>1, <3>1 DEF Byte
  <2>2. CASE k \notin offset + 1 .. offset + n
    BY <1>4, <2>2, Zenon
  <2> QED BY <2>1, <2>2, Zenon
<1>9. size \in 0 .. RAMFS_DATA_MAX
  BY <1>4, <1>7
<1> HIDE DEF data, size
<1>10. new \in InodeRecord /\ new.used = inode.used /\ new.name = inode.name
  BY <1>4, <1>8, <1>9, Zenon DEF InodeRecord
<1> HIDE DEF new
<1>11. inode.used = TRUE
  BY <1>1, <1>2 DEF FsInv, DescriptorsAreLive, inode, old, InodeRecord
<1>12. /\ inodes' \in [Inode -> InodeRecord] /\ NamesAreUnique'
       /\ \A j \in Inode : inodes[j].used => inodes'[j].used
  <2>1. inodes[old.inode].used /\ new.name = inodes[old.inode].name /\ new.used = TRUE
    BY <1>10, <1>11 DEF inode
  <2> QED BY <1>3, <1>4, <1>10, <2>1, InodeStep, Zenon
<1>13. fd \in Desc /\ fd.inode = old.inode
  BY <1>4, <1>7 DEF Desc
<1>14. fds' = [fds EXCEPT ![p][d] = fd]
  BY <1>2 DEF old
<1> HIDE DEF fd
<1> QED BY <1>2, <1>12, <1>13, <1>14, DescStep, Zenon DEF old

LEMMA UnlinkStep ==
  ASSUME FsInv, NEW p \in alive, NEW name \in Name, fs_unlink(p, name)
  PROVE  FsInv'
<1>1. fds \in [Proc -> [Fd -> Desc]] /\ inodes \in [Inode -> InodeRecord] /\ alive \subseteq Proc
  BY DEF FsInv, TablesOK
<1>2. PICK i \in find_inode_by_name(name) :
        /\ fds' = [q \in Proc |-> [d \in Fd |->
             IF d \in EndedFd(p, q, i) THEN [fds[q][d] EXCEPT !.used = FALSE] ELSE fds[q][d]]]
        /\ inodes' = [inodes EXCEPT ![i] = NoInode]
        /\ UNCHANGED alive
  BY Zenon DEF fs_unlink
<1>3. i \in Inode
  BY DEF find_inode_by_name
<1>4. /\ inodes' \in [Inode -> InodeRecord]
      /\ inodes'[i] = NoInode /\ \A j \in Inode : j # i => inodes'[j] = inodes[j]
  BY <1>1, <1>2, <1>3, Constants
<1>5. ASSUME NEW q \in Proc, NEW d \in Fd
      PROVE  /\ fds'[q][d] \in Desc
             /\ fds'[q][d].used => fds'[q][d] = fds[q][d] /\ fds[q][d].inode # i
  <2>1. fds[q][d] \in Desc
    BY <1>1
  <2>2. CASE d \in EndedFd(p, q, i)
    <3>1. fds'[q][d] = [fds[q][d] EXCEPT !.used = FALSE]
      BY <1>2, <2>2
    <3> QED BY <2>1, <3>1, Zenon DEF Desc
  <2>3. CASE d \notin EndedFd(p, q, i)
    <3>1. fds'[q][d] = fds[q][d]
      BY <1>2, <2>3
    <3> QED BY <2>1, <2>3, <3>1, Zenon DEF EndedFd, get_open_fd
  <2> QED BY <2>2, <2>3, Zenon
<1>6. fds' \in [Proc -> [Fd -> Desc]]
  <2>1. fds' = [q \in Proc |-> [d \in Fd |-> fds'[q][d]]]
    BY <1>2
  <2> QED BY <1>5, <2>1
<1>7. NamesAreUnique'
  BY <1>4, Constants DEF FsInv, NamesAreUnique
<1>8. DescriptorsAreLive'
  <2> SUFFICES ASSUME NEW q \in Proc, NEW d \in Fd, fds'[q][d].used
               PROVE  q \in alive /\ inodes'[fds'[q][d].inode].used
    BY <1>2 DEF DescriptorsAreLive
  <2>1. fds'[q][d] = fds[q][d] /\ fds[q][d].inode # i /\ fds[q][d].inode \in Inode
    BY <1>5, Zenon DEF Desc
  <2> QED BY <1>4, <2>1 DEF FsInv, DescriptorsAreLive
<1> QED BY <1>2, <1>4, <1>6, <1>7, <1>8 DEF FsInv, TablesOK

LEMMA RenameStep ==
  ASSUME FsInv, NEW old \in Name, NEW new \in Name, fs_rename(old, new)
  PROVE  FsInv'
<1>1. fds \in [Proc -> [Fd -> Desc]] /\ inodes \in [Inode -> InodeRecord] /\ alive \subseteq Proc
  BY DEF FsInv, TablesOK
<1>2. PICK i \in find_inode_by_name(old) : inodes' = [inodes EXCEPT ![i].name = new]
  BY Zenon DEF fs_rename
<1>3. UNCHANGED <<fds, alive>> /\ \A j \in Inode : inodes[j].used => inodes[j].name # new
  BY DEF fs_rename, MayRename, find_inode_by_name
<1> DEFINE r == [inodes[i] EXCEPT !.name = new]
<1>4. i \in Inode /\ inodes[i].used /\ inodes' = [inodes EXCEPT ![i] = r]
  BY <1>2 DEF find_inode_by_name
<1>5. r \in InodeRecord /\ r.used = TRUE /\ r.name = new
  <2>1. inodes[i] \in InodeRecord
    BY <1>1, <1>4
  <2> QED BY <1>4, <2>1 DEF InodeRecord
<1> HIDE DEF r
<1>6. /\ inodes' \in [Inode -> InodeRecord] /\ NamesAreUnique'
      /\ \A j \in Inode : inodes[j].used => inodes'[j].used
  BY <1>3, <1>4, <1>5, InodeStep, Zenon
<1>7. \A q \in Proc, d \in Fd : fds[q][d].inode \in Inode
  BY <1>1 DEF Desc
<1>8. DescriptorsAreLive'
  BY <1>3, <1>6, <1>7, Zenon DEF FsInv, DescriptorsAreLive
<1> QED BY <1>3, <1>6, <1>8 DEF FsInv, TablesOK

LEMMA CreateStep ==
  ASSUME FsInv, NEW p \in Proc, create_process(p)
  PROVE  FsInv'
<1> DEFINE none == [d \in Fd |-> NoDesc]
<1>1. fds \in [Proc -> [Fd -> Desc]] /\ alive \subseteq Proc
  BY DEF FsInv, TablesOK
<1>2. fds' = [fds EXCEPT ![p] = none] /\ alive' = alive \cup {p} /\ UNCHANGED inodes
  BY DEF create_process
<1>3. none \in [Fd -> Desc] /\ \A d \in Fd : none[d].used = FALSE
  BY Constants
<1> HIDE DEF none
<1>4. /\ fds' \in [Proc -> [Fd -> Desc]] /\ fds'[p] = none
      /\ \A q \in Proc : q # p => fds'[q] = fds[q]
  BY <1>1, <1>2, <1>3
<1>5. \A q \in Proc, d \in Fd : fds'[q][d].used => q \in alive' /\ inodes[fds'[q][d].inode].used
  BY <1>2, <1>3, <1>4 DEF FsInv, DescriptorsAreLive
<1> QED BY <1>1, <1>2, <1>4, <1>5, FdsStep, Zenon

LEMMA ForkStep ==
  ASSUME FsInv, NEW p \in alive, NEW c \in Proc, proc_fork(p, c)
  PROVE  FsInv'
<1>1. fds \in [Proc -> [Fd -> Desc]] /\ alive \subseteq Proc /\ p \in Proc
  BY DEF FsInv, TablesOK
<1>2. fds' = [fds EXCEPT ![c] = fds[p]] /\ alive' = alive \cup {c} /\ UNCHANGED inodes
  BY DEF proc_fork
<1>4. \A q \in Proc, d \in Fd : fds'[q][d].used => q \in alive' /\ inodes[fds'[q][d].inode].used
  BY <1>1, <1>2, Zenon DEF FsInv, DescriptorsAreLive
<1> QED BY <1>1, <1>2, <1>4, FdsStep, Zenon

LEMMA ExitStep ==
  ASSUME FsInv, NEW p \in alive, proc_exit(p)
  PROVE  FsInv'
<1> DEFINE closed == [d \in Fd |-> IF fds[p][d].used THEN NoDesc ELSE fds[p][d]]
<1>1. fds \in [Proc -> [Fd -> Desc]] /\ alive \subseteq Proc /\ p \in Proc
  BY DEF FsInv, TablesOK
<1>2. fds' = [fds EXCEPT ![p] = closed] /\ alive' = alive \ {p} /\ UNCHANGED inodes
  BY DEF proc_exit
<1>3. closed \in [Fd -> Desc] /\ \A d \in Fd : ~closed[d].used
  BY <1>1, Constants
<1> HIDE DEF closed
<1>4. /\ fds' \in [Proc -> [Fd -> Desc]] /\ fds'[p] = closed
      /\ \A q \in Proc : q # p => fds'[q] = fds[q]
  BY <1>1, <1>2, <1>3
<1>5. \A q \in Proc, d \in Fd : fds'[q][d].used => q \in alive' /\ inodes[fds'[q][d].inode].used
  BY <1>2, <1>3, <1>4 DEF FsInv, DescriptorsAreLive
<1> QED BY <1>1, <1>2, <1>4, <1>5, FdsStep

LEMMA FsNextInv == FsInv /\ [FsNext]_fs_vars => FsInv'
<1> SUFFICES ASSUME FsInv, [FsNext]_fs_vars PROVE FsInv'
  OBVIOUS
<1>1. ASSUME NEW p \in alive, NEW name \in Name, NEW flags \in OpenFlags, fs_open(p, name, flags) PROVE FsInv'
  BY <1>1, OpenStep
<1>2. ASSUME NEW p \in alive, NEW d \in Fd, fs_close(p, d) PROVE FsInv'
  BY <1>2, CloseStep
<1>3. ASSUME NEW p \in alive, NEW d \in Fd, NEW len \in 0 .. MaxLen, fs_read(p, d, len) PROVE FsInv'
  BY <1>3, ReadStep
<1>4. ASSUME NEW p \in alive, NEW d \in Fd, NEW bytes \in Bytes, fs_write(p, d, bytes) PROVE FsInv'
  BY <1>4, WriteStep
<1>5. ASSUME NEW p \in alive, NEW name \in Name, fs_unlink(p, name) PROVE FsInv'
  BY <1>5, UnlinkStep
<1>6. ASSUME NEW old \in Name, NEW new \in Name, fs_rename(old, new) PROVE FsInv'
  BY <1>6, RenameStep
<1>7. ASSUME NEW p \in Proc, create_process(p) PROVE FsInv'
  BY <1>7, CreateStep
<1>8. ASSUME NEW p \in alive, NEW c \in Proc, proc_fork(p, c) PROVE FsInv'
  BY <1>8, ForkStep
<1>9. ASSUME NEW p \in alive, proc_exit(p) PROVE FsInv'
  BY <1>9, ExitStep
<1>10. CASE UNCHANGED fs_vars
  BY <1>10 DEF fs_vars, FsInv, TablesOK, NamesAreUnique, DescriptorsAreLive
<1> QED BY <1>1, <1>2, <1>3, <1>4, <1>5, <1>6, <1>7, <1>8, <1>9, <1>10 DEF FsNext

(* The inductive invariant holds in every state.                           *)
THEOREM RamFsInvariance == FsSpec => []FsInv
BY FsInitInv, FsNextInv, PTL DEF FsSpec

(* No two files have one name, however files are created, renamed and      *)
(* unlinked and whatever is left of the table.                             *)
THEOREM NamesStayUnique == FsSpec => []NamesAreUnique
<1>1. FsInv => NamesAreUnique
  BY DEF FsInv
<1> QED BY <1>1, RamFsInvariance, PTL

(* No process keeps an open descriptor of a file that was unlinked, by     *)
(* whichever process and after whatever forks and exits.                   *)
THEOREM DescriptorsStayLive == FsSpec => []DescriptorsAreLive
<1>1. FsInv => DescriptorsAreLive
  BY DEF FsInv
<1> QED BY <1>1, RamFsInvariance, PTL
=============================================================================
