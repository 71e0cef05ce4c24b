----------------------------- MODULE TrapProofs -----------------------------
(***************************************************************************)
(* Proofs about Trap for every set of processes.  The inductive invariant  *)
(* says what can be on each kernel stack: on the stacks that nobody runs   *)
(* on (Parked), and on the one that the hart uses (KernelRun, UserRun).    *)
(***************************************************************************)
EXTENDS Trap, TLAPS

AnyFrame == TrapFrame \cup SwitchFrame

(* The status that a trap in S-mode saves: of an interrupt of a kernel     *)
(* process, and of a page fault in a system call.                          *)
IrqStatus == [SIE |-> FALSE, SPIE |-> TRUE, SPP |-> "S", SUM |-> FALSE]
FaultStatus == [SIE |-> FALSE, SPIE |-> FALSE, SPP |-> "S", SUM |-> TRUE]

(* A frame of a trap from U-mode, and of one from kernel code on stack r.  *)
FromUser(f) == f.kind = "trap" /\ f.sstatus = UserStatus
FromKernel(f, r, cause, st) ==
  /\ f.kind = "trap" /\ f.cause = cause /\ f.sstatus = st
  /\ f.regs.sp = r /\ f.regs.pc = 0

Saved(f, ra, sie, sum) ==
  f.kind = "switch" /\ f.ra = ra /\ f.sstatus.SIE = sie /\ f.sstatus.SUM = sum

(* The stack s of a process p in state st that the hart does not run on:   *)
(* unused; a kernel process in its yield; a user process that has not run; *)
(* one that was switched away in a system call; a dead one.                *)
Parked(p, st, s) ==
  \/ p \in Users /\ st = "unused" /\ Len(s) = 0
  \/ p \in Kernels /\ st = "live" /\ Len(s) = 1 /\ Saved(s[1], "kernel", TRUE, FALSE)
  \/ p \in Users /\ st = "live" /\ Len(s) = 1 /\ Saved(s[1], "resume", FALSE, FALSE)
  \/ /\ p \in Users /\ st = "live" /\ Len(s) = 2
     /\ FromUser(s[1]) /\ s[1].cause = "ecall" /\ Saved(s[2], "kernel", FALSE, TRUE)
  \/ /\ p \in Users /\ st = "zombie" /\ Len(s) <= 3
     /\ \A i \in 1 .. Len(s) : s[i].kind = "trap" => s[i].sstatus.SIE = FALSE

(* The hart runs on the stack s of a kernel process r: in its code, or in  *)
(* an interrupt of it.                                                     *)
KernelRun(r, k, sst, scr, s) ==
  /\ k = 0 /\ scr = Zero /\ sst.SUM = FALSE
  /\ \/ Len(s) = 0 /\ sst.SIE = TRUE
     \/ Len(s) = 1 /\ sst.SIE = FALSE /\ FromKernel(s[1], r, "irq", IrqStatus)

(* The hart runs on the stack s of a user process r: in                    *)
(* arch_resume_from_trap, in a trap, or in a page fault of a system call.  *)
(* After a yield() another process cur is current.                         *)
UserRun(r, cur, st, k, sst, scr, s) ==
  /\ sst.SIE = FALSE
  /\ cur = r => st = "live"
  /\ \/ /\ k = 1 /\ cur = r /\ Len(s) = 0
        /\ (scr = Zero /\ sst.SUM = FALSE) \/ (scr = r /\ sst = UserStatus)
     \/ /\ k = 0 /\ scr = Zero /\ Len(s) = 1 /\ FromUser(s[1])
        /\ sst.SUM = (s[1].cause = "ecall")
        /\ cur # r => s[1].cause # "irq" /\ (st = "zombie" \/ (st = "live" /\ s[1].cause = "ecall"))
     \/ /\ k = 0 /\ scr = Zero /\ Len(s) = 2 /\ FromUser(s[1]) /\ s[1].cause = "ecall"
        /\ FromKernel(s[2], r, "fault", FaultStatus) /\ sst.SUM = TRUE
        /\ cur # r => st = "zombie"

Runner == IF mode = "U" THEN current_proc ELSE regs.sp

UserMode ==
  /\ current_proc \in Users /\ sscratch = current_proc /\ Len(stack[current_proc]) = 0
  /\ sstatus.SIE = TRUE /\ sstatus.SUM = FALSE

KernelMode ==
  /\ regs.sp \in Proc
  /\ regs.sp \in Kernels => KernelRun(regs.sp, regs.pc, sstatus, sscratch, stack[regs.sp])
  /\ regs.sp \in Users =>
       UserRun(regs.sp, current_proc, state[regs.sp], regs.pc, sstatus, sscratch, stack[regs.sp])

IInv ==
  /\ TypeOK
  /\ state[current_proc] = "live"
  /\ \A p \in Kernels : state[p] = "live"
  /\ \A p \in Users : state[p] = "live" => trap_frame[p].sstatus = UserStatus
  /\ \A p \in Proc : p # Runner => Parked(p, state[p], stack[p])
  /\ mode = "U" => UserMode
  /\ mode = "S" => KernelMode

----------------------------------------------------------------------------
(* Stacks.                                                                 *)

LEMMA StackFacts ==
  ASSUME NEW s \in Seq(AnyFrame)
  PROVE  /\ Len(s) \in Nat
         /\ s = <<>> <=> Len(s) = 0
         /\ \A i \in 1 .. Len(s) : s[i] \in AnyFrame
OBVIOUS

LEMMA PushFacts ==
  ASSUME NEW s \in Seq(AnyFrame), NEW f \in AnyFrame
  PROVE  /\ Push(s, f) \in Seq(AnyFrame)
         /\ Len(Push(s, f)) = Len(s) + 1
         /\ Push(s, f)[Len(s) + 1] = f
         /\ \A i \in 1 .. Len(s) : Push(s, f)[i] = s[i]
BY DEF Push

LEMMA FrontLemma ==
  ASSUME NEW S, NEW s \in Seq(S), NEW n \in Nat, n < Len(s)
  PROVE  /\ SubSeq(s, 1, n) \in Seq(S)
         /\ Len(SubSeq(s, 1, n)) = n
         /\ \A i \in 1 .. n : SubSeq(s, 1, n)[i] = s[i]
<1>1. SubSeq(s, 1, n) \in Seq(S)
  OBVIOUS
<1>2. Len(SubSeq(s, 1, n)) = n
  OBVIOUS
<1>3. \A i \in 1 .. n : SubSeq(s, 1, n)[i] = s[i]
  OBVIOUS
<1> QED BY <1>1, <1>2, <1>3

LEMMA PopFacts ==
  ASSUME NEW s \in Seq(AnyFrame), Len(s) > 0
  PROVE  /\ Pop(s) \in Seq(AnyFrame)
         /\ Len(Pop(s)) = Len(s) - 1
         /\ \A i \in 1 .. Len(s) - 1 : Pop(s)[i] = s[i]
<1>1. Len(s) - 1 \in Nat /\ Len(s) - 1 < Len(s)
  OBVIOUS
<1> QED BY <1>1, FrontLemma, Zenon DEF Pop

LEMMA OneFrame ==
  ASSUME NEW f \in AnyFrame
  PROVE  <<f>> \in Seq(AnyFrame) /\ Len(<<f>>) = 1 /\ <<f>>[1] = f
OBVIOUS

(* The type invariant, with frames as one set.                             *)
LEMMA TypeFacts ==
  ASSUME TypeOK
  PROVE  /\ state \in [Proc -> {"unused", "live", "zombie"}]
         /\ current_proc \in Proc /\ mode \in {"U", "S"} /\ regs \in Regs /\ sstatus \in Status
         /\ sscratch \in Proc \cup {Zero}
         /\ stack \in [Proc -> Seq(AnyFrame)]
         /\ \A p \in Proc : stack[p] \in Seq(AnyFrame)
         /\ trap_frame \in [Proc -> [regs : Regs, sstatus : Status]]
BY DEF TypeOK, AnyFrame

(* The initial state.                                                      *)
LEMMA InitIInv == Init => IInv
<1> SUFFICES ASSUME Init PROVE IInv
  OBVIOUS
<1>1. /\ Idle \in Proc /\ Kernels \subseteq Proc /\ Users \subseteq Proc
      /\ Zero \in Address /\ Proc \subseteq Address /\ 0 \in Word
  BY TrapAssumption DEF Proc, Address
<1>2. BootStatus \in Status /\ BootStatus.SIE = TRUE /\ BootStatus.SUM = FALSE
  BY DEF BootStatus, Status
<1>3. KernelRegs(Idle) \in Regs /\ KernelRegs(Idle).sp = Idle /\ KernelRegs(Idle).pc = 0
  BY <1>1 DEF KernelRegs, Regs
<1>4. Cleared \in [regs : Regs, sstatus : Status]
  BY <1>1 DEF Cleared, Regs, Status
<1>5. \A p \in Kernels : /\ arch_init_switch_context(p, BootStatus) \in AnyFrame
                         /\ Saved(arch_init_switch_context(p, BootStatus), "kernel", TRUE, FALSE)
  BY TrapAssumption, Zenon DEF arch_init_switch_context, Switch, AnyFrame, SwitchFrame, BootStatus, Status, Saved
<1>6. \A p \in Proc : stack[p] \in Seq(AnyFrame)
  <2>1. <<>> \in Seq(AnyFrame)
    OBVIOUS
  <2> QED BY <1>5, <2>1, OneFrame, Zenon DEF Init
<1>7. TypeOK
  BY <1>1, <1>2, <1>3, <1>4, <1>6 DEF Init, TypeOK, AnyFrame
<1>8. \A p \in Proc : p # Idle => Parked(p, state[p], stack[p])
  BY <1>5, OneFrame, StackFacts, Zenon DEF Init, Parked, Proc
<1>9. KernelMode
  BY <1>1, <1>2, <1>3, TrapAssumption DEF Init, KernelMode, KernelRun
<1> QED
  BY <1>1, <1>3, <1>7, <1>8, <1>9, TrapAssumption DEF Init, IInv, Runner

----------------------------------------------------------------------------
(* Facts about a state of the invariant.                                   *)
LEMMA IInvFacts ==
  ASSUME IInv
  PROVE  /\ state \in [Proc -> {"unused", "live", "zombie"}]
         /\ current_proc \in Proc /\ mode \in {"U", "S"} /\ regs \in Regs /\ sstatus \in Status
         /\ sscratch \in Proc \cup {Zero}
         /\ stack \in [Proc -> Seq(AnyFrame)]
         /\ \A p \in Proc : stack[p] \in Seq(AnyFrame)
         /\ trap_frame \in [Proc -> [regs : Regs, sstatus : Status]]
         /\ state[current_proc] = "live"
         /\ \A p \in Kernels : state[p] = "live"
         /\ \A p \in Users : state[p] = "live" => trap_frame[p].sstatus = UserStatus
BY TypeFacts DEF IInv

LEMMA ConstantFacts ==
  /\ Users \subseteq Proc /\ Kernels \subseteq Proc /\ Proc \subseteq Address
  /\ \A p \in Proc : p \in Users <=> p \notin Kernels
  /\ Zero \notin Proc /\ UserStack \notin Proc /\ Zero \in Address /\ UserStack \in Address
  /\ 0 \in Word /\ 1 \in Word /\ Idle \in Kernels
BY TrapAssumption DEF Proc, Address

LEMMA StatusFacts ==
  /\ UserStatus \in Status /\ IrqStatus \in Status /\ FaultStatus \in Status
  /\ Returned(UserStatus).SIE = TRUE /\ Returned(UserStatus).SUM = FALSE
  /\ Returned(IrqStatus).SIE = TRUE /\ Returned(IrqStatus).SUM = FALSE
  /\ Returned(FaultStatus).SIE = FALSE /\ Returned(FaultStatus).SUM = TRUE
  /\ UserStatus.SPP = "U" /\ IrqStatus.SPP = "S" /\ FaultStatus.SPP = "S"
  /\ UserStatus.SIE = FALSE /\ UserStatus.SUM = FALSE
  /\ \A st \in Status : Returned(st) \in Status
BY DEF UserStatus, IrqStatus, FaultStatus, Returned, Status

LEMMA KernelRegsFacts ==
  ASSUME NEW p \in Proc
  PROVE  KernelRegs(p) \in Regs /\ KernelRegs(p).sp = p /\ KernelRegs(p).pc = 0
BY ConstantFacts DEF KernelRegs, Regs

(* What a trap frame made by kernel_entry is, from U-mode and from S-mode. *)
LEMMA FrameFromUser ==
  ASSUME IInv, mode = "U", NEW cause \in Cause
  PROVE  /\ Frame(cause) \in TrapFrame
         /\ FromUser(Frame(cause)) /\ Frame(cause).cause = cause
         /\ Trapped(sstatus) = UserStatus
         /\ EntryStack = current_proc /\ EntryBelow = <<>>
<1>1. /\ sscratch = current_proc /\ sscratch # Zero /\ current_proc \in Proc
      /\ sstatus.SIE = TRUE /\ sstatus.SUM = FALSE /\ regs \in Regs
  BY IInvFacts, ConstantFacts, Zenon DEF IInv, UserMode
<1>2. EntryStack = current_proc /\ EntryBelow = <<>>
  BY <1>1 DEF EntryStack, EntryBelow
<1>3. Trapped(sstatus) = UserStatus
  BY <1>1, Zenon DEF Trapped, UserStatus
<1>4. SavedSp \in Address
  BY <1>1, <1>2, ConstantFacts DEF SavedSp, Regs
<1>5. [regs EXCEPT !.sp = SavedSp] \in Regs
  BY <1>1, <1>4 DEF Regs
<1> QED BY <1>2, <1>3, <1>5, StatusFacts DEF Frame, TrapFrame, FromUser

LEMMA FrameFromKernel ==
  ASSUME IInv, mode = "S", sscratch = Zero, regs.sp \in Proc, regs.pc = 0,
         NEW cause \in Cause, NEW st \in Status, Trapped(sstatus) = st
  PROVE  /\ Frame(cause) \in TrapFrame
         /\ FromKernel(Frame(cause), regs.sp, cause, st)
         /\ EntryStack = regs.sp /\ EntryBelow = stack[regs.sp]
<1>1. EntryStack = regs.sp /\ EntryBelow = stack[regs.sp] /\ SavedSp = regs.sp
  BY DEF EntryStack, EntryBelow, SavedSp
<1>2. regs \in Regs
  BY IInvFacts
<1>3. [regs EXCEPT !.sp = SavedSp] = regs
  BY <1>1, <1>2 DEF Regs
<1> QED BY <1>1, <1>2, <1>3 DEF Frame, TrapFrame, FromKernel

(* A step that leaves the states of processes, and the stacks of all but   *)
(* one, as they are.                                                       *)
LEMMA OthersStayParked ==
  ASSUME IInv, NEW r \in Proc, r = Runner, state' = state,
         \A p \in Proc : p # r => stack'[p] = stack[p]
  PROVE  \A p \in Proc : p # r => Parked(p, state'[p], stack'[p])
BY DEF IInv

(* A user program computes.                                                *)
LEMMA ComputeStep ==
  ASSUME IInv, NEW v \in Word, NEW s \in {Zero, UserStack}, compute(v, s)
  PROVE  IInv'
<1>1. regs' \in Regs
  BY IInvFacts, ConstantFacts, Zenon DEF compute, Regs
<1> QED BY <1>1 DEF compute, IInv, TypeOK, Runner, UserMode

(* A trap from U-mode.                                                     *)
LEMMA EntryFromUser ==
  ASSUME IInv, mode = "U", NEW f \in TrapFrame, FromUser(f), kernel_entry(f),
         trap_frame' \in [Proc -> [regs : Regs, sstatus : Status]],
         \A p \in Users : state[p] = "live" => trap_frame'[p].sstatus = UserStatus,
         sstatus' \in Status, sstatus'.SIE = FALSE, sstatus'.SUM = (f.cause = "ecall")
  PROVE  IInv'
<1> DEFINE r == current_proc
<1>1. r \in Users /\ r \in Proc /\ r = Runner /\ EntryStack = r /\ EntryBelow = <<>>
  BY IInvFacts, FrameFromUser, Zenon DEF IInv, UserMode, Runner, Cause
<1>2. /\ stack' = [stack EXCEPT ![r] = Push(<<>>, f)] /\ regs' = KernelRegs(r) /\ mode' = "S"
      /\ sscratch' = Zero /\ state' = state /\ current_proc' = r
  BY <1>1 DEF kernel_entry
<1> HIDE DEF r
<1>3. /\ stack' \in [Proc -> Seq(AnyFrame)] /\ Len(stack'[r]) = 1 /\ stack'[r][1] = f
      /\ \A p \in Proc : p # r => stack'[p] = stack[p]
  <2>1. <<>> \in Seq(AnyFrame) /\ Len(<<>>) = 0 /\ f \in AnyFrame
    BY DEF AnyFrame
  <2>2. Push(<<>>, f) \in Seq(AnyFrame) /\ Len(Push(<<>>, f)) = 1 /\ Push(<<>>, f)[1] = f
    BY <2>1 DEF Push
  <2> QED BY <1>1, <1>2, <2>2, IInvFacts
<1>4. TypeOK'
  BY <1>1, <1>2, <1>3, IInvFacts, KernelRegsFacts DEF TypeOK, AnyFrame
<1>5. \A p \in Proc : p # r => Parked(p, state'[p], stack'[p])
  BY <1>1, <1>2, <1>3, OthersStayParked
<1>6. UserRun(r, r, state'[r], 0, sstatus', Zero, stack'[r])
  BY <1>2, <1>3, IInvFacts DEF UserRun, r
<1>7. regs'.sp = r /\ regs'.pc = 0 /\ r \notin Kernels
  BY <1>1, <1>2, KernelRegsFacts, ConstantFacts
<1>8. KernelMode'
  BY <1>1, <1>2, <1>6, <1>7 DEF KernelMode
<1>9. Runner' = r
  BY <1>2, <1>7 DEF Runner
<1>10. state'[current_proc'] = "live" /\ \A p \in Kernels : state'[p] = "live"
  BY <1>2, IInvFacts DEF r
<1> QED BY <1>2, <1>4, <1>5, <1>8, <1>9, <1>10 DEF IInv

LEMMA EcallStep == IInv /\ ecall => IInv'
<1> SUFFICES ASSUME IInv, ecall PROVE IInv'
  OBVIOUS
<1> DEFINE g == Frame("ecall")
           f == [g EXCEPT !.regs.pc = 1 - @]
<1>1. /\ mode = "U" /\ kernel_entry(f)
      /\ trap_frame' = [trap_frame EXCEPT ![current_proc] = [regs |-> f.regs, sstatus |-> f.sstatus]]
      /\ sstatus' = [Trapped(sstatus) EXCEPT !.SUM = TRUE]
  BY DEF ecall
<1>2. g \in TrapFrame /\ FromUser(g) /\ g.cause = "ecall" /\ Trapped(sstatus) = UserStatus
  BY <1>1, FrameFromUser DEF Cause
<1> HIDE DEF g
<1>3. f \in TrapFrame /\ FromUser(f) /\ f.cause = "ecall"
  BY <1>2 DEF TrapFrame, FromUser, Regs
<1> HIDE DEF f
<1>4. f.regs \in Regs /\ f.sstatus = UserStatus
  BY <1>3 DEF FromUser, TrapFrame
<1>5. /\ trap_frame' \in [Proc -> [regs : Regs, sstatus : Status]]
      /\ \A p \in Users : state[p] = "live" => trap_frame'[p].sstatus = UserStatus
  BY <1>1, <1>4, IInvFacts, StatusFacts, ConstantFacts
<1>6. sstatus' \in Status /\ sstatus'.SIE = FALSE /\ sstatus'.SUM = TRUE
  <2>1. sstatus' = [UserStatus EXCEPT !.SUM = TRUE]
    BY <1>1, <1>2
  <2>2. sstatus' = [SIE |-> FALSE, SPIE |-> TRUE, SPP |-> "U", SUM |-> TRUE]
    BY <2>1, Zenon DEF UserStatus
  <2> QED BY <2>2 DEF Status
<1> QED BY <1>1, <1>3, <1>5, <1>6, EntryFromUser, Zenon

LEMMA UserTrapStep ==
  ASSUME IInv, mode = "U", NEW cause \in Cause \ {"ecall"}, Trap(cause)
  PROVE  IInv'
<1>1. /\ Frame(cause) \in TrapFrame /\ FromUser(Frame(cause)) /\ Frame(cause).cause # "ecall"
      /\ sstatus' = UserStatus /\ kernel_entry(Frame(cause)) /\ trap_frame' = trap_frame
  BY FrameFromUser DEF Trap
<1> QED BY <1>1, EntryFromUser, IInvFacts, StatusFacts, Zenon

(* A trap from S-mode stays on the stack of the code it interrupts.        *)
LEMMA EntryFromKernel ==
  ASSUME IInv, mode = "S", sscratch = Zero, regs.sp \in Proc, regs.pc = 0,
         NEW cause \in Cause, NEW st \in Status, Trapped(sstatus) = st, Trap(cause),
         NEW n \in 0 .. 1, Len(stack[regs.sp]) = n
  PROVE  /\ TypeOK' /\ mode' = "S" /\ regs'.sp = regs.sp /\ regs'.pc = 0 /\ sscratch' = Zero
         /\ state' = state /\ current_proc' = current_proc /\ trap_frame' = trap_frame
         /\ sstatus' = st
         /\ Len(stack'[regs.sp]) = n + 1
         /\ FromKernel(stack'[regs.sp][n + 1], regs.sp, cause, st)
         /\ (n = 1 => stack'[regs.sp][1] = stack[regs.sp][1])
         /\ \A p \in Proc : p # regs.sp => Parked(p, state'[p], stack'[p])
<1> DEFINE r == regs.sp
           f == Frame(cause)
<1>1. f \in TrapFrame /\ FromKernel(f, r, cause, st) /\ EntryStack = r /\ EntryBelow = stack[r]
  BY FrameFromKernel
<1>2. /\ stack' = [stack EXCEPT ![r] = Push(stack[r], f)] /\ regs' = KernelRegs(r) /\ mode' = "S"
      /\ sscratch' = Zero /\ state' = state /\ current_proc' = current_proc
      /\ trap_frame' = trap_frame /\ sstatus' = st
  BY <1>1 DEF kernel_entry, Trap
<1>3. r \in Proc /\ r = Runner /\ Len(stack[r]) = n
  BY DEF Runner
<1> HIDE DEF r, f
<1>4. stack[r] \in Seq(AnyFrame) /\ f \in AnyFrame
  BY <1>1, <1>3, IInvFacts DEF AnyFrame
<1>5. /\ Push(stack[r], f) \in Seq(AnyFrame) /\ Len(Push(stack[r], f)) = n + 1
      /\ Push(stack[r], f)[n + 1] = f
      /\ (n = 1 => Push(stack[r], f)[1] = stack[r][1])
  <2> DEFINE s == stack[r]
  <2>1. s \in Seq(AnyFrame) /\ Len(s) = n
    BY <1>3, <1>4
  <2> HIDE DEF s
  <2>2. /\ Push(s, f) \in Seq(AnyFrame) /\ Len(Push(s, f)) = n + 1
        /\ Push(s, f)[n + 1] = f /\ \A i \in 1 .. n : Push(s, f)[i] = s[i]
    <3>1. \A g \in AnyFrame : /\ Push(s, g) \in Seq(AnyFrame) /\ Len(Push(s, g)) = Len(s) + 1
                              /\ Push(s, g)[Len(s) + 1] = g
                              /\ \A i \in 1 .. Len(s) : Push(s, g)[i] = s[i]
      BY <2>1, PushFacts, Zenon
    <3> QED BY <1>4, <2>1, <3>1
  <2>3. n = 1 => Push(s, f)[1] = s[1]
    BY <2>2
  <2> QED BY <2>2, <2>3 DEF s
<1>6. /\ stack' \in [Proc -> Seq(AnyFrame)] /\ stack'[r] = Push(stack[r], f)
      /\ \A p \in Proc : p # r => stack'[p] = stack[p]
  BY <1>2, <1>3, <1>5, IInvFacts
<1>7. TypeOK'
  BY <1>2, <1>3, <1>6, IInvFacts, KernelRegsFacts DEF TypeOK, AnyFrame
<1>8. \A p \in Proc : p # r => Parked(p, state'[p], stack'[p])
  BY <1>2, <1>3, <1>6, OthersStayParked
<1>9. regs'.sp = r /\ regs'.pc = 0
  BY <1>2, <1>3, KernelRegsFacts
<1> QED BY <1>1, <1>2, <1>5, <1>6, <1>7, <1>8, <1>9 DEF r

(* An interrupt of a kernel process, also between its choice of the next   *)
(* process and the switch.                                                 *)
LEMMA InterruptStep == IInv /\ interrupt => IInv'
<1> SUFFICES ASSUME IInv, interrupt, mode = "S" PROVE IInv'
  BY UserTrapStep, IInvFacts DEF interrupt, Cause
<1> DEFINE r == regs.sp
<1>1. r \in Proc /\ sstatus.SIE = TRUE /\ Trap("irq") /\ KernelMode
  BY IInvFacts DEF IInv, KernelMode, interrupt, Status
<1>2. r \in Kernels
  BY <1>1, ConstantFacts DEF KernelMode, UserRun
<1>3. regs.pc = 0 /\ sscratch = Zero /\ sstatus.SUM = FALSE /\ Len(stack[r]) = 0
  BY <1>1, <1>2 DEF KernelMode, KernelRun
<1>4. Trapped(sstatus) = IrqStatus
  BY <1>1, <1>3, Zenon DEF Trapped, IrqStatus
<1>5. /\ TypeOK' /\ mode' = "S" /\ regs'.sp = r /\ regs'.pc = 0 /\ sscratch' = Zero
      /\ state' = state /\ current_proc' = current_proc /\ trap_frame' = trap_frame
      /\ sstatus' = IrqStatus /\ Len(stack'[r]) = 1
      /\ FromKernel(stack'[r][1], r, "irq", IrqStatus)
      /\ \A p \in Proc : p # r => Parked(p, state'[p], stack'[p])
  BY <1>1, <1>3, <1>4, EntryFromKernel, StatusFacts DEF Cause
<1> HIDE DEF r
<1>6. KernelRun(r, 0, IrqStatus, Zero, stack'[r])
  BY <1>5 DEF KernelRun, IrqStatus
<1>7. KernelMode' /\ Runner' = r
  BY <1>1, <1>2, <1>5, <1>6, ConstantFacts DEF KernelMode, Runner
<1> QED BY <1>5, <1>7, IInvFacts DEF IInv

(* A page fault of a user program, or of a system call on its behalf.      *)
LEMMA PageFaultStep == IInv /\ page_fault => IInv'
<1> SUFFICES ASSUME IInv, page_fault, mode = "S" PROVE IInv'
  BY UserTrapStep, IInvFacts DEF page_fault, Cause
<1> DEFINE r == regs.sp
<1>1. /\ r \in Proc /\ Trap("fault") /\ KernelMode /\ r = current_proc /\ InSyscall
      /\ stack[r] \in Seq(AnyFrame) /\ sstatus \in Status
  BY IInvFacts DEF IInv, KernelMode, page_fault, InSyscall, Handles
<1>2. stack[r] # <<>> /\ stack[r][Len(stack[r])].cause = "ecall"
  BY <1>1 DEF InSyscall, Handles, Handled, Top
<1>3. Len(stack[r]) # 0
  BY <1>1, <1>2, StackFacts
<1>4. r \in Users
  BY <1>1, <1>2, <1>3, ConstantFacts DEF KernelMode, KernelRun, FromKernel
<1>5. UserRun(r, r, state[r], regs.pc, sstatus, sscratch, stack[r])
  BY <1>1, <1>4 DEF KernelMode
<1>6. /\ regs.pc = 0 /\ sscratch = Zero /\ Len(stack[r]) = 1 /\ FromUser(stack[r][1])
      /\ stack[r][1].cause = "ecall" /\ sstatus.SIE = FALSE /\ sstatus.SUM = TRUE
  BY <1>2, <1>3, <1>5, Zenon DEF UserRun, FromKernel
<1>7. Trapped(sstatus) = FaultStatus
  BY <1>6, Zenon DEF Trapped, FaultStatus
<1>8. /\ TypeOK' /\ mode' = "S" /\ regs'.sp = r /\ regs'.pc = 0 /\ sscratch' = Zero
      /\ state' = state /\ current_proc' = current_proc /\ trap_frame' = trap_frame
      /\ sstatus' = FaultStatus /\ Len(stack'[r]) = 2
      /\ FromKernel(stack'[r][2], r, "fault", FaultStatus) /\ stack'[r][1] = stack[r][1]
      /\ \A p \in Proc : p # r => Parked(p, state'[p], stack'[p])
  BY <1>1, <1>6, <1>7, EntryFromKernel, StatusFacts DEF Cause
<1>9. state'[r] = "live" /\ current_proc' = r
  BY <1>1, <1>8, IInvFacts
<1> HIDE DEF r
<1>10. UserRun(r, r, state'[r], 0, FaultStatus, Zero, stack'[r])
  BY <1>6, <1>8, <1>9 DEF UserRun, FaultStatus
<1>11. KernelMode' /\ Runner' = r
  BY <1>1, <1>4, <1>8, <1>9, <1>10, ConstantFacts DEF KernelMode, Runner
<1> QED BY <1>8, <1>11, IInvFacts DEF IInv

LEMMA ExceptionStep == IInv /\ exception => IInv'
BY UserTrapStep DEF exception, Cause

----------------------------------------------------------------------------
(* Where a handler or a process finds the hart.                            *)

LEMMA TopFacts ==
  ASSUME NEW s \in Seq(AnyFrame), Len(s) > 0
  PROVE  /\ Top(s) = s[Len(s)] /\ Top(s) \in AnyFrame /\ Handled(s) = Top(s).cause
         /\ Top(s).kind = "trap" => Top(s) \in TrapFrame
         /\ Top(s).kind = "switch" => Top(s) \in SwitchFrame
<1>1. s # <<>> /\ s[Len(s)] \in AnyFrame
  BY StackFacts
<1>2. Top(s) = s[Len(s)] /\ Handled(s) = Top(s).cause
  BY <1>1 DEF Top, Handled
<1> QED BY <1>1, <1>2 DEF AnyFrame, TrapFrame, SwitchFrame

LEMMA SyscallFacts ==
  ASSUME IInv, InSyscall
  PROVE  /\ mode = "S" /\ regs.sp = current_proc /\ Runner = current_proc
         /\ current_proc \in Users /\ current_proc \in Proc
         /\ regs.pc = 0 /\ sscratch = Zero /\ sstatus.SIE = FALSE /\ sstatus.SUM = TRUE
         /\ Len(stack[current_proc]) = 1 /\ Top(stack[current_proc]) = stack[current_proc][1]
         /\ stack[current_proc][1] \in TrapFrame
         /\ FromUser(stack[current_proc][1]) /\ stack[current_proc][1].cause = "ecall"
<1> DEFINE r == current_proc
           s == stack[r]
<1>1. /\ mode = "S" /\ regs.sp = r /\ Handled(s) = "ecall" /\ KernelMode
      /\ r \in Proc /\ s \in Seq(AnyFrame) /\ Runner = r
  BY IInvFacts DEF InSyscall, Handles, IInv, Runner
<1>2. s # <<>>
  BY <1>1 DEF Handled
<1>3. Len(s) > 0
  BY <1>1, <1>2, StackFacts
<1>4. s[Len(s)].cause = "ecall" /\ Top(s) = s[Len(s)]
  BY <1>1, <1>3, TopFacts
<1>5. r \in Users
  BY <1>1, <1>3, <1>4, ConstantFacts DEF KernelMode, KernelRun, FromKernel
<1>6. UserRun(r, r, state[r], regs.pc, sstatus, sscratch, s)
  BY <1>1, <1>5 DEF KernelMode
<1>7. /\ regs.pc = 0 /\ sscratch = Zero /\ Len(s) = 1 /\ FromUser(s[1])
      /\ s[1].cause = "ecall" /\ sstatus.SIE = FALSE /\ sstatus.SUM = TRUE
  <2>1. /\ regs.pc = 0 /\ sscratch = Zero /\ Len(s) = 1 /\ FromUser(s[1]) /\ sstatus.SIE = FALSE
        /\ sstatus.SUM = (s[1].cause = "ecall")
    BY <1>3, <1>4, <1>6 DEF UserRun, FromKernel
  <2>2. s[1].cause = "ecall"
    BY <1>4, <2>1
  <2> QED BY <2>1, <2>2, Zenon
<1>8. s[1] \in TrapFrame
  BY <1>1, <1>3, <1>4, <1>7, TopFacts DEF FromUser
<1> QED BY <1>1, <1>4, <1>5, <1>7, <1>8

LEMMA KernelProcessFacts ==
  ASSUME IInv, InKernelProcess
  PROVE  /\ mode = "S" /\ regs.sp = current_proc /\ Runner = current_proc
         /\ current_proc \in Kernels /\ current_proc \in Proc
         /\ regs.pc = 0 /\ sscratch = Zero /\ sstatus.SIE = TRUE /\ sstatus.SUM = FALSE
         /\ Len(stack[current_proc]) = 0
<1>1. /\ mode = "S" /\ regs.sp = current_proc /\ current_proc \in Kernels
      /\ stack[current_proc] = <<>> /\ KernelMode /\ current_proc \in Proc
  BY IInvFacts DEF InKernelProcess, IInv
<1>2. Len(stack[current_proc]) = 0
  BY <1>1
<1>3. KernelRun(current_proc, regs.pc, sstatus, sscratch, stack[current_proc])
  BY <1>1 DEF KernelMode
<1> QED BY <1>1, <1>2, <1>3 DEF KernelRun, Runner

(* The handler of a page fault or another exception of the current user    *)
(* process.                                                                *)
LEMMA FaultFacts ==
  ASSUME IInv, Handles({"fault", "other"})
  PROVE  /\ mode = "S" /\ regs.sp = current_proc /\ Runner = current_proc
         /\ current_proc \in Users /\ current_proc \in Proc
         /\ regs.pc = 0 /\ sscratch = Zero
         /\ FromUser(stack[current_proc][1])
         /\ sstatus.SIE = FALSE
         /\ \/ /\ Len(stack[current_proc]) = 1 /\ sstatus.SUM = FALSE
               /\ stack[current_proc][1].cause \in {"fault", "other"}
            \/ /\ Len(stack[current_proc]) = 2 /\ sstatus.SUM = TRUE
               /\ stack[current_proc][1].cause = "ecall"
               /\ FromKernel(stack[current_proc][2], current_proc, "fault", FaultStatus)
<1> DEFINE r == current_proc
           s == stack[r]
<1>1. /\ mode = "S" /\ regs.sp = r /\ Handled(s) \in {"fault", "other"} /\ KernelMode
      /\ r \in Proc /\ s \in Seq(AnyFrame) /\ Runner = r
  BY IInvFacts DEF Handles, IInv, Runner
<1>2. s # <<>>
  BY <1>1 DEF Handled
<1>3. Len(s) > 0
  BY <1>1, <1>2, StackFacts
<1>4. s[Len(s)].cause \in {"fault", "other"}
  BY <1>1, <1>3, TopFacts
<1>5. r \in Users
  BY <1>1, <1>3, <1>4, ConstantFacts DEF KernelMode, KernelRun, FromKernel
<1>6. UserRun(r, r, state[r], regs.pc, sstatus, sscratch, s)
  BY <1>1, <1>5 DEF KernelMode
<1>7. regs.pc = 0 /\ sscratch = Zero /\ FromUser(s[1]) /\ sstatus.SIE = FALSE
  BY <1>3, <1>4, <1>6 DEF UserRun
<1>8. CASE Len(s) = 1
  <2>1. s[1].cause \in {"fault", "other"} /\ sstatus.SUM = (s[1].cause = "ecall")
    BY <1>4, <1>6, <1>8 DEF UserRun
  <2> QED BY <1>1, <1>5, <1>7, <1>8, <2>1, Zenon
<1>9. CASE Len(s) # 1
  <2>1. Len(s) = 2 /\ sstatus.SUM = TRUE /\ s[1].cause = "ecall" /\ FromKernel(s[2], r, "fault", FaultStatus)
    BY <1>3, <1>6, <1>9 DEF UserRun
  <2> QED BY <1>1, <1>5, <1>7, <2>1
<1> QED BY <1>8, <1>9, Zenon

----------------------------------------------------------------------------
(* kernel_return to U-mode: the only frame of the current process's stack  *)
(* goes away.  Another process c may have been made meanwhile.             *)
LEMMA ReturnToUser ==
  ASSUME IInv, NEW r \in Users, r = current_proc, mode = "S", regs.sp = r,
         NEW f \in TrapFrame, f.sstatus = UserStatus,
         NEW stacks \in [Proc -> Seq(AnyFrame)], Len(stacks[r]) = 1,
         kernel_return(f, stacks),
         state' \in [Proc -> {"unused", "live", "zombie"}], state'[r] = "live",
         \A p \in Kernels : state'[p] = "live",
         trap_frame' \in [Proc -> [regs : Regs, sstatus : Status]],
         \A p \in Users : state'[p] = "live" => trap_frame'[p].sstatus = UserStatus,
         \A p \in Proc : p # r => Parked(p, state'[p], stacks[p])
  PROVE  IInv'
<1>1. r \in Proc /\ current_proc \in Proc /\ f.regs \in Regs
  BY ConstantFacts DEF TrapFrame
<1>2. /\ sstatus' = Returned(UserStatus) /\ mode' = "U" /\ sscratch' = r /\ regs' = f.regs
      /\ stack' = [stacks EXCEPT ![r] = Pop(stacks[r])] /\ current_proc' = r
  BY StatusFacts DEF kernel_return
<1>3. Pop(stacks[r]) \in Seq(AnyFrame) /\ Len(Pop(stacks[r])) = 0
  <2> DEFINE s == stacks[r]
  <2>1. s \in Seq(AnyFrame) /\ Len(s) = 1 /\ Len(s) > 0
    BY <1>1
  <2> HIDE DEF s
  <2>2. Pop(s) \in Seq(AnyFrame) /\ Len(Pop(s)) = Len(s) - 1
    BY <2>1, PopFacts, Zenon
  <2>3. Len(Pop(s)) = 0
    BY <2>1, <2>2
  <2> QED BY <2>2, <2>3 DEF s
<1>4. /\ stack' \in [Proc -> Seq(AnyFrame)] /\ Len(stack'[r]) = 0
      /\ \A p \in Proc : p # r => stack'[p] = stacks[p]
  BY <1>1, <1>2, <1>3
<1>5. sstatus' \in Status /\ sstatus'.SIE = TRUE /\ sstatus'.SUM = FALSE
  BY <1>2, StatusFacts
<1>6. TypeOK'
  BY <1>1, <1>2, <1>4, <1>5 DEF TypeOK, AnyFrame
<1>7. \A p \in Proc : p # r => Parked(p, state'[p], stack'[p])
  BY <1>4
<1>8. UserMode' /\ Runner' = r
  BY <1>2, <1>4, <1>5 DEF UserMode, Runner
<1> QED BY <1>2, <1>6, <1>7, <1>8 DEF IInv

(* kernel_return to the kernel code that was interrupted.                  *)
LEMMA ReturnToKernel ==
  ASSUME IInv, NEW r \in Proc, mode = "S", regs.sp = r, NEW n \in 0 .. 1,
         Len(stack[r]) = n + 1, NEW cause, NEW st \in Status, st.SPP = "S",
         FromKernel(stack[r][n + 1], r, cause, st),
         kernel_return(Top(stack[r]), stack), state' = state, trap_frame' = trap_frame
  PROVE  /\ TypeOK' /\ mode' = "S" /\ regs'.sp = r /\ regs'.pc = 0 /\ sscratch' = sscratch
         /\ current_proc' = current_proc /\ sstatus' = Returned(st)
         /\ Len(stack'[r]) = n
         /\ (n = 1 => stack'[r][1] = stack[r][1])
         /\ \A p \in Proc : p # r => Parked(p, state'[p], stack'[p])
<1> DEFINE s == stack[r]
           f == Top(s)
<1>1. s \in Seq(AnyFrame) /\ Len(s) = n + 1 /\ Len(s) > 0 /\ r = Runner
  BY IInvFacts DEF Runner
<1>2. stack' = [stack EXCEPT ![r] = Pop(s)]
  BY DEF kernel_return
<1>3. f = s[n + 1] /\ (f.kind = "trap" => f \in TrapFrame)
  BY <1>1, TopFacts
<1> HIDE DEF s
<1>4. /\ Pop(s) \in Seq(AnyFrame) /\ Len(Pop(s)) = Len(s) - 1
      /\ \A i \in 1 .. Len(s) - 1 : Pop(s)[i] = s[i]
  BY <1>1, PopFacts
<1>5. Len(Pop(s)) = n
  BY <1>1, <1>4
<1>6. n = 1 => Pop(s)[1] = s[1]
  BY <1>1, <1>4
<1>7. /\ stack' \in [Proc -> Seq(AnyFrame)] /\ stack'[r] = Pop(s)
      /\ \A p \in Proc : p # r => stack'[p] = stack[p]
  BY <1>2, <1>4, IInvFacts
<1>8. f \in TrapFrame /\ f.sstatus = st /\ f.regs.sp = r /\ f.regs.pc = 0 /\ f.regs \in Regs
  BY <1>3 DEF FromKernel, TrapFrame, s
<1> HIDE DEF f
<1>9. /\ sstatus' = Returned(st) /\ mode' = "S" /\ sscratch' = sscratch /\ regs' = f.regs
      /\ current_proc' = current_proc
  BY <1>8 DEF kernel_return, f, s
<1>10. TypeOK'
  BY <1>7, <1>8, <1>9, IInvFacts, StatusFacts DEF TypeOK, AnyFrame
<1>11. \A p \in Proc : p # r => Parked(p, state'[p], stack'[p])
  BY <1>1, <1>7, OthersStayParked
<1> QED BY <1>5, <1>6, <1>7, <1>8, <1>9, <1>10, <1>11 DEF s

(* The handler of an external interrupt returns, to a kernel process or to *)
(* the current user program.                                               *)
LEMMA ExternalInterruptStep == IInv /\ handle_external_interrupt => IInv'
<1> SUFFICES ASSUME IInv, handle_external_interrupt PROVE IInv'
  OBVIOUS
<1> DEFINE r == regs.sp
           s == stack[r]
<1>1. /\ mode = "S" /\ Handled(s) = "irq" /\ kernel_return(Top(s), stack) /\ KernelMode
      /\ state' = state /\ trap_frame' = trap_frame /\ r \in Proc /\ s \in Seq(AnyFrame)
  BY IInvFacts DEF handle_external_interrupt, IInv, KernelMode
<1>2. s # <<>>
  BY <1>1 DEF Handled
<1>3. Len(s) > 0
  BY <1>1, <1>2, StackFacts
<1>4. s[Len(s)].cause = "irq" /\ Top(s) = s[Len(s)] /\ (Top(s).kind = "trap" => Top(s) \in TrapFrame)
  BY <1>1, <1>3, TopFacts
<1>5. CASE r \in Kernels
  <2>1. KernelRun(r, regs.pc, sstatus, sscratch, s)
    BY <1>1, <1>5 DEF KernelMode
  <2>2. sscratch = Zero /\ Len(s) = 0 + 1 /\ FromKernel(s[0 + 1], r, "irq", IrqStatus)
    BY <1>3, <2>1 DEF KernelRun
  <2>3. /\ TypeOK' /\ mode' = "S" /\ regs'.sp = r /\ regs'.pc = 0 /\ sscratch' = sscratch
        /\ current_proc' = current_proc /\ sstatus' = Returned(IrqStatus) /\ Len(stack'[r]) = 0
        /\ \A p \in Proc : p # r => Parked(p, state'[p], stack'[p])
    BY <1>1, <2>2, ReturnToKernel, StatusFacts
  <2> HIDE DEF r
  <2>4. KernelRun(r, 0, sstatus', Zero, stack'[r])
    BY <2>3, StatusFacts DEF KernelRun
  <2>5. KernelMode' /\ Runner' = r
    BY <1>1, <1>5, <2>2, <2>3, <2>4, ConstantFacts DEF KernelMode, Runner
  <2> QED BY <1>1, <2>3, <2>5, IInvFacts DEF IInv
<1>6. CASE r \in Users
  <2>1. UserRun(r, current_proc, state[r], regs.pc, sstatus, sscratch, s)
    BY <1>1, <1>6 DEF KernelMode
  <2>2. Len(s) = 1 /\ FromUser(s[1]) /\ r = current_proc
    BY <1>3, <1>4, <2>1 DEF UserRun, FromKernel
  <2>3. Top(s) \in TrapFrame /\ Top(s).sstatus = UserStatus
    BY <1>4, <2>2 DEF FromUser
  <2>4. \A p \in Proc : p # r => Parked(p, state[p], stack[p])
    BY <1>1 DEF IInv, Runner
  <2> QED BY <1>1, <1>6, <2>2, <2>3, <2>4, ReturnToUser, IInvFacts, Zenon
<1> QED BY <1>1, <1>5, <1>6 DEF Proc

(* A page fault was handled: the user program goes on, or the system call. *)
LEMMA PageFaultReturnStep == IInv /\ proc_handle_user_page_fault => IInv'
<1> SUFFICES ASSUME IInv, proc_handle_user_page_fault PROVE IInv'
  OBVIOUS
<1> DEFINE r == current_proc
           s == stack[r]
<1>1. Handles({"fault", "other"})
  BY DEF proc_handle_user_page_fault, Handles
<1>2. /\ mode = "S" /\ regs.sp = r /\ Runner = r /\ r \in Users /\ r \in Proc
      /\ regs.pc = 0 /\ sscratch = Zero /\ FromUser(s[1]) /\ s \in Seq(AnyFrame)
      /\ kernel_return(Top(s), stack) /\ state' = state /\ trap_frame' = trap_frame
  BY <1>1, FaultFacts, IInvFacts DEF proc_handle_user_page_fault
<1>3. CASE Len(s) = 1
  <2>1. Top(s) = s[1] /\ (Top(s).kind = "trap" => Top(s) \in TrapFrame)
    BY <1>2, <1>3, TopFacts
  <2>2. Top(s) \in TrapFrame /\ Top(s).sstatus = UserStatus
    BY <1>2, <2>1 DEF FromUser
  <2>3. \A p \in Proc : p # r => Parked(p, state[p], stack[p])
    BY <1>2 DEF IInv
  <2> QED BY <1>2, <1>3, <2>2, <2>3, ReturnToUser, IInvFacts, Zenon
<1>4. CASE Len(s) # 1
  <2>1. Len(s) = 1 + 1 /\ s[1].cause = "ecall" /\ FromKernel(s[1 + 1], r, "fault", FaultStatus)
    <3>1. Len(s) = 2 /\ s[1].cause = "ecall" /\ FromKernel(s[2], r, "fault", FaultStatus)
      BY <1>1, <1>4, FaultFacts, Zenon
    <3>2. 1 + 1 = 2
      OBVIOUS
    <3> QED BY <3>1, <3>2
  <2>2. /\ TypeOK' /\ mode' = "S" /\ regs'.sp = r /\ regs'.pc = 0 /\ sscratch' = sscratch
        /\ current_proc' = current_proc /\ sstatus' = Returned(FaultStatus) /\ Len(stack'[r]) = 1
        /\ stack'[r][1] = s[1]
        /\ \A p \in Proc : p # r => Parked(p, state'[p], stack'[p])
    BY <1>2, <2>1, ReturnToKernel, StatusFacts
  <2>3. state'[r] = "live" /\ current_proc' = r
    BY <1>2, <2>2, IInvFacts
  <2>4. FromUser(stack'[r][1]) /\ stack'[r][1].cause = "ecall"
    BY <1>2, <2>1, <2>2
  <2> HIDE DEF r
  <2>5. UserRun(r, r, state'[r], 0, sstatus', Zero, stack'[r])
    BY <2>2, <2>3, <2>4, StatusFacts, Zenon DEF UserRun
  <2>6. KernelMode' /\ Runner' = r
    BY <1>2, <2>2, <2>3, <2>5, ConstantFacts, Zenon DEF KernelMode, Runner
  <2> QED BY <1>2, <2>2, <2>3, <2>6, IInvFacts DEF IInv
<1> QED BY <1>3, <1>4

----------------------------------------------------------------------------
(* System calls that return.                                               *)
LEMMA SysReturnStep ==
  ASSUME IInv, NEW v \in Word, sys_return(v)
  PROVE  IInv'
<1> DEFINE r == current_proc
           s == stack[r]
           f == [s[1] EXCEPT !.regs.a0 = v]
<1>1. /\ mode = "S" /\ regs.sp = r /\ Runner = r /\ r \in Users /\ r \in Proc /\ Len(s) = 1
      /\ s[1] \in TrapFrame /\ FromUser(s[1]) /\ Top(s) = s[1]
  BY SyscallFacts DEF sys_return
<1>2. /\ kernel_return(f, stack) /\ state' = state
      /\ trap_frame' = [trap_frame EXCEPT ![r] = [regs |-> f.regs, sstatus |-> f.sstatus]]
  BY <1>1 DEF sys_return, Finish, Result
<1>3. f \in TrapFrame /\ f.sstatus = UserStatus
  BY <1>1 DEF TrapFrame, FromUser, Regs
<1>4. f.regs \in Regs
  BY <1>3 DEF TrapFrame
<1> HIDE DEF f
<1>5. /\ trap_frame' \in [Proc -> [regs : Regs, sstatus : Status]]
      /\ \A p \in Users : state'[p] = "live" => trap_frame'[p].sstatus = UserStatus
  BY <1>1, <1>2, <1>3, <1>4, IInvFacts, StatusFacts, ConstantFacts
<1>6. \A p \in Proc : p # r => Parked(p, state[p], stack[p])
  BY <1>1 DEF IInv
<1> QED BY <1>1, <1>2, <1>3, <1>5, <1>6, ReturnToUser, IInvFacts, Zenon

LEMMA SysExecStep ==
  ASSUME IInv, NEW argc \in Word, sys_exec(argc)
  PROVE  IInv'
<1> DEFINE r == current_proc
           s == stack[r]
           new == arch_init_user_context(argc)
           f == [s[1] EXCEPT !.regs = new.regs, !.sstatus = new.sstatus]
<1>1. /\ mode = "S" /\ regs.sp = r /\ Runner = r /\ r \in Users /\ r \in Proc /\ Len(s) = 1
      /\ s[1] \in TrapFrame /\ FromUser(s[1]) /\ Top(s) = s[1]
  BY SyscallFacts DEF sys_exec
<1>2. /\ kernel_return(f, stack) /\ state' = state
      /\ trap_frame' = [trap_frame EXCEPT ![r] = [regs |-> f.regs, sstatus |-> f.sstatus]]
  BY <1>1 DEF sys_exec, Finish
<1>3. new.regs \in Regs /\ new.sstatus = UserStatus
  BY ConstantFacts DEF arch_init_user_context, Regs
<1> HIDE DEF new
<1>4. f \in TrapFrame /\ f.sstatus = UserStatus
  BY <1>1, <1>3, StatusFacts, Zenon DEF TrapFrame
<1>5. f.regs \in Regs
  BY <1>4, Zenon DEF TrapFrame
<1> HIDE DEF f
<1>6. /\ trap_frame' \in [Proc -> [regs : Regs, sstatus : Status]]
      /\ \A p \in Users : state'[p] = "live" => trap_frame'[p].sstatus = UserStatus
  BY <1>1, <1>2, <1>4, <1>5, IInvFacts, StatusFacts, ConstantFacts
<1>7. \A p \in Proc : p # r => Parked(p, state[p], stack[p])
  BY <1>1 DEF IInv
<1> QED BY <1>1, <1>2, <1>4, <1>6, <1>7, ReturnToUser, IInvFacts, Zenon

(* The first switch frame of a user process: interrupts and access to user *)
(* memory are off, whatever they were for its creator.                     *)
LEMMA NewContext ==
  ASSUME NEW c \in Users, NEW st \in Status
  PROVE  LET s == <<arch_init_switch_context(c, st)>>
         IN  s \in Seq(AnyFrame) /\ Parked(c, "live", s)
<1> DEFINE f == arch_init_switch_context(c, st)
           new == [st EXCEPT !.SIE = FALSE, !.SUM = FALSE]
<1>1. f = Switch("resume", new)
  BY DEF arch_init_switch_context
<1>2. new \in Status /\ new.SIE = FALSE /\ new.SUM = FALSE
  BY Zenon DEF Status
<1> HIDE DEF new
<1>3. f \in AnyFrame /\ Saved(f, "resume", FALSE, FALSE)
  BY <1>1, <1>2 DEF Switch, AnyFrame, SwitchFrame, Saved
<1> HIDE DEF f
<1>4. <<f>> \in Seq(AnyFrame) /\ Len(<<f>>) = 1 /\ <<f>>[1] = f
  BY <1>3, OneFrame
<1>5. Parked(c, "live", <<f>>)
  BY <1>3, <1>4, Zenon DEF Parked
<1> QED BY <1>4, <1>5 DEF f

LEMMA SysForkStep ==
  ASSUME IInv, NEW c \in Users, sys_fork(c)
  PROVE  IInv'
<1> DEFINE r == current_proc
           s == stack[r]
           f == [s[1] EXCEPT !.regs.a0 = 1]
           stacks == [stack EXCEPT ![c] = <<arch_init_switch_context(c, sstatus)>>]
           child == arch_clone_user_context(trap_frame[r])
           frames == [trap_frame EXCEPT ![c] = child]
<1>1. /\ mode = "S" /\ regs.sp = r /\ Runner = r /\ r \in Users /\ r \in Proc /\ Len(s) = 1
      /\ s[1] \in TrapFrame /\ FromUser(s[1]) /\ Top(s) = s[1]
  BY SyscallFacts DEF sys_fork
<1>2. /\ kernel_return(f, stacks) /\ state' = [state EXCEPT ![c] = "live"] /\ state[c] = "unused"
      /\ trap_frame' = [frames EXCEPT ![r] = [regs |-> f.regs, sstatus |-> f.sstatus]]
  BY <1>1 DEF sys_fork, Finish, Result
<1>3. f \in TrapFrame /\ f.sstatus = UserStatus
  BY <1>1, ConstantFacts DEF TrapFrame, FromUser, Regs
<1>4. f.regs \in Regs
  BY <1>3 DEF TrapFrame
<1>5. child.regs \in Regs /\ child.sstatus = UserStatus /\ child \in [regs : Regs, sstatus : Status]
  <2>1. trap_frame[r] \in [regs : Regs, sstatus : Status] /\ trap_frame[r].sstatus = UserStatus
    BY <1>1, IInvFacts
  <2> QED BY <2>1, ConstantFacts DEF arch_clone_user_context, Regs
<1> HIDE DEF child, f
<1>6. c # r /\ c \in Proc
  BY <1>2, IInvFacts, ConstantFacts
<1>7. frames \in [Proc -> [regs : Regs, sstatus : Status]]
  BY <1>5, IInvFacts, Zenon
<1>8. /\ trap_frame' \in [Proc -> [regs : Regs, sstatus : Status]]
      /\ \A p \in Users : state'[p] = "live" => trap_frame'[p].sstatus = UserStatus
  <2>1. trap_frame' \in [Proc -> [regs : Regs, sstatus : Status]]
    <3> HIDE DEF frames
    <3> QED BY <1>2, <1>3, <1>4, <1>7, StatusFacts, Zenon
  <2>2. ASSUME NEW p \in Users, state'[p] = "live" PROVE trap_frame'[p].sstatus = UserStatus
    <3>1. p \in Proc
      BY ConstantFacts
    <3>2. CASE p = r
      BY <1>1, <1>2, <1>3, <1>7, <3>2
    <3>3. CASE p # r /\ p = c
      BY <1>2, <1>5, <1>7, <3>1, <3>3, IInvFacts
    <3>4. CASE p # r /\ p # c
      BY <1>2, <1>7, <2>2, <3>1, <3>4, IInvFacts
    <3> QED BY <3>2, <3>3, <3>4
  <2> QED BY <2>1, <2>2
<1>9. /\ stacks \in [Proc -> Seq(AnyFrame)] /\ stacks[r] = s
      /\ \A p \in Proc : p # r => Parked(p, state'[p], stacks[p])
  <2>1. /\ <<arch_init_switch_context(c, sstatus)>> \in Seq(AnyFrame)
        /\ Parked(c, "live", <<arch_init_switch_context(c, sstatus)>>)
    BY NewContext, IInvFacts
  <2>2. \A p \in Proc : p # r => Parked(p, state[p], stack[p])
    BY <1>1 DEF IInv
  <2> QED BY <1>1, <1>2, <1>6, <2>1, <2>2, IInvFacts
<1>10. /\ state' \in [Proc -> {"unused", "live", "zombie"}] /\ state'[r] = "live"
       /\ \A p \in Kernels : state'[p] = "live"
  BY <1>1, <1>2, <1>6, IInvFacts, ConstantFacts
<1> HIDE DEF stacks
<1>11. Len(stacks[r]) = 1
  BY <1>1, <1>9
<1> QED BY <1>1, <1>2, <1>3, <1>8, <1>9, <1>10, <1>11, ReturnToUser, Zenon

----------------------------------------------------------------------------
(* The slot c of another process is filled or cleared.                     *)
LEMMA SlotChange ==
  ASSUME IInv, mode = "S", regs.sp = current_proc, NEW c \in Users, c # current_proc,
         NEW v \in {"unused", "live"}, NEW s \in Seq(AnyFrame), Parked(c, v, s),
         NEW t \in [regs : Regs, sstatus : Status], v = "live" => t.sstatus = UserStatus,
         state' = [state EXCEPT ![c] = v], stack' = [stack EXCEPT ![c] = s],
         trap_frame' = [trap_frame EXCEPT ![c] = t],
         UNCHANGED <<current_proc, mode, regs, sstatus, sscratch>>
  PROVE  IInv'
<1>1. c \in Proc /\ c \notin Kernels /\ current_proc \in Proc /\ Runner = current_proc
  BY IInvFacts, ConstantFacts DEF Runner
<1>2. /\ state' \in [Proc -> {"unused", "live", "zombie"}] /\ stack' \in [Proc -> Seq(AnyFrame)]
      /\ trap_frame' \in [Proc -> [regs : Regs, sstatus : Status]]
      /\ state'[c] = v /\ stack'[c] = s
      /\ \A p \in Proc : p # c => state'[p] = state[p] /\ stack'[p] = stack[p]
  BY <1>1, IInvFacts
<1>3. TypeOK'
  BY <1>2, IInvFacts DEF TypeOK, AnyFrame
<1>4. state'[current_proc'] = "live" /\ \A p \in Kernels : state'[p] = "live"
  BY <1>1, <1>2, IInvFacts, ConstantFacts
<1>5. \A p \in Users : state'[p] = "live" => trap_frame'[p].sstatus = UserStatus
  BY <1>1, <1>2, IInvFacts, ConstantFacts
<1>6. Runner' = current_proc
  BY DEF Runner
<1>7. \A p \in Proc : p # Runner' => Parked(p, state'[p], stack'[p])
  BY <1>1, <1>2, <1>6 DEF IInv
<1>8. KernelMode'
  <2>1. KernelMode
    BY DEF IInv
  <2>2. stack'[current_proc] = stack[current_proc] /\ state'[current_proc] = state[current_proc]
    BY <1>1, <1>2
  <2> QED BY <1>1, <2>1, <2>2 DEF KernelMode
<1> QED BY <1>3, <1>4, <1>5, <1>7, <1>8 DEF IInv

LEMMA ReapStep ==
  ASSUME IInv, NEW c \in Users, reap(c)
  PROVE  IInv'
<1>1. mode = "S" /\ regs.sp = current_proc /\ c # current_proc
  BY SyscallFacts, KernelProcessFacts, IInvFacts, Zenon DEF reap
<1>2. <<>> \in Seq(AnyFrame) /\ Len(<<>>) = 0
  OBVIOUS
<1>3. Parked(c, "unused", <<>>)
  BY <1>2 DEF Parked
<1>4. Cleared \in [regs : Regs, sstatus : Status]
  BY ConstantFacts DEF Cleared, Regs, Status
<1> QED BY <1>1, <1>2, <1>3, <1>4, SlotChange, Zenon DEF reap

LEMMA CreateStep ==
  ASSUME IInv, NEW c \in Users, create_user_process(c)
  PROVE  IInv'
<1>1. mode = "S" /\ regs.sp = current_proc /\ c # current_proc
  BY KernelProcessFacts, ConstantFacts DEF create_user_process
<1>2. /\ <<arch_init_switch_context(c, sstatus)>> \in Seq(AnyFrame)
      /\ Parked(c, "live", <<arch_init_switch_context(c, sstatus)>>)
  BY NewContext, IInvFacts
<1>3. /\ arch_init_user_context(0) \in [regs : Regs, sstatus : Status]
      /\ arch_init_user_context(0).sstatus = UserStatus
  BY ConstantFacts, StatusFacts DEF arch_init_user_context, Regs
<1> QED BY <1>1, <1>2, <1>3, SlotChange, Zenon DEF create_user_process

----------------------------------------------------------------------------
(* The running process r gives the hart away: n is current, but the hart   *)
(* is still on the stack of r.                                             *)
LEMMA LeaveStep ==
  ASSUME IInv, NEW r \in Proc, r = current_proc, mode = "S", regs.sp = r,
         NEW n \in Proc, n # r, state[n] = "live", current_proc' = n,
         state' \in [Proc -> {"unused", "live", "zombie"}],
         \A p \in Proc : p # r => state'[p] = state[p],
         r \in Kernels => state'[r] = state[r],
         state'[r] \in {"live", "zombie"}, state[r] = "live",
         r \in Users => UserRun(r, n, state'[r], regs.pc, sstatus, sscratch, stack[r]),
         UNCHANGED <<mode, regs, sstatus, sscratch, stack, trap_frame>>
  PROVE  IInv'
<1>1. TypeOK'
  BY IInvFacts DEF TypeOK, AnyFrame
<1>2. state'[current_proc'] = "live" /\ \A p \in Kernels : state'[p] = "live"
  BY IInvFacts, ConstantFacts
<1>3. \A p \in Users : state'[p] = "live" => trap_frame'[p].sstatus = UserStatus
  BY IInvFacts, ConstantFacts
<1>4. Runner = r /\ Runner' = r
  BY DEF Runner
<1>5. \A p \in Proc : p # Runner' => Parked(p, state'[p], stack'[p])
  BY <1>4 DEF IInv
<1>6. KernelMode'
  <2>1. KernelMode
    BY DEF IInv
  <2>2. r \in Kernels => KernelRun(r, regs.pc, sstatus, sscratch, stack[r])
    BY <2>1 DEF KernelMode
  <2> QED BY <2>2 DEF KernelMode
<1> QED BY <1>1, <1>2, <1>3, <1>5, <1>6 DEF IInv

LEMMA YieldStep ==
  ASSUME IInv, NEW n \in Proc, yield(n)
  PROVE  IInv'
<1> DEFINE r == current_proc
<1>1. /\ n # r /\ state[n] = "live" /\ current_proc' = n
      /\ UNCHANGED <<state, mode, regs, sstatus, sscratch, stack, trap_frame>>
  BY DEF yield, Choose
<1>2. r \in Proc /\ mode = "S" /\ regs.sp = r /\ state[r] = "live"
  BY SyscallFacts, KernelProcessFacts, IInvFacts, Zenon DEF yield
<1>3. ASSUME r \in Users PROVE UserRun(r, n, state[r], regs.pc, sstatus, sscratch, stack[r])
  <2>1. InSyscall
    BY <1>3, KernelProcessFacts, ConstantFacts, Zenon DEF yield
  <2>2. /\ regs.pc = 0 /\ sscratch = Zero /\ sstatus.SIE = FALSE /\ sstatus.SUM = TRUE
        /\ Len(stack[r]) = 1 /\ FromUser(stack[r][1]) /\ stack[r][1].cause = "ecall"
    BY <2>1, SyscallFacts, Zenon
  <2> QED BY <1>1, <1>2, <2>2, Zenon DEF UserRun
<1> QED BY <1>1, <1>2, <1>3, LeaveStep, IInvFacts

LEMMA ExitStep ==
  ASSUME IInv, NEW n \in Proc, handle_trap_kills(n) \/ sys_exit(n)
  PROVE  IInv'
<1> DEFINE r == current_proc
<1>1. /\ n # r /\ state[n] = "live" /\ current_proc' = n
      /\ state' = [state EXCEPT ![r] = "zombie"]
      /\ UNCHANGED <<mode, regs, sstatus, sscratch, stack, trap_frame>>
  BY DEF handle_trap_kills, sys_exit, proc_exit, Choose
<1>2. r \in Proc /\ r \in Users /\ r \notin Kernels /\ mode = "S" /\ regs.sp = r /\ state[r] = "live"
  BY SyscallFacts, FaultFacts, IInvFacts, ConstantFacts, Zenon DEF handle_trap_kills, sys_exit
<1>3. /\ state' \in [Proc -> {"unused", "live", "zombie"}] /\ state'[r] = "zombie"
      /\ \A p \in Proc : p # r => state'[p] = state[p]
  BY <1>1, <1>2, IInvFacts
<1>4. UserRun(r, n, "zombie", regs.pc, sstatus, sscratch, stack[r])
  <2>1. CASE sys_exit(n)
    <3>1. /\ regs.pc = 0 /\ sscratch = Zero /\ sstatus.SIE = FALSE /\ sstatus.SUM = TRUE
          /\ Len(stack[r]) = 1 /\ FromUser(stack[r][1]) /\ stack[r][1].cause = "ecall"
      BY <2>1, SyscallFacts, Zenon DEF sys_exit
    <3> QED BY <1>1, <3>1, Zenon DEF UserRun
  <2>2. CASE handle_trap_kills(n)
    <3>1. /\ regs.pc = 0 /\ sscratch = Zero /\ sstatus.SIE = FALSE /\ FromUser(stack[r][1])
          /\ \/ /\ Len(stack[r]) = 1 /\ sstatus.SUM = FALSE
                /\ stack[r][1].cause \in {"fault", "other"}
             \/ /\ Len(stack[r]) = 2 /\ sstatus.SUM = TRUE /\ stack[r][1].cause = "ecall"
                /\ FromKernel(stack[r][2], r, "fault", FaultStatus)
      BY <2>2, FaultFacts, Zenon DEF handle_trap_kills
    <3> QED BY <1>1, <3>1, Zenon DEF UserRun
  <2> QED BY <2>1, <2>2
<1> QED BY <1>1, <1>2, <1>3, <1>4, LeaveStep, IInvFacts

----------------------------------------------------------------------------
(* switch_context parks the stack that the hart leaves.                    *)
LEMMA ParkRunner ==
  ASSUME IInv, switch_context
  PROVE  LET r == regs.sp
             s == Push(stack[r], Switch("kernel", sstatus))
         IN  /\ r \in Proc /\ sscratch = Zero /\ regs.pc = 0 /\ s \in Seq(AnyFrame)
             /\ Parked(r, state[r], s)
<1> DEFINE r == regs.sp
           t == stack[r]
           f == Switch("kernel", sstatus)
           s == Push(t, f)
<1>1. /\ mode = "S" /\ r # current_proc /\ Handled(t) # "irq" /\ KernelMode /\ r \in Proc
      /\ t \in Seq(AnyFrame) /\ sstatus \in Status /\ state[r] \in {"unused", "live", "zombie"}
  BY IInvFacts DEF switch_context, IInv, KernelMode
<1>2. f \in AnyFrame /\ f.kind = "switch" /\ f.ra = "kernel" /\ f.sstatus = sstatus
  BY <1>1 DEF Switch, AnyFrame, SwitchFrame
<1> HIDE DEF t, f
<1>3. /\ s \in Seq(AnyFrame) /\ Len(s) = Len(t) + 1 /\ s[Len(t) + 1] = f
      /\ \A i \in 1 .. Len(t) : s[i] = t[i]
  BY <1>1, <1>2, PushFacts
<1>4. Len(t) \in Nat
  BY <1>1, StackFacts
<1> HIDE DEF s
<1>5. CASE r \in Kernels
  <2>1. KernelRun(r, regs.pc, sstatus, sscratch, t)
    BY <1>1, <1>5 DEF KernelMode, t
  <2>2. Len(t) = 0
    <3> SUFFICES ASSUME Len(t) = 1 PROVE FALSE
      BY <2>1 DEF KernelRun
    <3>1. t[1].cause = "irq"
      BY <2>1 DEF KernelRun, FromKernel
    <3>2. Len(t) > 0
      OBVIOUS
    <3>3. Handled(t) = Top(t).cause /\ Top(t) = t[Len(t)]
      BY <1>1, <3>2, TopFacts, Zenon
    <3> QED BY <1>1, <3>1, <3>3
  <2>3. regs.pc = 0 /\ sscratch = Zero /\ sstatus.SIE = TRUE /\ sstatus.SUM = FALSE
    BY <2>1, <2>2 DEF KernelRun
  <2>4. Len(s) = 1 /\ s[1] = f
    BY <1>3, <2>2
  <2>5. Saved(s[1], "kernel", TRUE, FALSE)
    BY <1>2, <2>3, <2>4 DEF Saved
  <2>6. Parked(r, state[r], s)
    BY <1>5, <2>4, <2>5, IInvFacts, Zenon DEF Parked
  <2> QED BY <1>1, <1>3, <2>3, <2>6 DEF s, t, f
<1>6. CASE r \in Users
  <2>1. UserRun(r, current_proc, state[r], regs.pc, sstatus, sscratch, t)
    BY <1>1, <1>6 DEF KernelMode, t
  <2>2. /\ regs.pc = 0 /\ sscratch = Zero /\ sstatus.SIE = FALSE /\ FromUser(t[1])
        /\ \/ Len(t) = 1 /\ (state[r] = "zombie" \/ (state[r] = "live" /\ t[1].cause = "ecall"))
              /\ sstatus.SUM = (t[1].cause = "ecall")
           \/ Len(t) = 2 /\ FromKernel(t[2], r, "fault", FaultStatus) /\ state[r] = "zombie"
    BY <1>1, <2>1 DEF UserRun
  <2>3. CASE state[r] = "zombie"
    <3>1. Len(s) <= 3
      BY <1>3, <2>2
    <3>2. ASSUME NEW i \in 1 .. Len(s), s[i].kind = "trap" PROVE s[i].sstatus.SIE = FALSE
      <4>1. i # Len(t) + 1
        BY <1>2, <1>3, <3>2
      <4>2. i \in 1 .. Len(t) /\ s[i] = t[i]
        BY <1>3, <1>4, <4>1
      <4>3. i = 1 \/ (i = 2 /\ Len(t) = 2)
        BY <2>2, <4>2
      <4> QED BY <2>2, <4>2, <4>3, StatusFacts DEF FromUser, FromKernel, FaultStatus
    <3>3. Parked(r, state[r], s)
      BY <1>6, <2>3, <3>1, <3>2, Zenon DEF Parked
    <3> QED BY <1>1, <1>3, <2>2, <3>3 DEF s, t, f
  <2>4. CASE state[r] # "zombie"
    <3>1. Len(t) = 1 /\ state[r] = "live" /\ t[1].cause = "ecall" /\ sstatus.SUM = TRUE
      BY <2>2, <2>4, Zenon
    <3>2. Len(s) = 2 /\ s[1] = t[1] /\ s[2] = f
      BY <1>3, <3>1
    <3>3. Saved(s[2], "kernel", FALSE, TRUE)
      BY <1>2, <2>2, <3>1, <3>2 DEF Saved
    <3>4. Parked(r, state[r], s)
      BY <1>6, <2>2, <3>1, <3>2, <3>3, Zenon DEF Parked
    <3> QED BY <1>1, <1>3, <2>2, <3>4 DEF s, t, f
  <2> QED BY <2>3, <2>4
<1> QED BY <1>1, <1>5, <1>6 DEF Proc

(* ... and the process that was chosen goes on where it was parked.        *)
LEMMA SwitchStep == IInv /\ switch_context => IInv'
<1> SUFFICES ASSUME IInv, switch_context PROVE IInv'
  OBVIOUS
<1> DEFINE r == regs.sp
           n == current_proc
           t == stack[n]
           f == Top(t)
           s == Push(stack[r], Switch("kernel", sstatus))
           k == IF f.ra = "resume" THEN 1 ELSE 0
<1>1. /\ mode = "S" /\ r # n /\ sstatus' = f.sstatus /\ regs' = [KernelRegs(n) EXCEPT !.pc = k]
      /\ stack' = [stack EXCEPT ![r] = s, ![n] = Pop(t)]
      /\ UNCHANGED <<state, current_proc, mode, sscratch, trap_frame>>
  BY DEF switch_context
<1>2. /\ r \in Proc /\ sscratch = Zero /\ s \in Seq(AnyFrame) /\ Parked(r, state[r], s)
  BY ParkRunner
<1>3. n \in Proc /\ t \in Seq(AnyFrame) /\ state[n] = "live" /\ Parked(n, "live", t)
  BY <1>1, IInvFacts DEF IInv, Runner
<1>4. Len(t) > 0 /\ t[Len(t)].kind = "switch"
  BY <1>3 DEF Parked, Saved
<1>5. f = t[Len(t)] /\ f \in SwitchFrame
  BY <1>3, <1>4, TopFacts
<1>6. /\ Pop(t) \in Seq(AnyFrame) /\ Len(Pop(t)) = Len(t) - 1
      /\ \A i \in 1 .. Len(t) - 1 : Pop(t)[i] = t[i]
  BY <1>3, <1>4, PopFacts, Zenon
<1> HIDE DEF s, t, f, k
<1>7. /\ stack' \in [Proc -> Seq(AnyFrame)] /\ stack'[r] = s /\ stack'[n] = Pop(t)
      /\ \A p \in Proc : p # r /\ p # n => stack'[p] = stack[p]
  BY <1>1, <1>2, <1>3, <1>6, IInvFacts, Zenon
<1>8. sstatus' \in Status
  BY <1>1, <1>5 DEF SwitchFrame
<1>9. regs' \in Regs /\ regs'.sp = n /\ regs'.pc = k
  <2>1. k \in {0, 1}
    BY DEF k
  <2> QED BY <1>1, <1>3, <2>1, ConstantFacts DEF KernelRegs, Regs
<1>10. TypeOK'
  BY <1>1, <1>7, <1>8, <1>9, IInvFacts, Zenon DEF TypeOK, AnyFrame
<1>11. \A p \in Proc : p # n => Parked(p, state'[p], stack'[p])
  <2>1. \A p \in Proc : p # r => Parked(p, state[p], stack[p])
    BY <1>1 DEF IInv, Runner
  <2> QED BY <1>1, <1>2, <1>7, <2>1
<1>12. n \in Kernels => KernelRun(n, k, sstatus', Zero, stack'[n])
  <2> SUFFICES ASSUME n \in Kernels PROVE KernelRun(n, k, sstatus', Zero, stack'[n])
    OBVIOUS
  <2>1. Len(t) = 1 /\ Saved(t[1], "kernel", TRUE, FALSE)
    BY <1>3, ConstantFacts, Zenon DEF Parked
  <2>2. k = 0 /\ sstatus'.SIE = TRUE /\ sstatus'.SUM = FALSE /\ Len(stack'[n]) = 0
    BY <1>1, <1>5, <1>6, <1>7, <2>1 DEF Saved, k
  <2> QED BY <2>2 DEF KernelRun
<1>13. n \in Users => UserRun(n, n, "live", k, sstatus', Zero, stack'[n])
  <2> SUFFICES ASSUME n \in Users PROVE UserRun(n, n, "live", k, sstatus', Zero, stack'[n])
    OBVIOUS
  <2>1. \/ Len(t) = 1 /\ Saved(t[1], "resume", FALSE, FALSE)
        \/ /\ Len(t) = 2 /\ FromUser(t[1]) /\ t[1].cause = "ecall"
           /\ Saved(t[2], "kernel", FALSE, TRUE)
    BY <1>3, ConstantFacts, Zenon DEF Parked
  <2>2. CASE Len(t) = 1
    <3>1. k = 1 /\ sstatus'.SIE = FALSE /\ sstatus'.SUM = FALSE /\ Len(stack'[n]) = 0
      BY <1>1, <1>5, <1>6, <1>7, <2>1, <2>2 DEF Saved, k
    <3> QED BY <3>1 DEF UserRun
  <2>3. CASE Len(t) = 2
    <3>1. k = 0 /\ sstatus'.SIE = FALSE /\ sstatus'.SUM = TRUE
      BY <1>1, <1>5, <2>1, <2>3 DEF Saved, k
    <3>2. Len(stack'[n]) = 1 /\ stack'[n][1] = t[1]
      BY <1>6, <1>7, <2>3
    <3>3. FromUser(stack'[n][1]) /\ stack'[n][1].cause = "ecall"
      BY <2>1, <2>3, <3>2
    <3> QED BY <3>1, <3>2, <3>3, Zenon DEF UserRun
  <2> QED BY <2>1, <2>2, <2>3, Zenon
<1>14. state'[n] = "live" /\ current_proc' = n /\ sscratch' = Zero /\ mode' = "S"
  BY <1>1, <1>2, <1>3
<1> HIDE DEF n
<1>15. KernelMode' /\ Runner' = n
  BY <1>3, <1>9, <1>12, <1>13, <1>14 DEF KernelMode, Runner
<1> QED BY <1>1, <1>10, <1>11, <1>14, <1>15, IInvFacts, Zenon DEF IInv

----------------------------------------------------------------------------
(* arch_resume_from_trap.                                                  *)
LEMMA ResumeFacts ==
  ASSUME IInv, Resuming
  PROVE  /\ mode = "S" /\ regs.sp = current_proc /\ current_proc \in Users /\ current_proc \in Proc
         /\ regs.pc = 1 /\ Len(stack[current_proc]) = 0 /\ sstatus.SIE = FALSE
         /\ \/ sscratch = Zero /\ sstatus.SUM = FALSE
            \/ sscratch = current_proc /\ sstatus = UserStatus
<1>1. mode = "S" /\ regs.pc = 1 /\ KernelMode /\ regs.sp \in Proc
  BY DEF Resuming, IInv, KernelMode
<1>2. regs.sp \in Users
  BY <1>1, ConstantFacts DEF KernelMode, KernelRun
<1>3. UserRun(regs.sp, current_proc, state[regs.sp], 1, sstatus, sscratch, stack[regs.sp])
  BY <1>1, <1>2 DEF KernelMode
<1>4. /\ current_proc = regs.sp /\ Len(stack[regs.sp]) = 0 /\ sstatus.SIE = FALSE
      /\ (sscratch = Zero /\ sstatus.SUM = FALSE) \/ (sscratch = regs.sp /\ sstatus = UserStatus)
  BY <1>3 DEF UserRun
<1> QED BY <1>1, <1>2, <1>4

LEMMA ResumeStatusStep == IInv /\ resume_status => IInv'
<1> SUFFICES ASSUME IInv, resume_status PROVE IInv'
  OBVIOUS
<1> DEFINE r == current_proc
<1>1. /\ mode = "S" /\ regs.sp = r /\ r \in Users /\ r \in Proc /\ regs.pc = 1 /\ Len(stack[r]) = 0
      /\ state[r] = "live"
  BY ResumeFacts, IInvFacts DEF resume_status
<1>2. /\ sstatus' = UserStatus /\ sscratch' = r
      /\ UNCHANGED <<state, current_proc, mode, regs, stack, trap_frame>>
  BY <1>1, IInvFacts DEF resume_status
<1>3. TypeOK'
  BY <1>1, <1>2, IInvFacts, StatusFacts DEF TypeOK, AnyFrame
<1>4. UserRun(r, r, "live", 1, UserStatus, r, stack[r])
  BY <1>1, StatusFacts DEF UserRun
<1>5. KernelMode' /\ Runner' = r /\ Runner = r
  BY <1>1, <1>2, <1>4, ConstantFacts DEF KernelMode, Runner
<1>6. \A p \in Proc : p # Runner' => Parked(p, state'[p], stack'[p])
  BY <1>2, <1>5 DEF IInv
<1> QED BY <1>1, <1>2, <1>3, <1>5, <1>6, IInvFacts DEF IInv

LEMMA ResumeRegistersStep == IInv /\ resume_registers => IInv'
<1> SUFFICES ASSUME IInv, resume_registers PROVE IInv'
  OBVIOUS
<1> DEFINE r == current_proc
<1>1. /\ mode = "S" /\ regs.sp = r /\ r \in Users /\ r \in Proc /\ Len(stack[r]) = 0
      /\ sscratch = r /\ sstatus = UserStatus
  BY ResumeFacts, Zenon DEF resume_registers
<1>2. /\ sstatus' = Returned(UserStatus) /\ mode' = "U" /\ regs' = trap_frame[r].regs
      /\ UNCHANGED <<state, current_proc, sscratch, stack, trap_frame>>
  BY <1>1, StatusFacts DEF resume_registers
<1>3. regs' \in Regs /\ sstatus' \in Status /\ sstatus'.SIE = TRUE /\ sstatus'.SUM = FALSE
  BY <1>1, <1>2, IInvFacts, StatusFacts
<1>4. TypeOK'
  BY <1>1, <1>2, <1>3, IInvFacts DEF TypeOK, AnyFrame
<1>5. UserMode' /\ Runner' = r /\ Runner = r
  BY <1>1, <1>2, <1>3 DEF UserMode, Runner
<1>6. \A p \in Proc : p # Runner' => Parked(p, state'[p], stack'[p])
  BY <1>2, <1>5 DEF IInv
<1> QED BY <1>1, <1>2, <1>4, <1>5, <1>6, IInvFacts, Zenon DEF IInv

----------------------------------------------------------------------------
(* The theorems.                                                           *)

LEMMA NextIInv == IInv /\ [Next]_vars => IInv'
<1> SUFFICES ASSUME IInv, [Next]_vars PROVE IInv'
  OBVIOUS
<1>1. CASE UNCHANGED vars
  BY <1>1 DEF vars, IInv, TypeOK, Runner, UserMode, KernelMode
<1>2. ASSUME NEW v \in Word, NEW s \in {Zero, UserStack}, compute(v, s) PROVE IInv'
  BY <1>2, ComputeStep
<1>3. CASE ecall \/ interrupt \/ page_fault \/ exception
  BY <1>3, EcallStep, InterruptStep, PageFaultStep, ExceptionStep
<1>4. CASE handle_external_interrupt \/ proc_handle_user_page_fault
  BY <1>4, ExternalInterruptStep, PageFaultReturnStep
<1>5. CASE switch_context \/ resume_status \/ resume_registers
  BY <1>5, SwitchStep, ResumeStatusStep, ResumeRegistersStep
<1>6. ASSUME NEW n \in Proc, yield(n) \/ handle_trap_kills(n) \/ sys_exit(n) PROVE IInv'
  BY <1>6, YieldStep, ExitStep
<1>7. ASSUME NEW v \in Word, sys_return(v) \/ sys_exec(v) PROVE IInv'
  BY <1>7, SysReturnStep, SysExecStep
<1>8. ASSUME NEW c \in Users, sys_fork(c) \/ reap(c) \/ create_user_process(c) PROVE IInv'
  BY <1>8, SysForkStep, ReapStep, CreateStep
<1> QED BY <1>1, <1>2, <1>3, <1>4, <1>5, <1>6, <1>7, <1>8 DEF Next

(* Every step of the kernel's entry, exit and switch code keeps the        *)
(* inductive invariant.                                                    *)
THEOREM TrapInvariance == Spec => []IInv
<1> QED BY InitIInv, NextIInv, PTL DEF Spec

(* What the invariant says of each stack.                                  *)
LEMMA StackBounds ==
  ASSUME IInv, NEW p \in Proc
  PROVE  /\ Len(stack[p]) <= 3
         /\ \A i \in 1 .. Len(stack[p]) :
              stack[p][i].kind = "trap" => stack[p][i].sstatus.SIE = FALSE
<1> DEFINE s == stack[p]
<1>1. s \in Seq(AnyFrame) /\ Len(s) \in Nat
  BY IInvFacts, StackFacts
<1>2. CASE p # Runner
  <2>1. Parked(p, state[p], s)
    BY <1>2 DEF IInv
  <2> HIDE DEF s
  <2>2. CASE p \in Users /\ state[p] = "zombie" /\ Len(s) <= 3 /\ \A i \in 1 .. Len(s) : s[i].kind = "trap" => s[i].sstatus.SIE = FALSE
    BY <2>2 DEF s
  <2>3. CASE Len(s) = 0
    BY <2>3 DEF s
  <2>4. CASE Len(s) = 1 /\ s[1].kind = "switch"
    BY <2>4 DEF s
  <2>5. CASE Len(s) = 2 /\ FromUser(s[1]) /\ s[2].kind = "switch"
    <3>1. \A i \in 1 .. 2 : s[i].kind = "trap" => s[i].sstatus.SIE = FALSE
      BY <2>5, StatusFacts DEF FromUser
    <3> QED BY <2>5, <3>1 DEF s
  <2> QED BY <2>1, <2>2, <2>3, <2>4, <2>5, Zenon DEF Parked, Saved
<1>3. CASE p = Runner /\ mode = "U"
  BY <1>3 DEF IInv, Runner, UserMode
<1>4. CASE p = Runner /\ mode = "S"
  <2>1. KernelMode /\ regs.sp = p
    BY <1>4 DEF IInv, Runner
  <2>2. \/ KernelRun(p, regs.pc, sstatus, sscratch, s)
        \/ UserRun(p, current_proc, state[p], regs.pc, sstatus, sscratch, s)
    BY <2>1 DEF KernelMode, Proc
  <2> HIDE DEF s
  <2>3. \/ Len(s) = 0
        \/ Len(s) = 1 /\ (FromUser(s[1]) \/ FromKernel(s[1], p, "irq", IrqStatus))
        \/ Len(s) = 2 /\ FromUser(s[1]) /\ FromKernel(s[2], p, "fault", FaultStatus)
    BY <2>2 DEF KernelRun, UserRun
  <2>4. \A i \in 1 .. Len(s) : s[i].sstatus \in {UserStatus, IrqStatus, FaultStatus}
    BY <2>3 DEF FromUser, FromKernel
  <2>5. \A i \in 1 .. Len(s) : s[i].sstatus.SIE = FALSE
    BY <2>4 DEF UserStatus, IrqStatus, FaultStatus
  <2> QED BY <2>3, <2>5 DEF s
<1> QED BY <1>2, <1>3, <1>4, IInvFacts, Zenon

(* kernel_entry always finds the right stack: in U-mode sscratch is the    *)
(* top of the current process's own empty kernel stack, in the kernel it   *)
(* is 0 except at the end of arch_resume_from_trap, and stacks hold at     *)
(* most three frames; for any number of user and kernel processes.         *)
THEOREM EntryFindsItsStack == Spec => []OwnKernelStack
<1>1. ASSUME IInv PROVE OwnKernelStack
  <2>1. ASSUME mode = "U"
        PROVE  current_proc \in Users /\ sscratch = current_proc /\ stack[current_proc] = <<>>
    <3>1. UserMode /\ stack[current_proc] \in Seq(AnyFrame)
      BY <1>1, <2>1, IInvFacts DEF IInv
    <3> QED BY <3>1, StackFacts DEF UserMode
  <2>2. ASSUME mode = "S"
        PROVE  /\ regs.sp \in Proc
               /\ sscratch # Zero => Resuming /\ sscratch = regs.sp /\ ~sstatus.SIE
    <3>1. KernelMode
      BY <1>1, <2>2 DEF IInv
    <3>2. regs.sp \in Proc
      BY <3>1 DEF KernelMode
    <3>3. \/ KernelRun(regs.sp, regs.pc, sstatus, sscratch, stack[regs.sp])
          \/ UserRun(regs.sp, current_proc, state[regs.sp], regs.pc, sstatus, sscratch, stack[regs.sp])
      BY <3>1 DEF KernelMode, Proc
    <3> QED BY <2>2, <3>2, <3>3 DEF KernelRun, UserRun, Resuming
  <2>3. \A p \in Proc : Len(stack[p]) <= 3
    BY <1>1, StackBounds, Zenon
  <2> QED BY <2>1, <2>2, <2>3 DEF OwnKernelStack
<1> QED BY <1>1, TrapInvariance, PTL

(* Interrupts are on exactly in the code of kernel processes, user memory  *)
(* is accessible exactly in system calls and their faults, and no saved    *)
(* trap frame turns interrupts on before its sret; for any number of user  *)
(* and kernel processes, however arch_switch_context interleaves them.     *)
THEOREM StatusIsRight == Spec => []StatusMatchesContext
<1>1. ASSUME IInv PROVE StatusMatchesContext
  <2>1. ASSUME mode = "S"
        PROVE  /\ sstatus.SIE <=> regs.sp \in Kernels /\ stack[regs.sp] = <<>>
               /\ sstatus.SUM <=> /\ regs.sp \in Users /\ stack[regs.sp] # <<>>
                                  /\ stack[regs.sp][1].cause = "ecall"
    <3> DEFINE r == regs.sp
               s == stack[r]
    <3>1. KernelMode /\ r \in Proc
      BY <1>1, <2>1 DEF IInv, KernelMode
    <3>2. s = <<>> <=> Len(s) = 0
      BY <1>1, <3>1, IInvFacts, StackFacts
    <3>3. CASE r \in Kernels
      <4>1. KernelRun(r, regs.pc, sstatus, sscratch, s) /\ r \notin Users
        BY <3>1, <3>3, ConstantFacts DEF KernelMode
      <4>2. sstatus.SUM = FALSE
        BY <4>1 DEF KernelRun
      <4>3. CASE Len(s) = 0
        BY <3>2, <3>3, <4>1, <4>2, <4>3 DEF KernelRun
      <4>4. CASE Len(s) = 1
        BY <3>2, <3>3, <4>1, <4>2, <4>4 DEF KernelRun
      <4> QED BY <4>1, <4>3, <4>4 DEF KernelRun
    <3>4. CASE r \in Users
      <4>1. /\ UserRun(r, current_proc, state[r], regs.pc, sstatus, sscratch, s) /\ r \notin Kernels
        BY <3>1, <3>4, ConstantFacts DEF KernelMode
      <4>2. sstatus.SIE = FALSE
        BY <4>1 DEF UserRun
      <4>3. CASE Len(s) = 0
        <5>1. sstatus.SUM = FALSE
          BY <4>1, <4>3, StatusFacts DEF UserRun
        <5> QED BY <3>2, <4>1, <4>2, <4>3, <5>1
      <4>4. CASE Len(s) # 0
        <5>1. sstatus.SUM = (s[1].cause = "ecall")
          BY <4>1, <4>4, Zenon DEF UserRun
        <5> QED BY <3>2, <3>4, <4>1, <4>2, <4>4, <5>1, Zenon
      <4> QED BY <4>3, <4>4
    <3> QED BY <3>1, <3>3, <3>4 DEF Proc
  <2>2. ASSUME mode = "U" PROVE ~sstatus.SUM /\ sstatus.SIE
    BY <1>1, <2>2 DEF IInv, UserMode
  <2>3. \A p \in Proc : \A i \in 1 .. Len(stack[p]) :
          stack[p][i].kind = "trap" => ~stack[p][i].sstatus.SIE
    BY <1>1, StackBounds, Zenon
  <2> QED BY <2>1, <2>2, <2>3 DEF StatusMatchesContext
<1> QED BY <1>1, TrapInvariance, PTL
=============================================================================
