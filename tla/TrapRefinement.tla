--------------------------- MODULE TrapRefinement ---------------------------
(***************************************************************************)
(* Trap implements UserContexts, for every set of processes: each step of  *)
(* the entry, exit and switch code changes the registers of one process in *)
(* a way that UserContexts allows, or nobody's.                            *)
(***************************************************************************)
EXTENDS TrapProofs

(* The registers of p from the parts of the state they are kept in.        *)
RegsOf(p, st, m, cur, r, s, t) ==
  IF st # "live" THEN Contexts!None
  ELSE IF m = "U" /\ cur = p THEN r
  ELSE IF s # <<>> /\ s[1].kind = "trap" THEN s[1].regs
  ELSE t.regs

(* In a system call proc->trap_frame is a copy of the frame on the stack.  *)
Copied(st, s, t) ==
  st = "live" /\ Len(s) > 0 /\ s[1].kind = "trap" /\ s[1].cause = "ecall" => t.regs = s[1].regs

CopyInv == \A p \in Users : Copied(state[p], stack[p], trap_frame[p])

LEMMA ContextFacts ==
  /\ UserRegs = [p \in Users |-> UserRegs[p]]
  /\ UserRegs' = [p \in Users |-> UserRegs'[p]]
  /\ \A p \in Users :
       UserRegs[p] = RegsOf(p, state[p], mode, current_proc, regs, stack[p], trap_frame[p])
  /\ \A p \in Users :
       UserRegs'[p] = RegsOf(p, state'[p], mode', current_proc', regs', stack'[p], trap_frame'[p])
BY DEF UserRegs, UserContext, RegsOf, Contexts!None

LEMMA NonEmpty == \A s \in Seq(AnyFrame) : Len(s) > 0 => s # <<>>
OBVIOUS

LEMMA NoneIsNoContext == \A c \in Regs : c # Contexts!None
BY DEF Regs, Contexts!None

(* The registers of a live process exist.                                  *)
LEMMA LiveContext ==
  ASSUME IInv, NEW p \in Users, state[p] = "live"
  PROVE  UserRegs[p] \in Regs /\ Contexts!Live(p)
<1>1. /\ p \in Proc /\ stack[p] \in Seq(AnyFrame) /\ trap_frame[p].regs \in Regs /\ regs \in Regs
  BY IInvFacts, ConstantFacts
<1>2. stack[p] # <<>> /\ stack[p][1].kind = "trap" => stack[p][1].regs \in Regs
  <2> SUFFICES ASSUME stack[p] # <<>>, stack[p][1].kind = "trap" PROVE stack[p][1].regs \in Regs
    OBVIOUS
  <2>1. stack[p][1] \in AnyFrame
    <3>1. Len(stack[p]) \in Nat /\ Len(stack[p]) # 0
      BY <1>1, StackFacts
    <3>2. 1 \in 1 .. Len(stack[p])
      BY <3>1
    <3> QED BY <1>1, <3>2, StackFacts
  <2> QED BY <2>1 DEF AnyFrame, TrapFrame, SwitchFrame
<1>3. UserRegs[p] \in Regs
  BY <1>1, <1>2, ContextFacts DEF RegsOf
<1> QED BY <1>3, NoneIsNoContext DEF Contexts!Live

LEMMA BecomesFacts ==
  ASSUME NEW p \in Users, NEW c, UserRegs'[p] = c,
         \A q \in Users : q # p => UserRegs'[q] = UserRegs[q]
  PROVE  Contexts!Becomes(p, c)
BY ContextFacts DEF Contexts!Becomes

LEMMA StutterFacts ==
  ASSUME \A q \in Users : UserRegs'[q] = UserRegs[q]
  PROVE  UserRegs' = UserRegs
BY ContextFacts

(* A process whose parts stay, and that is not in U-mode before or after.  *)
LEMMA SameContext ==
  ASSUME NEW p \in Users, state'[p] = state[p], stack'[p] = stack[p], trap_frame'[p] = trap_frame[p],
         mode = "U" => current_proc # p, mode' = "U" => current_proc' # p
  PROVE  UserRegs'[p] = UserRegs[p]
BY ContextFacts DEF RegsOf

----------------------------------------------------------------------------
(* Copies in proc->trap_frame.                                             *)

LEMMA InitCopy == Init => CopyInv
BY ConstantFacts DEF Init, CopyInv, Copied

(* A step that touches only what belongs to r.                             *)
LEMMA OneChanges ==
  ASSUME CopyInv, NEW r \in Proc,
         \A p \in Users : p # r => /\ state'[p] = state[p] /\ stack'[p] = stack[p]
                                   /\ trap_frame'[p] = trap_frame[p],
         mode = "U" => current_proc = r, mode' = "U" => current_proc' = r,
         r \in Users => Copied(state'[r], stack'[r], trap_frame'[r])
  PROVE  /\ CopyInv'
         /\ \A q \in Users : q # r => UserRegs'[q] = UserRegs[q]
<1>1. \A p \in Users : Copied(state[p], stack[p], trap_frame[p])
  BY DEF CopyInv
<1>2. \A p \in Users : Copied(state'[p], stack'[p], trap_frame'[p])
  BY <1>1
<1>3. CopyInv'
  BY <1>2 DEF CopyInv
<1>4. \A q \in Users : q # r => UserRegs'[q] = UserRegs[q]
  BY SameContext
<1> QED BY <1>3, <1>4

(* ... or that leaves the registers of r as they are.                      *)
LEMMA NobodyChanges ==
  ASSUME CopyInv, NEW r \in Proc,
         \A p \in Users : p # r => /\ state'[p] = state[p] /\ stack'[p] = stack[p]
                                   /\ trap_frame'[p] = trap_frame[p],
         mode = "U" => current_proc = r, mode' = "U" => current_proc' = r,
         r \in Users => /\ Copied(state'[r], stack'[r], trap_frame'[r])
                        /\ UserRegs'[r] = UserRegs[r]
  PROVE  CopyInv' /\ UserRegs' = UserRegs
BY OneChanges, StutterFacts

----------------------------------------------------------------------------
(* User programs and their traps.                                          *)

LEMMA ComputeRefines ==
  ASSUME IInv, CopyInv, NEW v \in Word, NEW s \in {Zero, UserStack}, compute(v, s)
  PROVE  CopyInv' /\ Contexts!Next
<1> DEFINE r == current_proc
<1>1. r \in Users /\ r \in Proc /\ state[r] = "live" /\ mode = "U" /\ s \in Address
  BY IInvFacts, ConstantFacts DEF IInv, UserMode, compute
<1>2. /\ regs' = [regs EXCEPT !.x = v, !.sp = s]
      /\ UNCHANGED <<state, current_proc, mode, sstatus, sscratch, stack, trap_frame>>
  BY DEF compute
<1>3. Copied(state'[r], stack'[r], trap_frame'[r])
  BY <1>1, <1>2 DEF CopyInv
<1>4. CopyInv' /\ \A q \in Users : q # r => UserRegs'[q] = UserRegs[q]
  BY <1>1, <1>2, <1>3, OneChanges
<1>5. UserRegs[r] = regs /\ UserRegs'[r] = regs'
  BY <1>1, <1>2, ContextFacts DEF RegsOf
<1>6. Contexts!Becomes(r, [UserRegs[r] EXCEPT !.x = v, !.sp = s])
  BY <1>1, <1>2, <1>4, <1>5, BecomesFacts
<1>7. Contexts!Compute(r)
  BY <1>1, <1>6, LiveContext, Zenon DEF Contexts!Compute
<1> QED BY <1>1, <1>4, <1>7 DEF Contexts!Next

(* A trap from U-mode saves the registers in the frame f.                  *)
LEMMA EntryKeepsRegs ==
  ASSUME IInv, CopyInv, mode = "U", NEW f \in TrapFrame, kernel_entry(f),
         f.cause = "ecall" => trap_frame'[current_proc].regs = f.regs,
         \A p \in Proc : p # current_proc => trap_frame'[p] = trap_frame[p]
  PROVE  /\ CopyInv' /\ current_proc \in Users /\ state[current_proc] = "live"
         /\ UserRegs[current_proc] = regs /\ UserRegs'[current_proc] = f.regs
         /\ \A q \in Users : q # current_proc => UserRegs'[q] = UserRegs[q]
<1> DEFINE r == current_proc
<1>1. r \in Users /\ r \in Proc /\ state[r] = "live" /\ EntryStack = r /\ EntryBelow = <<>>
  BY IInvFacts, FrameFromUser, Zenon DEF IInv, UserMode, Cause
<1>2. /\ stack' = [stack EXCEPT ![r] = Push(<<>>, f)] /\ mode' = "S" /\ state' = state
      /\ current_proc' = r
  BY <1>1 DEF kernel_entry
<1>3. Push(<<>>, f) = <<f>> /\ <<f>> # <<>> /\ Len(<<f>>) = 1 /\ <<f>>[1] = f /\ f.kind = "trap"
  BY DEF Push, TrapFrame
<1>4. stack'[r] = <<f>> /\ \A p \in Proc : p # r => stack'[p] = stack[p]
  BY <1>1, <1>2, <1>3, IInvFacts
<1>5. Copied(state'[r], stack'[r], trap_frame'[r])
  BY <1>3, <1>4 DEF Copied
<1>6. CopyInv' /\ \A q \in Users : q # r => UserRegs'[q] = UserRegs[q]
  BY <1>1, <1>2, <1>4, <1>5, OneChanges, ConstantFacts
<1>7. UserRegs[r] = regs
  BY <1>1, ContextFacts DEF RegsOf
<1>8. UserRegs'[r] = f.regs
  BY <1>1, <1>2, <1>3, <1>4, ContextFacts DEF RegsOf
<1> QED BY <1>1, <1>6, <1>7, <1>8

(* What kernel_entry saves: the registers, but for a stack pointer of 0.   *)
LEMMA SavedRegs ==
  ASSUME IInv, mode = "U", NEW cause \in Cause
  PROVE  /\ Frame(cause).regs \in Regs
         /\ regs.sp # Zero => Frame(cause).regs = regs
         /\ Frame(cause).regs = [regs EXCEPT !.sp = SavedSp] /\ SavedSp \in Address
<1>1. sscratch = current_proc /\ sscratch # Zero /\ current_proc \in Proc /\ regs \in Regs
  BY IInvFacts, ConstantFacts, Zenon DEF IInv, UserMode
<1>2. Frame(cause).regs = [regs EXCEPT !.sp = SavedSp]
  BY DEF Frame
<1>3. SavedSp \in Address /\ (regs.sp # Zero => SavedSp = regs.sp)
  BY <1>1, ConstantFacts DEF SavedSp, EntryStack, Regs
<1>4. Frame(cause).regs \in Regs
  BY <1>1, <1>2, <1>3 DEF Regs
<1>5. regs.sp # Zero => [regs EXCEPT !.sp = SavedSp] = regs
  BY <1>1, <1>3 DEF Regs
<1> QED BY <1>2, <1>3, <1>4, <1>5

LEMMA EcallRefines ==
  ASSUME IInv, CopyInv, ecall
  PROVE  CopyInv' /\ Contexts!Next
<1> DEFINE r == current_proc
           g == Frame("ecall")
           f == [g EXCEPT !.regs.pc = 1 - @]
<1>1. /\ mode = "U" /\ kernel_entry(f)
      /\ trap_frame' = [trap_frame EXCEPT ![r] = [regs |-> f.regs, sstatus |-> f.sstatus]]
  BY DEF ecall
<1>2. g \in TrapFrame /\ g.cause = "ecall"
  BY <1>1, FrameFromUser DEF Cause
<1>3. /\ (regs.sp # Zero => g.regs = regs) /\ g.regs = [regs EXCEPT !.sp = SavedSp]
      /\ SavedSp \in Address /\ regs \in Regs
  BY <1>1, SavedRegs, IInvFacts DEF Cause
<1> HIDE DEF g
<1>4. f \in TrapFrame /\ f.regs = [g.regs EXCEPT !.pc = 1 - @]
  BY <1>2 DEF TrapFrame, Regs
<1> HIDE DEF f
<1>5. r \in Proc /\ trap_frame'[r].regs = f.regs /\ \A p \in Proc : p # r => trap_frame'[p] = trap_frame[p]
  BY <1>1, IInvFacts
<1>6. /\ CopyInv' /\ r \in Users /\ state[r] = "live" /\ UserRegs[r] = regs /\ UserRegs'[r] = f.regs
      /\ \A q \in Users : q # r => UserRegs'[q] = UserRegs[q]
  BY <1>1, <1>4, <1>5, EntryKeepsRegs
<1>7. Contexts!Live(r) /\ Contexts!Becomes(r, f.regs)
  BY <1>6, LiveContext, BecomesFacts
<1>8. CASE regs.sp # Zero
  <2>1. f.regs = [UserRegs[r] EXCEPT !.pc = 1 - @]
    BY <1>3, <1>4, <1>6, <1>8, Zenon
  <2>2. Contexts!Ecall(r)
    BY <1>7, <2>1 DEF Contexts!Ecall
  <2> QED BY <1>6, <2>2 DEF Contexts!Next
<1>9. CASE regs.sp = Zero
  <2>1. f.regs = [regs EXCEPT !.sp = SavedSp, !.pc = 1 - regs.pc] /\ 1 - regs.pc \in 0 .. 1
    BY <1>3, <1>4 DEF Regs
  <2>2. Contexts!Becomes(r, [UserRegs[r] EXCEPT !.sp = SavedSp, !.pc = 1 - regs.pc])
    BY <1>6, <1>7, <2>1
  <2>3. Contexts!LoseZeroSp(r)
    BY <1>3, <1>6, <1>7, <1>9, <2>1, <2>2, Zenon DEF Contexts!LoseZeroSp
  <2> QED BY <1>6, <2>3 DEF Contexts!Next
<1> QED BY <1>8, <1>9

LEMMA UserTrapRefines ==
  ASSUME IInv, CopyInv, mode = "U", NEW cause \in Cause \ {"ecall"}, Trap(cause)
  PROVE  CopyInv' /\ (Contexts!Next \/ UserRegs' = UserRegs)
<1> DEFINE r == current_proc
           f == Frame(cause)
<1>1. f \in TrapFrame /\ f.cause # "ecall" /\ kernel_entry(f) /\ trap_frame' = trap_frame
  BY FrameFromUser DEF Trap
<1>2. /\ (regs.sp # Zero => f.regs = regs) /\ f.regs = [regs EXCEPT !.sp = SavedSp]
      /\ SavedSp \in Address /\ regs \in Regs
  BY SavedRegs, IInvFacts
<1> HIDE DEF f
<1>3. /\ CopyInv' /\ r \in Users /\ state[r] = "live" /\ UserRegs[r] = regs /\ UserRegs'[r] = f.regs
      /\ \A q \in Users : q # r => UserRegs'[q] = UserRegs[q]
  BY <1>1, EntryKeepsRegs
<1>4. CASE regs.sp # Zero
  BY <1>2, <1>3, <1>4, StutterFacts
<1>5. CASE regs.sp = Zero
  <2>1. Contexts!Live(r) /\ Contexts!Becomes(r, f.regs)
    BY <1>3, LiveContext, BecomesFacts
  <2>2. f.regs = [regs EXCEPT !.sp = SavedSp, !.pc = regs.pc] /\ regs.pc \in 0 .. 1
    BY <1>2, Zenon DEF Regs
  <2>3. Contexts!Becomes(r, [UserRegs[r] EXCEPT !.sp = SavedSp, !.pc = regs.pc])
    BY <1>3, <2>1, <2>2
  <2>4. Contexts!LoseZeroSp(r)
    BY <1>2, <1>3, <1>5, <2>1, <2>2, <2>3, Zenon DEF Contexts!LoseZeroSp
  <2> QED BY <1>3, <2>4 DEF Contexts!Next
<1> QED BY <1>4, <1>5

(* Interrupts of kernel processes, and page faults of system calls.        *)
LEMMA InterruptRefines ==
  ASSUME IInv, CopyInv, interrupt
  PROVE  CopyInv' /\ (Contexts!Next \/ UserRegs' = UserRegs)
<1> SUFFICES ASSUME mode = "S" PROVE CopyInv' /\ UserRegs' = UserRegs
  BY UserTrapRefines, IInvFacts DEF interrupt, Cause
<1> DEFINE r == regs.sp
<1>1. r \in Proc /\ sstatus.SIE = TRUE /\ Trap("irq") /\ KernelMode
  BY IInvFacts DEF IInv, KernelMode, interrupt, Status
<1>2. r \in Kernels /\ r \notin Users
  BY <1>1, ConstantFacts DEF KernelMode, UserRun
<1>3. sscratch = Zero
  BY <1>1, <1>2 DEF KernelMode, KernelRun
<1>4. /\ stack' = [stack EXCEPT ![r] = Push(stack[r], Frame("irq"))] /\ mode' = "S"
      /\ state' = state /\ trap_frame' = trap_frame
  BY <1>1, <1>3 DEF Trap, kernel_entry, EntryStack, EntryBelow
<1>5. \A p \in Users : p # r => /\ state'[p] = state[p] /\ stack'[p] = stack[p]
                                /\ trap_frame'[p] = trap_frame[p]
  BY <1>4, IInvFacts, ConstantFacts
<1> QED BY <1>1, <1>2, <1>4, <1>5, NobodyChanges

LEMMA PageFaultRefines ==
  ASSUME IInv, CopyInv, page_fault
  PROVE  CopyInv' /\ (Contexts!Next \/ UserRegs' = UserRegs)
<1> SUFFICES ASSUME mode = "S" PROVE CopyInv' /\ UserRegs' = UserRegs
  BY UserTrapRefines, IInvFacts DEF page_fault, Cause
<1> DEFINE r == current_proc
           s == stack[r]
<1>1. InSyscall /\ Trap("fault")
  BY DEF page_fault
<1>2. /\ regs.sp = r /\ r \in Users /\ r \in Proc /\ regs.pc = 0 /\ sscratch = Zero /\ Len(s) = 1
      /\ sstatus.SIE = FALSE /\ sstatus.SUM = TRUE /\ s \in Seq(AnyFrame)
  BY <1>1, SyscallFacts, IInvFacts, Zenon
<1>3. Trapped(sstatus) = FaultStatus
  BY <1>2, Zenon DEF Trapped, FaultStatus
<1>4. Frame("fault") \in AnyFrame /\ EntryStack = r /\ EntryBelow = s
  BY <1>2, <1>3, FrameFromKernel, StatusFacts DEF Cause, AnyFrame
<1>5. /\ stack' = [stack EXCEPT ![r] = Push(s, Frame("fault"))] /\ mode' = "S"
      /\ state' = state /\ trap_frame' = trap_frame
  BY <1>1, <1>4 DEF Trap, kernel_entry
<1>6. /\ Push(s, Frame("fault")) \in Seq(AnyFrame) /\ Len(Push(s, Frame("fault"))) = Len(s) + 1
      /\ \A i \in 1 .. Len(s) : Push(s, Frame("fault"))[i] = s[i]
  BY <1>2, <1>4, PushFacts, Zenon
<1>7. stack'[r] = Push(s, Frame("fault")) /\ \A p \in Proc : p # r => stack'[p] = stack[p]
  BY <1>2, <1>5, IInvFacts
<1> HIDE DEF s
<1>8. stack'[r] \in Seq(AnyFrame) /\ Len(stack'[r]) = 2 /\ stack'[r][1] = s[1]
  BY <1>2, <1>6, <1>7
<1>9. stack'[r] # <<>> /\ s # <<>>
  <2>1. Len(stack'[r]) > 0 /\ Len(s) > 0
    BY <1>2, <1>8
  <2> QED BY <1>2, <1>8, <2>1, NonEmpty, Zenon
<1>10. Copied(state'[r], stack'[r], trap_frame'[r])
  BY <1>2, <1>5, <1>8 DEF CopyInv, Copied, s
<1>11. UserRegs'[r] = UserRegs[r]
  BY <1>2, <1>5, <1>8, <1>9, ContextFacts DEF RegsOf, s
<1> QED BY <1>2, <1>5, <1>7, <1>10, <1>11, NobodyChanges, ConstantFacts

LEMMA ExceptionRefines ==
  ASSUME IInv, CopyInv, exception
  PROVE  CopyInv' /\ (Contexts!Next \/ UserRegs' = UserRegs)
BY UserTrapRefines DEF exception, Cause

----------------------------------------------------------------------------
(* Returns.                                                                *)

(* kernel_return to U-mode loads the registers from the only frame.        *)
LEMMA ReturnToUserRegs ==
  ASSUME IInv, CopyInv, NEW r \in Users, r = current_proc, mode = "S", regs.sp = r,
         Len(stack[r]) = 1, NEW f, f.sstatus = UserStatus,
         NEW stacks \in [Proc -> Seq(AnyFrame)], stacks[r] = stack[r], state[r] = "live",
         stack[r][1].kind = "trap", kernel_return(f, stacks), state'[r] = "live"
  PROVE  /\ mode' = "U" /\ current_proc' = r /\ regs' = f.regs /\ stack'[r] = <<>>
         /\ \A p \in Proc : p # r => stack'[p] = stacks[p]
         /\ UserRegs[r] = stack[r][1].regs /\ UserRegs'[r] = f.regs
         /\ Copied(state'[r], stack'[r], trap_frame'[r])
<1>1. r \in Proc /\ stack[r] \in Seq(AnyFrame) /\ Len(stack[r]) > 0
  BY IInvFacts, ConstantFacts
<1>2. /\ mode' = "U" /\ regs' = f.regs /\ current_proc' = r
      /\ stack' = [stacks EXCEPT ![r] = Pop(stack[r])]
  BY StatusFacts, Zenon DEF kernel_return
<1>3. Pop(stack[r]) = <<>>
  <2> DEFINE s == stack[r]
  <2> HIDE DEF s
  <2>1. s \in Seq(AnyFrame) /\ Len(s) = 1 /\ Len(s) > 0
    BY <1>1 DEF s
  <2>2. Pop(s) \in Seq(AnyFrame) /\ Len(Pop(s)) = Len(s) - 1
    BY <2>1, PopFacts
  <2>3. Len(Pop(s)) = 0
    BY <2>1, <2>2
  <2> QED BY <2>2, <2>3, StackFacts DEF s
<1>4. stack'[r] = <<>> /\ \A p \in Proc : p # r => stack'[p] = stacks[p]
  BY <1>1, <1>2, <1>3
<1>5. stack[r] # <<>>
  BY <1>1, StackFacts
<1>6. UserRegs[r] = stack[r][1].regs
  BY <1>5, ContextFacts DEF RegsOf
<1>7. UserRegs'[r] = f.regs
  BY <1>2, ContextFacts DEF RegsOf
<1>8. Copied(state'[r], stack'[r], trap_frame'[r])
  BY <1>4 DEF Copied
<1> QED BY <1>2, <1>4, <1>6, <1>7, <1>8

LEMMA ExternalInterruptRefines ==
  ASSUME IInv, CopyInv, handle_external_interrupt
  PROVE  CopyInv' /\ UserRegs' = UserRegs
<1> DEFINE r == regs.sp
           s == stack[r]
<1>1. /\ mode = "S" /\ Handled(s) = "irq" /\ kernel_return(Top(s), stack) /\ KernelMode
      /\ state' = state /\ trap_frame' = trap_frame /\ r \in Proc /\ s \in Seq(AnyFrame)
  BY IInvFacts DEF handle_external_interrupt, IInv, KernelMode
<1>2. s # <<>>
  BY <1>1 DEF Handled
<1>3. Len(s) > 0
  BY <1>1, <1>2, StackFacts
<1>4. s[Len(s)].cause = "irq" /\ Top(s) = s[Len(s)]
  BY <1>1, <1>3, TopFacts
<1>5. CASE r \in Kernels
  <2>1. KernelRun(r, regs.pc, sstatus, sscratch, s) /\ r \notin Users
    BY <1>1, <1>5, ConstantFacts DEF KernelMode
  <2>2. Len(s) = 1 /\ FromKernel(s[1], r, "irq", IrqStatus)
    BY <1>3, <2>1 DEF KernelRun
  <2>3. Top(s).sstatus = IrqStatus
    BY <1>4, <2>2 DEF FromKernel
  <2>4. mode' = "S" /\ stack' = [stack EXCEPT ![r] = Pop(stack[r])]
    BY <1>1, <2>3, StatusFacts DEF kernel_return
  <2>5. \A p \in Users : p # r => stack'[p] = stack[p]
    BY <2>4, IInvFacts, ConstantFacts
  <2> QED BY <1>1, <2>1, <2>4, <2>5, NobodyChanges
<1>6. CASE r \in Users
  <2>1. UserRun(r, current_proc, state[r], regs.pc, sstatus, sscratch, s)
    BY <1>1, <1>6 DEF KernelMode
  <2>2. Len(s) = 1 /\ FromUser(s[1]) /\ r = current_proc
    BY <1>3, <1>4, <2>1 DEF UserRun, FromKernel
  <2>3. Top(s) = s[1] /\ s[1].sstatus = UserStatus /\ s[1].kind = "trap" /\ state[r] = "live"
    BY <1>4, <2>2, IInvFacts DEF FromUser
  <2>4. /\ mode' = "U" /\ current_proc' = r /\ UserRegs[r] = s[1].regs /\ UserRegs'[r] = s[1].regs
        /\ \A p \in Proc : p # r => stack'[p] = stack[p]
        /\ Copied(state'[r], stack'[r], trap_frame'[r])
    BY <1>1, <1>6, <2>2, <2>3, ReturnToUserRegs, IInvFacts
  <2> QED BY <1>1, <2>4, NobodyChanges, ConstantFacts
<1> QED BY <1>1, <1>5, <1>6 DEF Proc

LEMMA PageFaultReturnRefines ==
  ASSUME IInv, CopyInv, proc_handle_user_page_fault
  PROVE  CopyInv' /\ UserRegs' = UserRegs
<1> DEFINE r == current_proc
           s == stack[r]
<1>1. Handles({"fault", "other"})
  BY DEF proc_handle_user_page_fault, Handles
<1>2. /\ mode = "S" /\ regs.sp = r /\ r \in Users /\ r \in Proc /\ FromUser(s[1])
      /\ s \in Seq(AnyFrame) /\ state[r] = "live"
      /\ kernel_return(Top(s), stack) /\ state' = state /\ trap_frame' = trap_frame
  BY <1>1, FaultFacts, IInvFacts DEF proc_handle_user_page_fault
<1>3. CASE Len(s) = 1
  <2>1. Top(s) = s[1] /\ s[1].sstatus = UserStatus /\ s[1].kind = "trap"
    BY <1>2, <1>3, TopFacts DEF FromUser
  <2>2. /\ mode' = "U" /\ current_proc' = r /\ UserRegs[r] = s[1].regs /\ UserRegs'[r] = s[1].regs
        /\ \A p \in Proc : p # r => stack'[p] = stack[p]
        /\ Copied(state'[r], stack'[r], trap_frame'[r])
    BY <1>2, <1>3, <2>1, ReturnToUserRegs, IInvFacts
  <2> QED BY <1>2, <2>2, NobodyChanges, ConstantFacts
<1>4. CASE Len(s) # 1
  <2>1. Len(s) = 2 /\ FromKernel(s[2], r, "fault", FaultStatus)
    BY <1>1, <1>4, FaultFacts, Zenon
  <2>2. Len(s) > 0 /\ Top(s) = s[2] /\ Top(s).sstatus = FaultStatus
    BY <1>2, <2>1, TopFacts DEF FromKernel
  <2>3. mode' = "S" /\ stack' = [stack EXCEPT ![r] = Pop(s)]
    BY <1>2, <2>2, StatusFacts DEF kernel_return
  <2>4. stack'[r] = Pop(s) /\ \A p \in Proc : p # r => stack'[p] = stack[p]
    BY <1>2, <2>3, IInvFacts
  <2>5. /\ Pop(s) \in Seq(AnyFrame) /\ Len(Pop(s)) = Len(s) - 1
        /\ \A i \in 1 .. Len(s) - 1 : Pop(s)[i] = s[i]
    BY <1>2, <2>2, PopFacts, Zenon
  <2> HIDE DEF s
  <2>6. stack'[r] \in Seq(AnyFrame) /\ Len(stack'[r]) = 1 /\ stack'[r][1] = s[1]
    BY <2>1, <2>4, <2>5
  <2>7. Len(stack'[r]) > 0
    BY <2>6
  <2>8. stack'[r] # <<>> /\ s # <<>>
    BY <1>2, <2>2, <2>6, <2>7, NonEmpty
  <2>9. Copied(state'[r], stack'[r], trap_frame'[r])
    BY <1>2, <2>2, <2>6 DEF CopyInv, Copied, s
  <2>10. UserRegs'[r] = UserRegs[r]
    BY <1>2, <2>3, <2>6, <2>8, ContextFacts DEF RegsOf, s
  <2> QED BY <1>2, <2>3, <2>4, <2>9, <2>10, NobodyChanges, ConstantFacts
<1> QED BY <1>3, <1>4

----------------------------------------------------------------------------
(* Giving the hart away and taking it.                                     *)

LEMMA YieldRefines ==
  ASSUME IInv, CopyInv, NEW n \in Proc, yield(n)
  PROVE  CopyInv' /\ UserRegs' = UserRegs
<1>1. /\ mode = "S" /\ UNCHANGED <<state, mode, regs, sstatus, sscratch, stack, trap_frame>>
  BY SyscallFacts, KernelProcessFacts, Zenon DEF yield
<1>2. \A q \in Users : UserRegs'[q] = UserRegs[q]
  BY <1>1, SameContext
<1> QED BY <1>1, <1>2, StutterFacts DEF CopyInv

LEMMA ExitRefines ==
  ASSUME IInv, CopyInv, NEW n \in Proc, handle_trap_kills(n) \/ sys_exit(n)
  PROVE  CopyInv' /\ Contexts!Next
<1> DEFINE r == current_proc
<1>1. /\ state' = [state EXCEPT ![r] = "zombie"]
      /\ UNCHANGED <<mode, regs, sstatus, sscratch, stack, trap_frame>>
  BY DEF handle_trap_kills, sys_exit, proc_exit
<1>2. r \in Proc /\ r \in Users /\ mode = "S" /\ state[r] = "live"
  BY SyscallFacts, FaultFacts, IInvFacts, Zenon DEF handle_trap_kills, sys_exit
<1>3. state'[r] = "zombie" /\ \A p \in Proc : p # r => state'[p] = state[p]
  BY <1>1, <1>2, IInvFacts
<1>4. Copied(state'[r], stack'[r], trap_frame'[r])
  BY <1>3 DEF Copied
<1>5. CopyInv' /\ \A q \in Users : q # r => UserRegs'[q] = UserRegs[q]
  BY <1>1, <1>2, <1>3, <1>4, OneChanges, ConstantFacts
<1>6. UserRegs'[r] = Contexts!None
  BY <1>2, <1>3, ContextFacts DEF RegsOf
<1>7. Contexts!End(r)
  BY <1>2, <1>5, <1>6, BecomesFacts, LiveContext DEF Contexts!End
<1> QED BY <1>2, <1>5, <1>7 DEF Contexts!Next

(* The first frame of a stack decides where the registers are.             *)
LEMMA SameFirstFrame ==
  ASSUME CopyInv, NEW p \in Users, mode = "S", mode' = "S",
         state'[p] = state[p], trap_frame'[p] = trap_frame[p],
         stack[p] \in Seq(AnyFrame), stack'[p] \in Seq(AnyFrame),
         Len(stack[p]) > 0, Len(stack'[p]) > 0, stack'[p][1] = stack[p][1]
  PROVE  UserRegs'[p] = UserRegs[p] /\ Copied(state'[p], stack'[p], trap_frame'[p])
<1>1. stack[p] # <<>> /\ stack'[p] # <<>>
  BY NonEmpty
<1>2. UserRegs'[p] = UserRegs[p]
  BY <1>1, ContextFacts DEF RegsOf
<1>3. Copied(state'[p], stack'[p], trap_frame'[p])
  BY Zenon DEF CopyInv, Copied
<1> QED BY <1>2, <1>3

LEMMA SwitchRefines ==
  ASSUME IInv, CopyInv, switch_context
  PROVE  CopyInv' /\ UserRegs' = UserRegs
<1> DEFINE r == regs.sp
           n == current_proc
           t == stack[n]
           f == Switch("kernel", sstatus)
           s == Push(stack[r], f)
<1>1. /\ mode = "S" /\ r # n /\ stack' = [stack EXCEPT ![r] = s, ![n] = Pop(t)]
      /\ UNCHANGED <<state, current_proc, mode, sscratch, trap_frame>> /\ KernelMode
  BY DEF switch_context, IInv
<1>2. r \in Proc /\ n \in Proc /\ t \in Seq(AnyFrame) /\ stack[r] \in Seq(AnyFrame) /\ f \in AnyFrame
  BY <1>1, IInvFacts DEF KernelMode, Switch, AnyFrame, SwitchFrame
<1>3. Parked(n, "live", t)
  BY <1>1, <1>2, IInvFacts DEF IInv, Runner
<1>4. Len(t) = 1 \/ Len(t) = 2
  BY <1>3, Zenon DEF Parked
<1>5. stack'[r] = s /\ stack'[n] = Pop(t) /\ \A p \in Proc : p # r /\ p # n => stack'[p] = stack[p]
  BY <1>1, <1>2, IInvFacts
<1>6. ASSUME r \in Users
      PROVE  UserRegs'[r] = UserRegs[r] /\ Copied(state'[r], stack'[r], trap_frame'[r])
  <2>1. UserRun(r, n, state[r], regs.pc, sstatus, sscratch, stack[r])
    BY <1>1, <1>6 DEF KernelMode
  <2>2. Len(stack[r]) = 1 \/ Len(stack[r]) = 2
    BY <1>1, <2>1 DEF UserRun
  <2> HIDE DEF f
  <2>3. /\ s \in Seq(AnyFrame) /\ Len(s) = Len(stack[r]) + 1
        /\ \A i \in 1 .. Len(stack[r]) : s[i] = stack[r][i]
    BY <1>2, PushFacts, Zenon
  <2> HIDE DEF s
  <2>4. Len(s) > 0 /\ Len(stack[r]) > 0 /\ s[1] = stack[r][1]
    <3>1. CASE Len(stack[r]) = 1
      BY <2>3, <3>1
    <3>2. CASE Len(stack[r]) = 2
      BY <2>3, <3>2
    <3> QED BY <2>2, <3>1, <3>2
  <2> QED BY <1>1, <1>2, <1>5, <1>6, <2>3, <2>4, SameFirstFrame, Zenon
<1>7. ASSUME n \in Users
      PROVE  UserRegs'[n] = UserRegs[n] /\ Copied(state'[n], stack'[n], trap_frame'[n])
  <2>1. Len(t) = 1 => t[1].kind = "switch"
    BY <1>3, <1>7, ConstantFacts DEF Parked, Saved
  <2>2. Len(t) > 0
    <3> HIDE DEF t
    <3>1. CASE Len(t) = 1
      BY <3>1
    <3>2. CASE Len(t) = 2
      BY <3>2
    <3> QED BY <1>4, <3>1, <3>2
  <2>3. /\ Pop(t) \in Seq(AnyFrame) /\ Len(Pop(t)) = Len(t) - 1
        /\ \A i \in 1 .. Len(t) - 1 : Pop(t)[i] = t[i]
    BY <1>2, <2>2, PopFacts
  <2> HIDE DEF t
  <2>4. CASE Len(t) = 1
    <3>1. Len(Pop(t)) = 0
      BY <2>3, <2>4
    <3>2. stack'[n] = <<>>
      BY <1>5, <2>3, <3>1, StackFacts
    <3>3. stack[n][1].kind # "trap"
      BY <2>1, <2>4 DEF t
    <3>4. UserRegs'[n] = UserRegs[n]
      BY <1>1, <1>7, <3>2, <3>3, ContextFacts, Zenon DEF RegsOf
    <3>5. Copied(state'[n], stack'[n], trap_frame'[n])
      BY <3>2 DEF Copied
    <3> QED BY <3>4, <3>5
  <2>5. CASE Len(t) = 2
    <3>1. Len(Pop(t)) > 0 /\ Pop(t)[1] = t[1]
      BY <2>3, <2>5
    <3>2. /\ stack'[n] \in Seq(AnyFrame) /\ Len(stack'[n]) > 0 /\ stack'[n][1] = stack[n][1]
          /\ stack[n] \in Seq(AnyFrame) /\ Len(stack[n]) > 0
      BY <1>2, <1>5, <2>2, <2>3, <3>1 DEF t
    <3> QED BY <1>1, <1>7, <3>2, SameFirstFrame, Zenon
  <2> QED BY <1>4, <2>4, <2>5 DEF t
<1>8. ASSUME NEW p \in Users, p # r, p # n
      PROVE  UserRegs'[p] = UserRegs[p] /\ Copied(state'[p], stack'[p], trap_frame'[p])
  BY <1>1, <1>5, <1>8, SameContext, ConstantFacts, Zenon DEF CopyInv
<1>9. \A p \in Users : UserRegs'[p] = UserRegs[p]
  BY <1>6, <1>7, <1>8
<1>10. \A p \in Users : Copied(state'[p], stack'[p], trap_frame'[p])
  BY <1>6, <1>7, <1>8
<1> QED BY <1>9, <1>10, StutterFacts DEF CopyInv

LEMMA ResumeRefines ==
  ASSUME IInv, CopyInv, resume_status \/ resume_registers
  PROVE  CopyInv' /\ UserRegs' = UserRegs
<1> DEFINE r == current_proc
<1>1. /\ mode = "S" /\ r \in Users /\ r \in Proc /\ Len(stack[r]) = 0 /\ stack[r] \in Seq(AnyFrame)
      /\ sscratch # Zero => sstatus = UserStatus
  BY ResumeFacts, IInvFacts, Zenon DEF resume_status, resume_registers
<1>2. /\ UNCHANGED <<state, current_proc, stack, trap_frame>>
      /\ mode' = "U" => regs' = trap_frame[r].regs
  BY <1>1 DEF resume_status, resume_registers
<1>3. stack[r] = <<>>
  BY <1>1, StackFacts
<1>4. Copied(state'[r], stack'[r], trap_frame'[r])
  BY <1>1, <1>2 DEF Copied
<1>5. UserRegs'[r] = UserRegs[r]
  BY <1>1, <1>2, <1>3, ContextFacts DEF RegsOf
<1> QED BY <1>1, <1>2, <1>4, <1>5, NobodyChanges

----------------------------------------------------------------------------
(* System calls.                                                           *)

LEMMA SysReturnRefines ==
  ASSUME IInv, CopyInv, NEW v \in Word, sys_return(v)
  PROVE  CopyInv' /\ Contexts!Next
<1> DEFINE r == current_proc
           s == stack[r]
           f == [s[1] EXCEPT !.regs.a0 = v]
<1>1. /\ mode = "S" /\ regs.sp = r /\ r \in Users /\ r \in Proc /\ Len(s) = 1
      /\ s[1] \in TrapFrame /\ FromUser(s[1]) /\ Top(s) = s[1] /\ state[r] = "live"
  BY SyscallFacts, IInvFacts DEF sys_return
<1>2. /\ kernel_return(f, stack) /\ state' = state
      /\ trap_frame' = [trap_frame EXCEPT ![r] = [regs |-> f.regs, sstatus |-> f.sstatus]]
  BY <1>1 DEF sys_return, Finish, Result
<1>3. f.sstatus = UserStatus /\ s[1].kind = "trap"
  BY <1>1 DEF TrapFrame, FromUser
<1>3a. f.regs = [s[1].regs EXCEPT !.a0 = v]
  BY <1>1 DEF TrapFrame
<1> HIDE DEF f
<1>4. \A p \in Proc : p # r => trap_frame'[p] = trap_frame[p]
  BY <1>2, IInvFacts
<1>5. /\ mode' = "U" /\ current_proc' = r /\ UserRegs[r] = s[1].regs /\ UserRegs'[r] = f.regs
      /\ \A p \in Proc : p # r => stack'[p] = stack[p]
      /\ Copied(state'[r], stack'[r], trap_frame'[r])
  BY <1>1, <1>2, <1>3, ReturnToUserRegs, IInvFacts, Zenon
<1>6. CopyInv' /\ \A q \in Users : q # r => UserRegs'[q] = UserRegs[q]
  BY <1>1, <1>2, <1>4, <1>5, OneChanges, ConstantFacts
<1>7. Contexts!Becomes(r, [UserRegs[r] EXCEPT !.a0 = v])
  BY <1>1, <1>5, <1>6, <1>3a, BecomesFacts
<1>8. Contexts!Result(r)
  BY <1>1, <1>7, LiveContext DEF Contexts!Result
<1> QED BY <1>1, <1>6, <1>8 DEF Contexts!Next

LEMMA SysExecRefines ==
  ASSUME IInv, CopyInv, NEW argc \in Word, sys_exec(argc)
  PROVE  CopyInv' /\ Contexts!Next
<1> DEFINE r == current_proc
           s == stack[r]
           new == arch_init_user_context(argc)
           f == [s[1] EXCEPT !.regs = new.regs, !.sstatus = new.sstatus]
<1>1. /\ mode = "S" /\ regs.sp = r /\ r \in Users /\ r \in Proc /\ Len(s) = 1
      /\ s[1] \in TrapFrame /\ FromUser(s[1]) /\ Top(s) = s[1] /\ state[r] = "live"
  BY SyscallFacts, IInvFacts DEF sys_exec
<1>2. /\ kernel_return(f, stack) /\ state' = state
      /\ trap_frame' = [trap_frame EXCEPT ![r] = [regs |-> f.regs, sstatus |-> f.sstatus]]
  BY <1>1 DEF sys_exec, Finish
<1>3. new.regs \in Regs /\ new.sstatus = UserStatus /\ new.regs.pc = 0 /\ new.regs.x = 0
  BY ConstantFacts DEF arch_init_user_context, Regs
<1> HIDE DEF new
<1>4. f.sstatus = UserStatus /\ f.regs = new.regs /\ s[1].kind = "trap"
  BY <1>1, <1>3 DEF TrapFrame
<1> HIDE DEF f
<1>5. \A p \in Proc : p # r => trap_frame'[p] = trap_frame[p]
  BY <1>2, IInvFacts
<1>6. /\ mode' = "U" /\ current_proc' = r /\ UserRegs'[r] = f.regs
      /\ \A p \in Proc : p # r => stack'[p] = stack[p]
      /\ Copied(state'[r], stack'[r], trap_frame'[r])
  BY <1>1, <1>2, <1>4, ReturnToUserRegs, IInvFacts, Zenon
<1>7. CopyInv' /\ \A q \in Users : q # r => UserRegs'[q] = UserRegs[q]
  BY <1>1, <1>2, <1>5, <1>6, OneChanges, ConstantFacts
<1>8. Contexts!Becomes(r, new.regs)
  BY <1>1, <1>4, <1>6, <1>7, BecomesFacts
<1>9. Contexts!Start(r)
  BY <1>3, <1>8 DEF Contexts!Start, Contexts!Context, Regs
<1> QED BY <1>1, <1>7, <1>9 DEF Contexts!Next

(* The child's registers are the copy in proc->trap_frame: the parent's.   *)
LEMMA SysForkRefines ==
  ASSUME IInv, CopyInv, NEW c \in Users, sys_fork(c)
  PROVE  CopyInv' /\ Contexts!Next
<1> DEFINE r == current_proc
           s == stack[r]
           f == [s[1] EXCEPT !.regs.a0 = 1]
           first == arch_init_switch_context(c, sstatus)
           stacks == [stack EXCEPT ![c] = <<first>>]
           child == arch_clone_user_context(trap_frame[r])
           frames == [trap_frame EXCEPT ![c] = child]
<1>1. /\ InSyscall /\ mode = "S" /\ regs.sp = r /\ r \in Users /\ r \in Proc /\ Len(s) = 1
      /\ s[1] \in TrapFrame /\ FromUser(s[1]) /\ s[1].cause = "ecall" /\ Top(s) = s[1]
      /\ state[r] = "live"
  BY SyscallFacts, IInvFacts DEF sys_fork
<1>2. /\ kernel_return(f, stacks) /\ state' = [state EXCEPT ![c] = "live"] /\ state[c] = "unused"
      /\ trap_frame' = [frames EXCEPT ![r] = [regs |-> f.regs, sstatus |-> f.sstatus]]
  BY <1>1 DEF sys_fork, Finish, Result
<1>3. c # r /\ c \in Proc
  BY <1>1, <1>2, ConstantFacts
<1>4. f.sstatus = UserStatus /\ s[1].kind = "trap"
  BY <1>1 DEF TrapFrame, FromUser
<1>4a. f.regs = [s[1].regs EXCEPT !.a0 = 1]
  BY <1>1 DEF TrapFrame
<1>5. trap_frame[r].regs = s[1].regs
  <2>1. Copied(state[r], stack[r], trap_frame[r]) /\ Len(s) > 0
    BY <1>1 DEF CopyInv
  <2> QED BY <1>1, <1>4, <2>1 DEF Copied
<1>6. child.regs = [s[1].regs EXCEPT !.a0 = 0]
  <2>1. trap_frame[r] \in [regs : Regs, sstatus : Status]
    BY <1>1, IInvFacts
  <2> QED BY <1>5, <2>1 DEF arch_clone_user_context
<1> HIDE DEF f, child
<1>7. trap_frame'[c] = child /\ \A p \in Proc : p # r /\ p # c => trap_frame'[p] = trap_frame[p]
  BY <1>1, <1>2, <1>3, IInvFacts
<1>8. /\ state'[c] = "live" /\ state'[r] = "live" /\ \A p \in Proc : p # c => state'[p] = state[p]
  BY <1>1, <1>2, <1>3, IInvFacts
<1>9. <<first>> \in Seq(AnyFrame) /\ <<first>>[1] = first /\ first.kind = "switch"
  <2>1. <<first>> \in Seq(AnyFrame)
    BY NewContext, IInvFacts, Zenon
  <2> QED BY <2>1 DEF arch_init_switch_context, Switch
<1> HIDE DEF first
<1>10. /\ stacks \in [Proc -> Seq(AnyFrame)] /\ stacks[r] = s /\ stacks[c] = <<first>>
       /\ \A p \in Proc : p # c => stacks[p] = stack[p]
  BY <1>1, <1>3, <1>9, IInvFacts
<1> HIDE DEF stacks
<1>11. /\ mode' = "U" /\ current_proc' = r /\ UserRegs[r] = s[1].regs /\ UserRegs'[r] = f.regs
       /\ \A p \in Proc : p # r => stack'[p] = stacks[p]
       /\ Copied(state'[r], stack'[r], trap_frame'[r])
  BY <1>1, <1>2, <1>4, <1>8, <1>10, ReturnToUserRegs, Zenon
<1>12. stack'[c] = <<first>> /\ \A p \in Proc : p # r /\ p # c => stack'[p] = stack[p]
  BY <1>3, <1>10, <1>11
<1>13. Copied(state'[c], stack'[c], trap_frame'[c]) /\ UserRegs'[c] = [s[1].regs EXCEPT !.a0 = 0]
  BY <1>3, <1>6, <1>7, <1>8, <1>9, <1>11, <1>12, ContextFacts DEF Copied, RegsOf
<1>14. \A p \in Users : p # r /\ p # c => UserRegs'[p] = UserRegs[p]
  BY <1>1, <1>7, <1>8, <1>11, <1>12, SameContext, ConstantFacts
<1>15. CopyInv'
  <2>1. \A p \in Users : p # r /\ p # c => Copied(state'[p], stack'[p], trap_frame'[p])
    BY <1>7, <1>8, <1>12, ConstantFacts DEF CopyInv
  <2> QED BY <1>11, <1>13, <2>1 DEF CopyInv
<1>16. UserRegs' = [UserRegs EXCEPT ![r].a0 = 1, ![c] = [UserRegs[r] EXCEPT !.a0 = 0]]
  BY <1>1, <1>3, <1>11, <1>13, <1>14, <1>4a, ContextFacts
<1>17. UserRegs[c] = Contexts!None
  BY <1>2, ContextFacts DEF RegsOf
<1>18. Contexts!Fork(r, c)
  BY <1>1, <1>16, <1>17, LiveContext, ConstantFacts, Zenon DEF Contexts!Fork, Contexts!Live
<1> QED BY <1>1, <1>15, <1>18 DEF Contexts!Next

LEMMA ReapRefines ==
  ASSUME IInv, CopyInv, NEW c \in Users, reap(c)
  PROVE  CopyInv' /\ UserRegs' = UserRegs
<1>1. /\ mode = "S" /\ mode' = "S" /\ state[c] = "zombie" /\ state' = [state EXCEPT ![c] = "unused"]
      /\ stack' = [stack EXCEPT ![c] = <<>>] /\ trap_frame' = [trap_frame EXCEPT ![c] = Cleared]
  BY SyscallFacts, KernelProcessFacts, Zenon DEF reap
<1>2. /\ c \in Proc /\ state'[c] = "unused"
      /\ \A p \in Users : p # c => /\ state'[p] = state[p] /\ stack'[p] = stack[p]
                                   /\ trap_frame'[p] = trap_frame[p]
  BY <1>1, IInvFacts, ConstantFacts
<1>3. Copied(state'[c], stack'[c], trap_frame'[c])
  BY <1>2 DEF Copied
<1>4. UserRegs'[c] = UserRegs[c]
  BY <1>1, <1>2, ContextFacts DEF RegsOf
<1> QED BY <1>1, <1>2, <1>3, <1>4, NobodyChanges

LEMMA CreateRefines ==
  ASSUME IInv, CopyInv, NEW c \in Users, create_user_process(c)
  PROVE  CopyInv' /\ Contexts!Next
<1> DEFINE first == arch_init_switch_context(c, sstatus)
           new == arch_init_user_context(0)
<1>1. /\ mode = "S" /\ mode' = "S" /\ state' = [state EXCEPT ![c] = "live"]
      /\ stack' = [stack EXCEPT ![c] = <<first>>] /\ trap_frame' = [trap_frame EXCEPT ![c] = new]
  BY KernelProcessFacts DEF create_user_process
<1>2. new.regs \in Regs /\ new.regs.pc = 0 /\ new.regs.x = 0
  BY ConstantFacts DEF arch_init_user_context, Regs
<1>3. <<first>>[1] = first /\ first.kind = "switch"
  BY DEF arch_init_switch_context, Switch
<1> HIDE DEF first, new
<1>4. /\ c \in Proc /\ state'[c] = "live" /\ stack'[c] = <<first>> /\ trap_frame'[c] = new
      /\ \A p \in Users : p # c => /\ state'[p] = state[p] /\ stack'[p] = stack[p]
                                   /\ trap_frame'[p] = trap_frame[p]
  BY <1>1, IInvFacts, ConstantFacts
<1>5. Copied(state'[c], stack'[c], trap_frame'[c])
  BY <1>3, <1>4 DEF Copied
<1>6. UserRegs'[c] = new.regs
  BY <1>1, <1>3, <1>4, ContextFacts DEF RegsOf
<1>7. CopyInv' /\ \A q \in Users : q # c => UserRegs'[q] = UserRegs[q]
  BY <1>1, <1>4, <1>5, OneChanges
<1>8. Contexts!Becomes(c, new.regs)
  BY <1>6, <1>7, BecomesFacts
<1>9. Contexts!Start(c)
  BY <1>2, <1>8 DEF Contexts!Start, Contexts!Context, Regs
<1> QED BY <1>7, <1>9 DEF Contexts!Next

----------------------------------------------------------------------------
LEMMA NextRefines == IInv /\ CopyInv /\ [Next]_vars => CopyInv' /\ [Contexts!Next]_UserRegs
<1> SUFFICES ASSUME IInv, CopyInv, [Next]_vars
             PROVE  CopyInv' /\ (Contexts!Next \/ UserRegs' = UserRegs)
  OBVIOUS
<1>1. CASE UNCHANGED vars
  BY <1>1 DEF vars, CopyInv, UserRegs, UserContext
<1>2. ASSUME NEW v \in Word, NEW s \in {Zero, UserStack}, compute(v, s)
      PROVE  CopyInv' /\ Contexts!Next
  BY <1>2, ComputeRefines
<1>3. CASE ecall \/ interrupt \/ page_fault \/ exception
  BY <1>3, EcallRefines, InterruptRefines, PageFaultRefines, ExceptionRefines
<1>4. CASE handle_external_interrupt \/ proc_handle_user_page_fault
  BY <1>4, ExternalInterruptRefines, PageFaultReturnRefines
<1>5. CASE switch_context \/ resume_status \/ resume_registers
  BY <1>5, SwitchRefines, ResumeRefines
<1>6. ASSUME NEW n \in Proc, yield(n) \/ handle_trap_kills(n) \/ sys_exit(n)
      PROVE  CopyInv' /\ (Contexts!Next \/ UserRegs' = UserRegs)
  BY <1>6, YieldRefines, ExitRefines
<1>7. ASSUME NEW v \in Word, sys_return(v) \/ sys_exec(v) PROVE CopyInv' /\ Contexts!Next
  BY <1>7, SysReturnRefines, SysExecRefines
<1>8. ASSUME NEW c \in Users, sys_fork(c) \/ reap(c) \/ create_user_process(c)
      PROVE  CopyInv' /\ (Contexts!Next \/ UserRegs' = UserRegs)
  BY <1>8, SysForkRefines, ReapRefines, CreateRefines
<1> QED BY <1>1, <1>2, <1>3, <1>4, <1>5, <1>6, <1>7, <1>8 DEF Next

(* Every user process has registers of its own: whatever kernel_entry,     *)
(* handle_trap, switch_context and arch_resume_from_trap do in between,    *)
(* they change by its own instructions and by the results of its own       *)
(* system calls only.  For any number of processes.                        *)
THEOREM RegistersAreOwn == Spec => ImplementsUserContexts
<1>1. Init => Contexts!Init
  <2> SUFFICES ASSUME Init PROVE UserRegs = [p \in Users |-> Contexts!None]
    BY DEF Contexts!Init
  <2>1. \A p \in Users : state[p] # "live"
    BY ConstantFacts DEF Init
  <2> QED BY <2>1 DEF UserRegs, UserContext, Contexts!None
<1> QED BY <1>1, InitCopy, NextRefines, TrapInvariance, PTL DEF Spec, ImplementsUserContexts, Contexts!Spec
=============================================================================
