-------------------------------- MODULE Trap --------------------------------
(***************************************************************************)
(* Traps and context switches of the hart (arch/riscv32): kernel_entry,    *)
(* handle_trap, arch_handle_ecall, switch_context, arch_resume_from_trap   *)
(* and the contexts that creation, fork and exec build.                    *)
(*                                                                         *)
(* A kernel stack is the sequence of the trap frames and switch frames on  *)
(* it; the C frames between them are left out.  An address of a stack is   *)
(* told by whose stack it is: a process slot stands for its kernel stack,  *)
(* UserStack for a user stack.  Who runs next is any live process: the     *)
(* choice is in Sched, and what a system call does to other state is in    *)
(* the other modules.                                                      *)
(***************************************************************************)
EXTENDS Integers, Sequences

CONSTANTS
  Users,      \* slots of user processes
  Kernels,    \* kernel processes
  Idle,       \* the one that boots and runs the scheduler loop
  Word,       \* register contents that are told apart
  Zero,       \* the address 0
  UserStack   \* an address in the user stack

Proc == Users \cup Kernels

ASSUME TrapAssumption ==
  /\ Idle \in Kernels
  /\ Users \cap Kernels = {}
  /\ {Zero, UserStack} \cap Proc = {} /\ Zero # UserStack
  /\ 0 \in Word /\ 1 \in Word /\ Word \subseteq Nat

Address == Proc \cup {Zero, UserStack}

(* The registers: the program counter (before or after an ecall), the      *)
(* result register, the stack pointer, and x for the others (a1 aside).    *)
(* In S-mode pc is 1 inside arch_resume_from_trap, and 0 elsewhere.        *)
Regs == [pc : 0 .. 1, a0 : Word, x : Word, sp : Address]

(* sstatus: interrupts on, their value before the trap, the mode before    *)
(* the trap, and access to user pages.                                     *)
Status == [SIE : BOOLEAN, SPIE : BOOLEAN, SPP : {"U", "S"}, SUM : BOOLEAN]

Cause == {"irq", "ecall", "fault", "other"}

(* struct trap_frame, with the cause that handle_trap reads next to it.    *)
TrapFrame == [kind : {"trap"}, cause : Cause, regs : Regs, sstatus : Status]

(* What switch_context saves: ra is where the process goes on, in the      *)
(* kernel code that called yield or started, or in arch_resume_from_trap.  *)
SwitchFrame == [kind : {"switch"}, ra : {"kernel", "resume"}, sstatus : Status]

VARIABLES
  state,        \* "unused", "live" or "zombie"
  current_proc,
  mode,         \* "U" or "S"
  regs,         \* the registers of the hart
  sstatus,
  sscratch,
  stack,        \* the kernel stack of each process
  trap_frame    \* proc->trap_frame: registers and sstatus

vars == <<state, current_proc, mode, regs, sstatus, sscratch, stack, trap_frame>>

(* Kernel code that runs on the kernel stack of p.                         *)
KernelRegs(p) == [pc |-> 0, a0 |-> 0, x |-> 0, sp |-> p]

(* What the hart does to sstatus at a trap and at sret.                    *)
Trapped(st) == [SIE |-> FALSE, SPIE |-> st.SIE, SPP |-> mode, SUM |-> st.SUM]
Returned(st) == [SIE |-> st.SPIE, SPIE |-> TRUE, SPP |-> "U", SUM |-> st.SUM]

Top(s) == s[Len(s)]
Push(s, f) == Append(s, f)
Pop(s) == SubSeq(s, 1, Len(s) - 1)

(* The innermost trap that the code on stack s handles.                    *)
Handled(s) == IF s = <<>> THEN "none" ELSE Top(s).cause

----------------------------------------------------------------------------
(* New contexts.                                                           *)

Switch(ra, st) == [kind |-> "switch", ra |-> ra, sstatus |-> st]

(* Mutant: a child made in a system call inherits access to user memory.   *)
arch_init_switch_context_keeps_sum(p, st) ==
  IF p \in Users THEN Switch("resume", [st EXCEPT !.SIE = FALSE])
  ELSE Switch("kernel", [st EXCEPT !.SIE = TRUE])

(* The first switch frame of a process made while sstatus is st.           *)
arch_init_switch_context(p, st) ==
  IF p \in Users THEN Switch("resume", [st EXCEPT !.SIE = FALSE, !.SUM = FALSE])
  ELSE Switch("kernel", [st EXCEPT !.SIE = TRUE, !.SUM = FALSE])

UserStatus == [SIE |-> FALSE, SPIE |-> TRUE, SPP |-> "U", SUM |-> FALSE]

arch_init_user_context(argc) ==
  [regs |-> [pc |-> 0, a0 |-> argc, x |-> 0, sp |-> UserStack], sstatus |-> UserStatus]

arch_clone_user_context(parent) == [parent EXCEPT !.regs.a0 = 0]

(* A slot that was cleared with memset.                                    *)
Cleared ==
  [regs |-> [pc |-> 0, a0 |-> 0, x |-> 0, sp |-> Zero],
   sstatus |-> [SIE |-> FALSE, SPIE |-> FALSE, SPP |-> "U", SUM |-> FALSE]]

(* arch_trap_init, arch_trap_enable_interrupts: kernel_main runs as Idle,  *)
(* the other kernel processes are made and have not run yet.               *)
BootStatus == [SIE |-> TRUE, SPIE |-> FALSE, SPP |-> "U", SUM |-> FALSE]

Init ==
  /\ state = [p \in Proc |-> IF p \in Kernels THEN "live" ELSE "unused"]
  /\ current_proc = Idle
  /\ mode = "S"
  /\ regs = KernelRegs(Idle)
  /\ sstatus = BootStatus
  /\ sscratch = Zero
  /\ stack = [p \in Proc |-> IF p \in Kernels \ {Idle}
                             THEN <<arch_init_switch_context(p, BootStatus)>> ELSE <<>>]
  /\ trap_frame = [p \in Proc |-> Cleared]

----------------------------------------------------------------------------
(* Entry and return.                                                       *)

(* With sscratch 0 the trap comes from the kernel and stays on its stack.  *)
(* The saved stack pointer is what the swap left in sscratch, or, if that  *)
(* is 0, the address above the frame.                                      *)
EntryStack == IF sscratch = Zero THEN regs.sp ELSE sscratch

EntryBelow == IF sscratch = Zero THEN stack[regs.sp] ELSE <<>>

SavedSp == IF sscratch = Zero \/ regs.sp = Zero THEN EntryStack ELSE regs.sp

Frame(cause) ==
  [kind |-> "trap", cause |-> cause, regs |-> [regs EXCEPT !.sp = SavedSp],
   sstatus |-> Trapped(sstatus)]

(* Mutant: sscratch keeps what the swap at entry left in it.               *)
kernel_entry_keeps_sscratch(f) ==
  /\ stack' = [stack EXCEPT ![EntryStack] = Push(EntryBelow, f)]
  /\ regs' = KernelRegs(EntryStack)
  /\ mode' = "S"
  /\ UNCHANGED <<state, current_proc, sscratch>>

kernel_entry(f) ==
  /\ stack' = [stack EXCEPT ![EntryStack] = Push(EntryBelow, f)]
  /\ regs' = KernelRegs(EntryStack)
  /\ mode' = "S"
  /\ sscratch' = Zero
  /\ UNCHANGED <<state, current_proc>>

(* handle_trap has returned, f is what it left in the frame and stacks are *)
(* the kernel stacks then.  A return to U-mode puts the address above the  *)
(* frame into sscratch: the top of the stack, if this is its only frame.   *)
kernel_return(f, stacks) ==
  /\ sstatus' = Returned(f.sstatus)
  /\ mode' = f.sstatus.SPP
  /\ sscratch' = IF f.sstatus.SPP = "S" THEN sscratch
                 ELSE IF Len(stacks[regs.sp]) = 1 THEN regs.sp ELSE Zero
  /\ regs' = f.regs
  /\ stack' = [stacks EXCEPT ![regs.sp] = Pop(@)]
  /\ UNCHANGED current_proc

(* The trap of the innermost frame is being handled.  yield() changes      *)
(* current_proc before it leaves the stack; no handler runs in between.    *)
Handles(causes) ==
  /\ mode = "S" /\ regs.sp = current_proc
  /\ Handled(stack[regs.sp]) \in causes

InSyscall == Handles({"ecall"})

(* The code of a kernel process, outside interrupts.                       *)
InKernelProcess ==
  mode = "S" /\ current_proc \in Kernels /\ regs.sp = current_proc /\ stack[regs.sp] = <<>>

----------------------------------------------------------------------------
(* Switching processes.                                                    *)

(* yield() has chosen n and made it current.                               *)
Choose(n) == n # current_proc /\ state[n] = "live" /\ current_proc' = n

yield(n) ==
  /\ InSyscall \/ InKernelProcess
  /\ Choose(n)
  /\ UNCHANGED <<state, mode, regs, sstatus, sscratch, stack, trap_frame>>

(* Interrupts are off from the first instruction of switch_context on.     *)
(* A process that has not run yet goes on in arch_resume_from_trap.        *)
switch_context ==
  LET n == current_proc
      f == Top(stack[n])
  IN  /\ mode = "S" /\ regs.sp # n
      /\ Handled(stack[regs.sp]) # "irq"
      /\ stack' = [stack EXCEPT ![regs.sp] = Push(@, Switch("kernel", sstatus)), ![n] = Pop(@)]
      /\ sstatus' = f.sstatus
      /\ regs' = [KernelRegs(n) EXCEPT !.pc = IF f.ra = "resume" THEN 1 ELSE 0]
      /\ UNCHANGED <<state, current_proc, mode, sscratch, trap_frame>>

Resuming == mode = "S" /\ regs.pc = 1

(* arch_resume_from_trap up to the write of sscratch: from here on a trap  *)
(* would start at the top of the stack.                                    *)
resume_status ==
  /\ Resuming /\ sscratch = Zero
  /\ sstatus' = trap_frame[current_proc].sstatus
  /\ sscratch' = current_proc
  /\ UNCHANGED <<state, current_proc, mode, regs, stack, trap_frame>>

resume_registers ==
  /\ Resuming /\ sscratch # Zero
  /\ regs' = trap_frame[current_proc].regs
  /\ mode' = sstatus.SPP
  /\ sstatus' = Returned(sstatus)
  /\ UNCHANGED <<state, current_proc, sscratch, stack, trap_frame>>

----------------------------------------------------------------------------
(* User programs.                                                          *)

compute(v, s) ==
  /\ mode = "U"
  /\ regs' = [regs EXCEPT !.x = v, !.sp = s]
  /\ UNCHANGED <<state, current_proc, mode, sstatus, sscratch, stack, trap_frame>>

(* Mutant: the frame is not copied to proc->trap_frame.                    *)
ecall_no_copy ==
  /\ mode = "U"
  /\ kernel_entry([Frame("ecall") EXCEPT !.regs.pc = 1 - @])
  /\ sstatus' = [Trapped(sstatus) EXCEPT !.SUM = TRUE]
  /\ UNCHANGED trap_frame

(* arch_handle_ecall up to the call of syscall_dispatch.                   *)
ecall ==
  LET f == [Frame("ecall") EXCEPT !.regs.pc = 1 - @]
  IN  /\ mode = "U"
      /\ kernel_entry(f)
      /\ trap_frame' = [trap_frame EXCEPT ![current_proc] = [regs |-> f.regs, sstatus |-> f.sstatus]]
      /\ sstatus' = [Trapped(sstatus) EXCEPT !.SUM = TRUE]

Trap(cause) ==
  /\ kernel_entry(Frame(cause))
  /\ sstatus' = Trapped(sstatus)
  /\ UNCHANGED trap_frame

(* S-mode interrupts are always on in U-mode.                              *)
interrupt == (mode = "U" \/ sstatus.SIE) /\ Trap("irq")

(* A user program faults, or the kernel does on its behalf when it copies  *)
(* from or to user memory in a system call.                                *)
page_fault == (mode = "U" \/ InSyscall) /\ Trap("fault")

exception == mode = "U" /\ Trap("other")

----------------------------------------------------------------------------
(* handle_trap.                                                            *)

(* The drivers wake processes and leave the frame alone.                   *)
handle_external_interrupt ==
  /\ mode = "S" /\ Handled(stack[regs.sp]) = "irq"
  /\ kernel_return(Top(stack[regs.sp]), stack)
  /\ UNCHANGED <<state, trap_frame>>

proc_handle_user_page_fault ==
  /\ Handles({"fault"})
  /\ kernel_return(Top(stack[regs.sp]), stack)
  /\ UNCHANGED <<state, trap_frame>>

(* The process never comes back from its yield().                          *)
proc_exit(n) ==
  /\ Choose(n)
  /\ state' = [state EXCEPT ![current_proc] = "zombie"]
  /\ UNCHANGED <<mode, regs, sstatus, sscratch, stack, trap_frame>>

(* A fault that cannot be handled, or another exception, ends the process, *)
(* also in the middle of a system call.                                    *)
handle_trap_kills(n) == Handles({"fault", "other"}) /\ proc_exit(n)

----------------------------------------------------------------------------
(* System calls.                                                           *)

(* The end of arch_handle_ecall: f is the frame, stacks and frames are the *)
(* kernel stacks and trap frames that syscall_dispatch left.               *)
Finish(f, stacks, frames) ==
  /\ kernel_return(f, stacks)
  /\ trap_frame' = [frames EXCEPT ![current_proc] = [regs |-> f.regs, sstatus |-> f.sstatus]]

Result(v) == [Top(stack[regs.sp]) EXCEPT !.regs.a0 = v]

sys_return(v) == InSyscall /\ Finish(Result(v), stack, trap_frame) /\ UNCHANGED state

sys_exit(n) == InSyscall /\ proc_exit(n)

(* proc_exec has built a new context in proc->trap_frame: it replaces the  *)
(* frame.                                                                  *)
sys_exec(argc) ==
  LET new == arch_init_user_context(argc)
  IN  /\ InSyscall
      /\ Finish([Top(stack[regs.sp]) EXCEPT !.regs = new.regs, !.sstatus = new.sstatus],
                stack, trap_frame)
      /\ UNCHANGED state

(* fork fails if the stack pointer is outside the user stack; the result   *)
(* is the pid of the child.                                                *)
sys_fork(c) ==
  /\ InSyscall
  /\ state[c] = "unused"
  /\ trap_frame[current_proc].regs.sp = UserStack
  /\ state' = [state EXCEPT ![c] = "live"]
  /\ Finish(Result(1),
            [stack EXCEPT ![c] = <<arch_init_switch_context(c, sstatus)>>],
            [trap_frame EXCEPT ![c] = arch_clone_user_context(trap_frame[current_proc])])

(* waitpid of a parent and proc_reap_orphan_zombies clear the slot.        *)
reap(c) ==
  /\ InSyscall \/ InKernelProcess
  /\ state[c] = "zombie"
  /\ state' = [state EXCEPT ![c] = "unused"]
  /\ stack' = [stack EXCEPT ![c] = <<>>]
  /\ trap_frame' = [trap_frame EXCEPT ![c] = Cleared]
  /\ UNCHANGED <<current_proc, mode, regs, sstatus, sscratch>>

create_user_process(c) ==
  /\ InKernelProcess
  /\ state[c] = "unused"
  /\ state' = [state EXCEPT ![c] = "live"]
  /\ stack' = [stack EXCEPT ![c] = <<arch_init_switch_context(c, sstatus)>>]
  /\ trap_frame' = [trap_frame EXCEPT ![c] = arch_init_user_context(0)]
  /\ UNCHANGED <<current_proc, mode, regs, sstatus, sscratch>>

Next ==
  \/ \E v \in Word, s \in {Zero, UserStack} : compute(v, s)
  \/ ecall \/ interrupt \/ page_fault \/ exception
  \/ handle_external_interrupt \/ proc_handle_user_page_fault
  \/ switch_context \/ resume_status \/ resume_registers
  \/ \E n \in Proc : yield(n) \/ handle_trap_kills(n) \/ sys_exit(n)
  \/ \E v \in Word : sys_return(v) \/ sys_exec(v)
  \/ \E c \in Users : sys_fork(c) \/ reap(c) \/ create_user_process(c)

Spec == Init /\ [][Next]_vars

----------------------------------------------------------------------------
(* Properties.                                                             *)

(* Types of the variables: what kernel_entry, switch_context and the       *)
(* context builders store.                                                 *)
TypeOK ==
  /\ state \in [Proc -> {"unused", "live", "zombie"}]
  /\ current_proc \in Proc
  /\ mode \in {"U", "S"}
  /\ regs \in Regs
  /\ sstatus \in Status
  /\ sscratch \in Proc \cup {Zero}
  /\ stack \in [Proc -> Seq(TrapFrame \cup SwitchFrame)]
  /\ trap_frame \in [Proc -> [regs : Regs, sstatus : Status]]

(* kernel_entry finds the right stack for the next trap, wherever it comes *)
(* from: in U-mode sscratch is the top of the current process's own empty  *)
(* kernel stack; in the kernel it is 0 and sp is on a stack that nobody    *)
(* else runs on, except at the end of arch_resume_from_trap, where no trap *)
(* can come.  Nothing nests deeper than a fault in a system call that was  *)
(* switched away.                                                          *)
OwnKernelStack ==
  /\ mode = "U" => /\ current_proc \in Users
                   /\ sscratch = current_proc
                   /\ stack[current_proc] = <<>>
  /\ mode = "S" => /\ regs.sp \in Proc
                   /\ sscratch # Zero => Resuming /\ sscratch = regs.sp /\ ~sstatus.SIE
  /\ \A p \in Proc : Len(stack[p]) <= 3

(* What sstatus is, wherever the kernel is entered or resumed: interrupts  *)
(* are on exactly in the code of kernel processes, and user memory is      *)
(* accessible exactly in system calls and in the faults they take, however *)
(* processes are switched in between.  Saved frames never turn interrupts  *)
(* on before their sret.                                                   *)
StatusMatchesContext ==
  /\ mode = "S" =>
       /\ sstatus.SIE <=> regs.sp \in Kernels /\ stack[regs.sp] = <<>>
       /\ sstatus.SUM <=> /\ regs.sp \in Users /\ stack[regs.sp] # <<>>
                          /\ stack[regs.sp][1].cause = "ecall"
  /\ mode = "U" => ~sstatus.SUM /\ sstatus.SIE
  /\ \A p \in Proc : \A i \in 1 .. Len(stack[p]) :
       stack[p][i].kind = "trap" => ~stack[p][i].sstatus.SIE

(* The registers of a user process, wherever they are.                     *)
UserContext(p) ==
  IF state[p] # "live" THEN [pc |-> -1, a0 |-> -1, x |-> -1, sp |-> Zero]
  ELSE IF mode = "U" /\ current_proc = p THEN regs
  ELSE IF stack[p] # <<>> /\ stack[p][1].kind = "trap" THEN stack[p][1].regs
  ELSE trap_frame[p].regs

UserRegs == [p \in Users |-> UserContext(p)]

Contexts == INSTANCE UserContexts WITH ctx <- UserRegs

(* Every user process has registers of its own: interrupts, page faults,   *)
(* context switches and the system calls, forks and exits of others leave  *)
(* them as they are.                                                       *)
ImplementsUserContexts == Contexts!Spec
=============================================================================
