------------------------------- MODULE MCTrap -------------------------------
(* Trap with two user processes and the two kernel processes of the boot.  *)
EXTENDS Trap

(* proc->trap_frame is read while its process has not run yet, and by fork *)
(* in a system call, whose ecall has written it.  Any other is overwritten *)
(* before it is read.                                                      *)
TrapFrameMatters(p) ==
  \/ stack[p] = <<>> /\ ~(mode = "U" /\ current_proc = p)
  \/ stack[p] # <<>> /\ stack[p][1].kind = "switch"
  \/ stack[p] # <<>> /\ stack[p][1].kind = "trap" /\ stack[p][1].cause = "ecall"

WithoutStaleFrames ==
  <<state, current_proc, mode, regs, sstatus, sscratch, stack,
    [p \in Users |-> IF TrapFrameMatters(p) THEN trap_frame[p] ELSE Cleared]>>
=============================================================================
