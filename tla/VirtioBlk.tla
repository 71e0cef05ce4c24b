----------------------------- MODULE VirtioBlk -----------------------------
(***************************************************************************)
(* The block driver (drivers/virtio/virtio_blk.c): BLK_REQ_MAX slots, each *)
(* with three descriptors of its own, the two rings, and the wait queue on *)
(* which a reader sleeps for a slot and for its answer.                    *)
(*                                                                         *)
(* Readers are processes in system calls: interrupts are off, and a reader *)
(* keeps the CPU until it sleeps.  The device runs beside them and may     *)
(* complete requests in any order.  What a reader does with a sector is    *)
(* in the module that extends this one.                                    *)
(***************************************************************************)
EXTENDS Integers, Sequences, Functions, FiniteSetsExt

CONSTANTS
  Caller,        \* the processes that read
  BLK_REQ_MAX,   \* slots
  Sector,        \* the sectors of the device
  MaxErrors      \* bound: requests the device fails although the sector exists

ASSUME VirtioBlkAssumption ==
  /\ BLK_REQ_MAX \in Nat \ {0}
  /\ Sector \subseteq Nat
  /\ MaxErrors \in Nat

VARIABLES
  blk_ready,
  blk_slots,     \* whether each slot is in use, and its answer
  desc,          \* the request that the descriptors of each slot describe
  avail,         \* slots in the available ring that the device has not taken
  taken,         \* slots the device works on
  used,          \* slots in the used ring behind used_idx
  unnotified,    \* the device has yet to raise its interrupt for the used ring
  isr,           \* the device asserts its interrupt
  blk_waitq,
  run,           \* each caller: not in the kernel, on the CPU, asleep or runnable
  loop,          \* the loop of blk_read it is in: for a slot, or for its answer
  request,       \* the arguments of its blk_read: a sector, a part of a buffer
  slot_idx,      \* its slot
  memory,        \* the sector that each part of each buffer holds
  errors         \* how many requests the device has failed

rings == <<avail, taken, used, unnotified, isr>>
blkVars == <<blk_ready, blk_slots, desc, rings, blk_waitq, run, loop, request, slot_idx, memory, errors>>

BlkSlot == 0 .. BLK_REQ_MAX - 1

FreeSlot == [in_use |-> FALSE, done |-> FALSE, status |-> "none"]

NoSector == 0 - 1

NoRequest == [sector |-> NoSector, buf |-> "none", part |-> 0]

(* The static variables before blk_init, with the given buffers.           *)
BlkInit(mem) ==
  /\ blk_ready = FALSE
  /\ blk_slots = [i \in BlkSlot |-> FreeSlot]
  /\ desc = [i \in BlkSlot |-> NoRequest]
  /\ avail = <<>> /\ taken = {} /\ used = <<>> /\ unnotified = FALSE /\ isr = FALSE
  /\ blk_waitq = {}
  /\ run = [c \in Caller |-> "out"]
  /\ loop = [c \in Caller |-> "none"]
  /\ request = [c \in Caller |-> NoRequest]
  /\ slot_idx = [c \in Caller |-> 0]
  /\ memory = mem
  /\ errors = 0

(* c has the CPU, or gets it because nobody else is in the kernel.         *)
OnCpu(c) == run[c] # "asleep" /\ \A d \in Caller \ {c} : run[d] # "running"

----------------------------------------------------------------------------
(* The driver.                                                             *)

(* A device is found and set up; rings and slots are cleared.              *)
blk_init ==
  /\ blk_ready' = TRUE
  /\ blk_slots' = [i \in BlkSlot |-> FreeSlot]
  /\ desc' = [i \in BlkSlot |-> NoRequest]
  /\ avail' = <<>> /\ taken' = {} /\ used' = <<>> /\ unnotified' = FALSE /\ isr' = FALSE
  /\ blk_waitq' = {}

(* The slots when the used ring has been worked off.                       *)
blk_process_used_locked ==
  [i \in BlkSlot |-> IF i \in Range(used) /\ blk_slots[i].in_use
                  THEN [blk_slots[i] EXCEPT !.done = TRUE] ELSE blk_slots[i]]

(* All of blk_waitq is woken.                                              *)
Woken == [c \in Caller |-> IF c \in blk_waitq /\ run[c] = "asleep" THEN "runnable" ELSE run[c]]

waitq_sleep(c) ==
  /\ blk_waitq' = blk_waitq \cup {c}
  /\ run' = [run EXCEPT ![c] = "asleep"]

(* The first loop of blk_read: a slot is found and the request submitted,  *)
(* or the caller sleeps.                                                   *)
blk_read_slot(c) ==
  LET slots == blk_process_used_locked
      free == {i \in BlkSlot : ~slots[i].in_use}
      i == Min(free)
  IN  /\ OnCpu(c) /\ loop[c] = "slot"
      /\ used' = <<>>
      /\ \/ /\ free = {}
            /\ blk_slots' = slots
            /\ waitq_sleep(c)
            /\ UNCHANGED <<desc, avail, loop, slot_idx>>
         \/ /\ free # {}
            /\ blk_slots' = [slots EXCEPT ![i] = [in_use |-> TRUE, done |-> FALSE, status |-> "none"]]
            /\ avail' = Append(avail, i)
            /\ run' = [run EXCEPT ![c] = "running"]
            /\ loop' = [loop EXCEPT ![c] = "answer"]
            /\ slot_idx' = [slot_idx EXCEPT ![c] = i]
            /\ desc' = [desc EXCEPT ![i] = request[c]]
            /\ UNCHANGED blk_waitq
      /\ UNCHANGED <<blk_ready, taken, unnotified, isr, request, memory, errors>>

(* The second loop: no answer yet.                                         *)
blk_read_sleep(c) ==
  LET slots == blk_process_used_locked
  IN  /\ OnCpu(c) /\ loop[c] = "answer"
      /\ ~slots[slot_idx[c]].done
      /\ blk_slots' = slots
      /\ used' = <<>>
      /\ waitq_sleep(c)
      /\ UNCHANGED <<blk_ready, desc, avail, taken, unnotified, isr, loop, request, slot_idx, memory, errors>>

(* The second loop: blk_read returns.  The caller goes on with new values  *)
(* of run and loop, where all that slept have been woken, and request.     *)
blk_read_return_early(c) ==
  LET slots == blk_process_used_locked
  IN  /\ OnCpu(c) /\ loop[c] = "answer"
      /\ blk_slots' = [slots EXCEPT ![slot_idx[c]].done = FALSE,
                                    ![slot_idx[c]].in_use = FALSE]
      /\ used' = <<>>
      /\ blk_waitq' = {}
      /\ UNCHANGED <<blk_ready, desc, avail, taken, unnotified, isr, slot_idx, memory, errors>>

blk_read_return(c) ==
  LET slots == blk_process_used_locked
  IN  /\ OnCpu(c) /\ loop[c] = "answer"
      /\ slots[slot_idx[c]].done
      /\ blk_slots' = [slots EXCEPT ![slot_idx[c]].done = FALSE,
                                    ![slot_idx[c]].in_use = FALSE]
      /\ used' = <<>>
      /\ blk_waitq' = {}
      /\ UNCHANGED <<blk_ready, desc, avail, taken, unnotified, isr, slot_idx, memory, errors>>

(* What it returns.                                                        *)
ReadOk(c) == blk_slots[slot_idx[c]].status = "ok"

(* Interrupts are taken when nobody is in the kernel.                      *)
blk_handle_irq_no_wake ==
  /\ isr
  /\ \A c \in Caller : run[c] # "running"
  /\ isr' = FALSE
  /\ blk_slots' = blk_process_used_locked
  /\ used' = <<>>
  /\ UNCHANGED <<blk_ready, desc, avail, taken, unnotified, blk_waitq, run, loop, request, slot_idx,
                 memory, errors>>

blk_handle_irq ==
  /\ isr
  /\ \A c \in Caller : run[c] # "running"
  /\ isr' = FALSE
  /\ blk_slots' = blk_process_used_locked
  /\ used' = <<>>
  /\ run' = Woken
  /\ blk_waitq' = {}
  /\ UNCHANGED <<blk_ready, desc, avail, taken, unnotified, loop, request, slot_idx, memory, errors>>

----------------------------------------------------------------------------
(* The device.                                                             *)

device_takes ==
  /\ avail # <<>>
  /\ taken' = taken \cup {Head(avail)}
  /\ avail' = Tail(avail)
  /\ UNCHANGED <<blk_ready, blk_slots, desc, used, unnotified, isr, blk_waitq, run, loop, request, slot_idx,
                 memory, errors>>

(* The data goes to the buffer, or the device reports an error.            *)
device_completes(i, ok) ==
  LET r == desc[i]
  IN  /\ i \in taken
      /\ ok => r.sector \in Sector
      /\ ~ok /\ r.sector \in Sector => errors < MaxErrors
      /\ taken' = taken \ {i}
      /\ used' = Append(used, i)
      /\ unnotified' = TRUE
      /\ blk_slots' = [blk_slots EXCEPT ![i].status = IF ok THEN "ok" ELSE "error"]
      /\ memory' = IF ok THEN [memory EXCEPT ![r.buf][r.part] = r.sector] ELSE memory
      /\ errors' = IF ~ok /\ r.sector \in Sector THEN errors + 1 ELSE errors
      /\ UNCHANGED <<blk_ready, desc, avail, isr, blk_waitq, run, loop, request, slot_idx>>

device_notifies ==
  /\ unnotified
  /\ unnotified' = FALSE
  /\ isr' = TRUE
  /\ UNCHANGED <<blk_ready, blk_slots, desc, avail, taken, used, blk_waitq, run, loop, request, slot_idx,
                 memory, errors>>

Device == device_takes \/ (\E i \in BlkSlot, ok \in BOOLEAN : device_completes(i, ok)) \/ device_notifies
=============================================================================
