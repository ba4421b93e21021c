------------------------------- MODULE VirtioBlk -------------------------------
(* The polled block driver of virtio_blk.c and the device behind it.  The     *)
(* driver uses one descriptor chain, so the request, the status byte and the  *)
(* buffer are single places that driver and device share.  The buffer is the  *)
(* bounce page of core_kernel_api.c: the page allocator hands the page just   *)
(* freed out again, so every call gets the same one.                          *)
EXTENDS Integers, Sequences, FiniteSets

CONSTANTS
  IDX            \* ring indices wrap here (2^16)

ASSUME IdxAssumption == IDX \in Nat /\ IDX > 1

VARIABLES
  blk,       \* g_blk and the memory it shares with the device
  dev,       \* the device: ring entries seen, the request in work
  disk,      \* the sectors
  faults     \* bound: which faults may still happen ("error", "timeout",
             \* "crash") and how many; ghost: whether a call ever timed out

blkVars == <<blk, dev, disk, faults>>

Fault(kind) ==
  /\ kind \in faults.may /\ faults.left > 0
  /\ faults' = [faults EXCEPT !.left = @ - 1, !.late = @ \/ kind = "timeout"]

NoRequest == [type |-> "none", sector |-> "none"]
Idle == [seen |-> 0, cur |-> <<>>]
BlkOff == [ready |-> FALSE, avail |-> 0, used |-> 0, last_used |-> 0, req |-> NoRequest,
           status |-> "ff", buf |-> [w |-> "junk"], want |-> [w |-> "junk"], busy |-> FALSE, late |-> FALSE]

(* A slot passes when it is a block device that accepts no features, has a    *)
(* queue, and its rings can be allocated.                                     *)
virtio_blk_probe(slot) ==
  /\ slot.magic /\ slot.version \in {1, 2} /\ slot.device_id = "block"
  /\ slot.features_ok /\ slot.queue_max > 0 /\ slot.pages

(* The first slot that passes; its reset drops what the device was doing. *)
virtio_blk_init(slots) ==
  /\ blk' = [BlkOff EXCEPT !.ready = \E i \in DOMAIN slots : virtio_blk_probe(slots[i])]
  /\ dev' = Idle
  /\ UNCHANGED <<disk, faults>>

(* virtio_blk_read and virtio_blk_write up to the notification.  want keeps   *)
(* (as a ghost) what a write is to leave in its sector.                       *)
Submit(type, sector, data) ==
  /\ blk.ready /\ ~blk.busy
  /\ blk' = [blk EXCEPT !.req = [type |-> type, sector |-> sector], !.status = "ff",
                        !.buf = IF type = "out" THEN data ELSE @, !.want = data,
                        !.avail = (@ + 1) % IDX, !.busy = TRUE]
  /\ UNCHANGED <<dev, disk, faults>>

(* Mutant: the status byte is not looked at. *)
PolledOkAnyStatus == blk.busy /\ blk.used # blk.last_used

(* The poll sees a used index other than the last one; the call succeeds if   *)
(* the status byte is zero.                                                   *)
PolledOk == blk.busy /\ blk.used # blk.last_used /\ blk.status = "ok"
PolledFail == blk.busy /\ blk.used # blk.last_used /\ ~PolledOk
Polled == blk' = [blk EXCEPT !.last_used = blk.used, !.busy = FALSE] /\ UNCHANGED faults

(* The poll gives up; the queue stays as it is. *)
TimedOut ==
  /\ blk.busy /\ blk.used = blk.last_used /\ Fault("timeout")
  /\ blk' = [blk EXCEPT !.busy = FALSE, !.late = TRUE]

(* ------------------------------- the device ------------------------------- *)

DeviceFetches ==
  /\ blk.ready /\ dev.cur = <<>> /\ dev.seen # blk.avail
  /\ dev' = [seen |-> (dev.seen + 1) % IDX,
             cur |-> <<blk.req>>]
  /\ UNCHANGED <<blk, disk, faults>>

(* The data moves when the request is carried out, the status and the used    *)
(* index follow.  A write that fails may have reached the disk.               *)
DeviceCompletes ==
  LET r == dev.cur[1]
      wrote == [disk EXCEPT ![r.sector] = blk.buf]
  IN /\ dev.cur # <<>>
     /\ \E ok \in BOOLEAN :
          /\ IF ok THEN UNCHANGED faults ELSE Fault("error")
          /\ disk' \in IF r.type = "in" THEN {disk} ELSE IF ok THEN {wrote} ELSE {disk, wrote}
          /\ blk' = [blk EXCEPT !.used = (@ + 1) % IDX, !.status = IF ok THEN "ok" ELSE "err",
                                !.buf = IF ok /\ r.type = "in" THEN disk[r.sector] ELSE @]
     /\ dev' = [dev EXCEPT !.cur = <<>>]

Outstanding == dev.cur # <<>> \/ dev.seen # blk.avail

(* A call about to return true has done what it was asked: a write is on the  *)
(* disk, a read has the sector's contents in the buffer.  After a time-out    *)
(* this is left only of reads, and only when the device has nothing more to   *)
(* do: a late completion may answer for the present request, and a late read  *)
(* puts its data into the page from which the present write is taken.         *)
TrueMeansDone ==
  PolledOk /\ (blk.late => ~Outstanding /\ blk.req.type = "in") =>
    disk[blk.req.sector] = IF blk.req.type = "out" THEN blk.want ELSE blk.buf
===============================================================================
