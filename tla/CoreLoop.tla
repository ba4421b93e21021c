------------------------------- MODULE CoreLoop -------------------------------
(* The machine after the allocators are up: kmain brings up the disk, the     *)
(* interrupt controller and the timer, and the core thread then goes round    *)
(* its loop - pump the console, poll Core, drain deferred work, sleep - while *)
(* interrupts, the disk, the user and power failures act beside it.           *)
EXTENDS Integers, Sequences, FiniteSets, Irq, WorkQueue, Console, VirtioBlk, FatWal

CONSTANTS
  CONFIG_TICK_HZ,
  Machines        \* what Init chooses from: the virtio slots, the build (tickless
                  \* or not) and, as bounds, the one kind of traffic ("console",
                  \* "work" or "disk"), the kinds and number of file operations,
                  \* the kinds and number of faults

(* Fewer requests are given up than the ring has indices. *)
ASSUME MachinesAssumption ==
  \A m \in Machines : m.faults \in Nat /\ ("timeout" \in m.may => m.faults + 1 < IDX)

VARIABLES
  pc,              \* where the core thread (before it: kmain) is
  polled,          \* events core_poll has taken in this call
  tm, gic, lines,  \* timer, interrupt controller, the device line
  handlers, masked,
  q, item, order,  \* the work queue; where each item is; ghost: enqueue order
  env              \* the machine Init chose

irqVars == <<tm, gic, lines, handlers, masked>>
workVars == <<q, item, order>>
threadVars == <<pc, polled>>
vars == <<threadVars, irqVars, workVars, consoleVars, blkVars, fs, env>>

Init ==
  /\ pc = "block" /\ polled = 0
  /\ tm = TimerOff /\ gic = GicOff /\ lines = {} /\ handlers = {} /\ masked = TRUE
  /\ q = workq_init /\ item = [i \in Items |-> "free"] /\ order = <<>>
  /\ ConsoleInit /\ FsInit
  /\ env \in Machines
  /\ blk = BlkOff /\ dev = Idle /\ disk = FreshDisk
  /\ faults = [may |-> env.may, left |-> env.faults, late |-> FALSE]

(* --------------------------------- start-up ------------------------------- *)

(* hal_block_init; the test read of LBA 0 that follows needs a device. *)
hal_block_init ==
  /\ pc = "block"
  /\ virtio_blk_init(env.slots)
  /\ pc' = IF blk'.ready THEN "sanity" ELSE "irq_init"
  /\ UNCHANGED <<polled, irqVars, workVars, consoleVars, fs, env>>

block_sanity_test ==
  /\ pc = "sanity"
  /\ Submit("in", "boot", Clear)
  /\ UNCHANGED <<threadVars, irqVars, workVars, consoleVars, fs, env>>

(* Whatever the result, it is only logged. *)
SanityReturns ==
  /\ pc = "sanity"
  /\ \/ (PolledOk \/ PolledFail) /\ Polled
     \/ TimedOut
  /\ pc' = "irq_init"
  /\ UNCHANGED <<polled, irqVars, workVars, consoleVars, dev, disk, fs, env>>

(* Interrupts stay masked until the handler and the timer are in place.  The  *)
(* second line is that of a device driver that defers work.                   *)
hal_irq_init ==
  /\ pc = "irq_init"
  /\ masked' = TRUE
  /\ gic' = gicv2_enable_irq(gicv2_enable_irq(gicv2_config_irq(gicv2_init(gic), TIMER_PPI_IRQ, FALSE),
                                              TIMER_PPI_IRQ), DEV_IRQ)
  /\ handlers' = irq_register(irq_register(handlers, TIMER_PPI_IRQ), DEV_IRQ)
  /\ tm' = timer_init_hz(tm, CONFIG_TICK_HZ, env.tickless)
  /\ pc' = "irq_on"
  /\ UNCHANGED <<polled, lines, workVars, consoleVars, blkVars, fs, env>>

(* irq_global_enable and the switch to the core thread. *)
irq_global_enable ==
  /\ pc = "irq_on"
  /\ masked' = FALSE /\ pc' = "pump"
  /\ UNCHANGED <<polled, tm, gic, lines, handlers, workVars, consoleVars, blkVars, fs, env>>

(* ------------------------------- the core thread -------------------------- *)

Goto(next) == pc' = next /\ UNCHANGED <<irqVars, workVars, blkVars, fs, env>>

Pump ==
  \/ pc = "pump" /\ PumpCommand /\ Goto("pump") /\ UNCHANGED polled
  \/ pc = "pump" /\ cmd = <<>> /\ Goto("rx") /\ UNCHANGED <<polled, consoleVars>>
  \/ pc = "rx" /\ PumpRx /\ Goto("rx") /\ UNCHANGED polled
  \/ pc = "rx" /\ fifo = <<>> /\ Goto("poll") /\ polled' = 0 /\ UNCHANGED consoleVars

core_poll ==
  \/ /\ pc = "poll" /\ polled < POLL_MAX
     /\ PollEvent /\ polled' = polled + 1 /\ Goto("poll")
  \/ /\ pc = "poll" /\ fs.step = "idle" /\ (polled = POLL_MAX \/ evt = <<>>)
     /\ polled' = 0 /\ Goto("drain") /\ UNCHANGED consoleVars

(* A command of the shell that writes a file runs inside core_poll, one block *)
(* call after the other; without a device every call fails.                   *)
StartFile ==
  /\ pc = "poll" /\ env.load = "disk" /\ fs.v < env.ops
  /\ \E kind \in env.kinds : StartOperation(kind)
  /\ UNCHANGED <<threadVars, irqVars, workVars, consoleVars, blkVars, env>>

BlockCall ==
  /\ pc = "poll" /\ fs.step # "idle"
  /\ IF blk.ready THEN Submit(Call[1], Call[2], Call[3]) /\ UNCHANGED fs
                  ELSE fs' = After(FALSE, Clear) /\ UNCHANGED blkVars
  /\ UNCHANGED <<threadVars, irqVars, workVars, consoleVars, env>>

BlockReturns ==
  /\ pc = "poll" /\ fs.step # "idle"
  /\ \/ PolledOk /\ Polled /\ fs' = After(TRUE, blk.buf)
     \/ PolledFail /\ Polled /\ fs' = After(FALSE, blk.buf)
     \/ TimedOut /\ fs' = After(FALSE, blk.buf)
  /\ UNCHANGED <<threadVars, irqVars, workVars, consoleVars, dev, disk, env>>

Drain ==
  /\ pc = "drain"
  /\ pc' = IF q.head = NULL THEN "wfi" ELSE "run"
  /\ q' = workq_dequeue(q)
  /\ item' = IF q.head = NULL THEN item ELSE [item EXCEPT ![q.head] = "running"]
  /\ order' = IF q.head = NULL THEN order ELSE Tail(order)
  /\ UNCHANGED <<polled, irqVars, consoleVars, blkVars, fs, env>>

(* it->fn(it->arg), then work_item_free. *)
RunItem ==
  /\ pc = "run"
  /\ pc' = "drain"
  /\ item' = [i \in Items |-> IF item[i] = "running" THEN "free" ELSE item[i]]
  /\ UNCHANGED <<polled, irqVars, q, order, consoleVars, blkVars, fs, env>>

(* An interrupt served before this instruction does not wake it. *)
Wfi == pc = "wfi" /\ Goto("sleep") /\ UNCHANGED <<polled, consoleVars>>

(* ------------------------------- interrupts ------------------------------- *)

Up == lines \cup (IF TimerLine(tm) THEN {TIMER_PPI_IRQ} ELSE {})

(* What the handler of an interrupt does: the timer's re-arms it, the         *)
(* device's quiets the line and defers the items prepared for it.             *)
Handler(id) ==
  \/ /\ id = TIMER_PPI_IRQ /\ id \in handlers
     /\ tm' = event_handle_irq(tm)
     /\ UNCHANGED <<lines, workVars>>
  \/ /\ id = DEV_IRQ /\ id \in handlers
     /\ lines' = lines \ {id}
     /\ \E i \in Items :
          /\ item[i] = "held"
          /\ q' = workq_enqueue_from_irq(q, i)
          /\ item' = [item EXCEPT ![i] = "queued"]
          /\ order' = Append(order, i)
     /\ UNCHANGED tm
  \/ id \notin handlers /\ UNCHANGED <<tm, lines, workVars>>

(* irq_dispatch: acknowledge, handle, end.  It runs with interrupts masked,   *)
(* and an interrupt ends the sleep of the core thread.                        *)
irq_dispatch(id) ==
  /\ ~masked /\ id \in gicv2_acknowledge(gic, Up)
  /\ Handler(id)
  /\ gic' = gicv2_end_interrupt(Activate(gic, id), id)
  /\ pc' = IF pc = "sleep" THEN "pump" ELSE pc
  /\ UNCHANGED <<polled, handlers, masked, consoleVars, blkVars, fs, env>>

(* ------------------------------- surroundings ----------------------------- *)

Elapses ==
  /\ tm.ctl /\ tm.cval > 0
  /\ tm' = Elapse(tm)
  /\ UNCHANGED <<threadVars, gic, lines, handlers, masked, workVars, consoleVars, blkVars, fs, env>>

(* A driver prepares an item in thread context and its device interrupts. *)
work_item_alloc(i) ==
  /\ env.load = "work" /\ item[i] = "free" /\ pc = "poll"
  /\ item' = [item EXCEPT ![i] = "held"]
  /\ UNCHANGED <<threadVars, irqVars, q, order, consoleVars, blkVars, fs, env>>

DeviceRaises ==
  /\ DEV_IRQ \notin lines /\ \E i \in Items : item[i] = "held"
  /\ lines' = lines \cup {DEV_IRQ}
  /\ UNCHANGED <<threadVars, tm, gic, handlers, masked, workVars, consoleVars, blkVars, fs, env>>

User ==
  /\ env.load = "console" /\ ~masked
  /\ Type \/ ClientSends
  /\ UNCHANGED <<threadVars, irqVars, workVars, blkVars, fs, env>>

Disk ==
  /\ DeviceFetches \/ DeviceCompletes
  /\ UNCHANGED <<threadVars, irqVars, workVars, consoleVars, fs, env>>

(* Power fails and comes back: memory and what the device had in work are     *)
(* gone, the disk stays.                                                      *)
Crash ==
  /\ env.load = "disk" /\ Fault("crash") /\ UNCHANGED <<disk, env>>
  /\ pc' = "block" /\ polled' = 0
  /\ tm' = TimerOff /\ gic' = GicOff /\ lines' = {} /\ handlers' = {} /\ masked' = TRUE
  /\ q' = workq_init /\ item' = [i \in Items |-> "free"] /\ order' = <<>>
  /\ fifo' = <<>> /\ cmd' = <<>> /\ evt' = <<>> /\ con' = con
  /\ blk' = BlkOff /\ dev' = Idle
  /\ fs' = Stopped

core_thread_entry ==
  \/ hal_block_init \/ block_sanity_test \/ SanityReturns \/ hal_irq_init \/ irq_global_enable
  \/ Pump \/ core_poll \/ StartFile \/ BlockCall \/ BlockReturns
  \/ Drain \/ RunItem \/ Wfi

Next ==
  \/ core_thread_entry
  \/ \E id \in {TIMER_PPI_IRQ, DEV_IRQ, SPURIOUS} : irq_dispatch(id)
  \/ Elapses
  \/ \E i \in Items : work_item_alloc(i)
  \/ DeviceRaises
  \/ User
  \/ Disk
  \/ Crash

(* The processor goes on executing; time passes up to the timer's deadline    *)
(* and the timer's interrupt, once unmasked, is taken.  A request the disk    *)
(* never answers ends in a time-out; as those are bounded here, the disk      *)
(* answers the others.  Nothing is asked of the user or the drivers.          *)
Fairness ==
  /\ WF_vars(core_thread_entry)
  /\ WF_vars(Elapses \/ irq_dispatch(TIMER_PPI_IRQ))
  /\ WF_vars(Disk)

Spec == Init /\ [][Next]_vars /\ Fairness

(* ------------------------------- properties ------------------------------- *)

(* The links from head to tail go through exactly the items that were queued  *)
(* and not yet taken, each once and in the order in which the handlers queued *)
(* them: no item is lost, run twice or freed while linked.                    *)
WorkInOrder ==
  /\ Spells(Items, NULL, order, q.head, q.tail, q.next)
  /\ \A i \in Items : (item[i] = "queued") <=> (\E k \in DOMAIN order : order[k] = i)

(* Whatever an interrupt deferred is drained, typed characters are fetched    *)
(* and a file operation comes to an end, although only an interrupt - in the  *)
(* end the next tick - wakes the core thread: the timer never stops, in both  *)
(* builds, and no disk call keeps the thread for ever.                        *)
EveryInputIsServed ==
  /\ (q.head # NULL) ~> (q.head = NULL)
  /\ (fifo # <<>>) ~> (fifo = <<>>)
  /\ (fs.step # "idle") ~> (fs.step = "idle")

(* A metadata sector always holds what was written to that sector: the last   *)
(* acknowledged version or one begun after it, over failed calls, crashes and *)
(* replays.  The one exception is a write that stopped between the two log    *)
(* writes (or a call that timed out): the log then names a sector whose data  *)
(* it does not hold.                                                          *)
OnlyTheLogWindowTearsASector ==
  fs.window \/ faults.late
    \/ \A t \in Meta : /\ disk[t].w = "sector" /\ disk[t].of = Origin(t)
                       /\ disk[t].v >= fs.acked[t] /\ disk[t].v <= fs.begun[t]
===============================================================================
