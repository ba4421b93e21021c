---------------------------------- MODULE Irq ----------------------------------
(* The interrupt path below the scheduler: the generic timer                  *)
(* (timer_generic.c), the interrupt controller (gicv2.c) and the handler      *)
(* table of irq.c.  A deadline is kept as the time left until it, 0 once it   *)
(* has passed; counters that only feed statistics are left out.               *)
EXTENDS Integers, FiniteSets

CONSTANTS CNTFRQ   \* counter steps in a second (cntfrq_el0)

TIMER_PPI_IRQ == 27
DEV_IRQ == 48       \* the line of a device whose handler defers work
SPURIOUS == 1023
IRQ_MAX == 1024

(* ---------------------------------- timer --------------------------------- *)

TimerOff == [mode |-> "off", ctl |-> FALSE, cval |-> 0, next_deadline |-> 0,
             period_ticks |-> 0, tick_period_ticks |-> 0, tickless_periodic |-> FALSE]

hz_to_period_ticks(hz) == IF hz = 0 THEN 0 ELSE CNTFRQ \div hz

Compare(t, left) == [t EXCEPT !.next_deadline = left, !.cval = left]
Program(t, left) == [Compare(t, left) EXCEPT !.ctl = TRUE]

event_disable(t) == [t EXCEPT !.mode = "off", !.tickless_periodic = FALSE, !.ctl = FALSE]

event_arm_periodic(t, hz) ==
  LET period == hz_to_period_ticks(hz)
  IN IF period = 0 THEN event_disable(t)
     ELSE Program([t EXCEPT !.period_ticks = period, !.mode = "periodic",
                            !.tickless_periodic = FALSE], period)

timer_init_hz(t0, hz, tickless) ==
  LET t == [t0 EXCEPT !.tick_period_ticks = hz_to_period_ticks(hz)]
  IN IF t.tick_period_ticks = 0 THEN event_disable(t)
     ELSE IF tickless
       THEN Program([t EXCEPT !.tickless_periodic = TRUE, !.mode = "oneshot"],
                    t.tick_period_ticks)
     ELSE event_arm_periodic([t EXCEPT !.tickless_periodic = FALSE], hz)

(* Mutant: a one-shot is always disarmed. *)
event_handle_irq_once(t) ==
  IF t.mode = "periodic" THEN Compare(t, t.period_ticks) ELSE event_disable(t)

(* Re-armed before the handler returns, or disarmed for good. *)
event_handle_irq(t) ==
  IF t.mode = "periodic"
    THEN Compare(t, IF t.next_deadline = 0 THEN t.period_ticks
                                           ELSE t.next_deadline + t.period_ticks)
  ELSE IF t.mode = "oneshot" /\ t.tickless_periodic /\ t.tick_period_ticks # 0
    THEN Compare(t, t.tick_period_ticks)
  ELSE event_disable(t)

Older(n) == IF n = 0 THEN 0 ELSE n - 1
Elapse(t) == [t EXCEPT !.cval = Older(@), !.next_deadline = Older(@)]
TimerLine(t) == t.ctl /\ t.cval = 0

(* ----------------------------------- GIC ---------------------------------- *)

(* After reset the private interrupts are in group 1, the shared ones in 0. *)
GicOff == [on |-> FALSE, group0 |-> {DEV_IRQ}, edge |-> {}, enabled |-> {}, active |-> {}]

gicv2_init(g) == [g EXCEPT !.on = TRUE, !.group0 = @ \cup {TIMER_PPI_IRQ}]
gicv2_config_irq(g, irq, edge) == [g EXCEPT !.edge = IF edge THEN @ \cup {irq} ELSE @ \ {irq}]
gicv2_enable_irq(g, irq) == [g EXCEPT !.enabled = @ \cup {irq}]

(* The level-sensitive lines that are up, enabled and not being served; only  *)
(* group 0 is forwarded.                                                      *)
Pending(g, lines) == IF g.on THEN (lines \cap g.enabled \cap g.group0) \ g.active ELSE {}

(* Reading IAR: what it may return, and that it makes the interrupt active. *)
gicv2_acknowledge(g, lines) == IF Pending(g, lines) = {} THEN {SPURIOUS} ELSE Pending(g, lines)
Activate(g, iar) == IF iar = SPURIOUS THEN g ELSE [g EXCEPT !.active = @ \cup {iar}]
gicv2_end_interrupt(g, iar) == [g EXCEPT !.active = @ \ {iar}]

(* ---------------------------------- irq.c --------------------------------- *)

irq_register(handlers, irq) == IF irq < IRQ_MAX THEN handlers \cup {irq} ELSE handlers
===============================================================================
