----------------------------- MODULE TaskProofs -----------------------------
(***************************************************************************)
(* For any contracts, requests and timing: the ceilings of Task hold, and a   *)
(* block request gives back its pages and its intent; the memory charged is   *)
(* that of the live allocations.  And the invariants of the capability table  *)
(* of a task, for every number of tables, slots and generations.              *)
(***************************************************************************)
EXTENDS Task, CapTable, QueueLemmas

(* Program points by what the thread holds there. *)
Allowed  == {"io", "transfer", "account", "reroll", "add"}
Entered  == Allowed \cup {"sum", "restore"}

(* What was allowed still fits: counts only fall until the request is charged.*)
StillFits ==
  LET d == req.dir
  IN  contract.io_bytes_limit[d] # 0 =>
        /\ pc \in Allowed => io_bytes_window[d] + req.count <= contract.io_bytes_limit[d]
        /\ pc = "sum" => bytes + req.count <= contract.io_bytes_limit[d]

(* Ticks and window starts that were read lie in the past. *)
ReadInThePast == now <= s_sched_ticks /\ start <= s_sched_ticks

SavedIntent ==
  IF pc \in Entered THEN old_intent \in {base, BACKGROUND}
  ELSE sched_intent \in {base, BACKGROUND}

HeldInTransfer == tmp => pc = "transfer"

TaskInv ==
  /\ TaskTypeOK
  /\ IoWithinLimit
  /\ StillFits
  /\ ReadInThePast
  /\ CpuWithinWindow
  /\ SavedIntent
  /\ HeldInTransfer

-----------------------------------------------------------------------------
(* Whole windows fit into the time since the start. *)
LEMMA Spans ==
  ASSUME NEW a \in Nat, NEW w \in Nat \ {0}
  PROVE  /\ (a \div w) * w \in Nat
         /\ (a \div w) * w <= a
OBVIOUS

(* Rolling the window, with whatever start and tick were read, keeps it in    *)
(* the past, its CPU count within it, and never raises a byte count.          *)
LEMMA RollKeeps ==
  ASSUME TaskTypeOK, CpuWithinWindow, NEW st \in Nat, NEW t \in Nat, NEW cpu \in {0, 1},
         t <= s_sched_ticks + cpu, task_roll_window(st, t, cpu)
  PROVE  /\ window_start_tick' \in Nat
         /\ window_start_tick' <= s_sched_ticks + cpu
         /\ cpu_ticks_window' \in Nat
         /\ cpu_ticks_window' <= (s_sched_ticks + cpu) - window_start_tick' + 1
         /\ io_bytes_window' \in [Dir -> Nat]
         /\ \A d \in Dir : io_bytes_window'[d] <= io_bytes_window[d]
<1> DEFINE w == IF contract.window_ticks = 0 THEN 1 ELSE contract.window_ticks
           reset == t < st \/ t - st >= w
           spans == ((t - st) \div w) * w
<1>1. /\ window_start_tick' = IF ~reset THEN window_start_tick
                              ELSE IF t < st THEN t ELSE st + spans
      /\ cpu_ticks_window' = (IF reset THEN 0 ELSE cpu_ticks_window) + cpu
      /\ io_bytes_window' = IF reset THEN NoIo ELSE io_bytes_window
  BY Zenon DEF task_roll_window
<1>2. w \in Nat \ {0}
  BY Zenon DEF TaskTypeOK
<1>3. t >= st => spans \in Nat /\ spans <= t - st
  BY <1>2, Spans
<1>4. /\ NoIo \in [Dir -> Nat]
      /\ \A d \in Dir : NoIo[d] = 0
  BY Zenon DEF NoIo
<1>5. /\ window_start_tick \in Nat /\ cpu_ticks_window \in Nat /\ s_sched_ticks \in Nat
      /\ io_bytes_window \in [Dir -> Nat]
      /\ window_start_tick <= s_sched_ticks
      /\ cpu_ticks_window <= s_sched_ticks - window_start_tick + 1
  BY Zenon DEF TaskTypeOK, CpuWithinWindow
<1> HIDE DEF spans, w
<1>6. CASE reset
  <2>1. window_start_tick' \in Nat /\ window_start_tick' <= t /\ cpu_ticks_window' = cpu
    BY <1>1, <1>3, <1>6
  <2>2. io_bytes_window' \in [Dir -> Nat] /\ \A d \in Dir : io_bytes_window'[d] = 0
    BY <1>1, <1>4, <1>6, Zenon
  <2>3. /\ window_start_tick' <= s_sched_ticks + cpu
        /\ cpu_ticks_window' \in Nat
        /\ cpu_ticks_window' <= (s_sched_ticks + cpu) - window_start_tick' + 1
    <3>1. s_sched_ticks \in Nat
      BY <1>5, Zenon
    <3>2. cpu = 0 \/ cpu = 1
      BY Zenon
    <3>3. t \in Nat /\ t <= s_sched_ticks + cpu
      BY Zenon
    <3>4. window_start_tick' <= s_sched_ticks + cpu
      BY <2>1, <3>1, <3>2, <3>3
    <3>5. cpu_ticks_window' = cpu /\ cpu \in Nat
      BY <2>1
    <3>6. window_start_tick' \in Nat
      BY <2>1, Zenon
    <3>7. cpu <= (s_sched_ticks + cpu) - window_start_tick' + 1
      <4>1. window_start_tick' <= s_sched_ticks + 1
        BY <3>1, <3>2, <3>4, <3>6
      <4>2. \A a, b, c \in Nat : a <= b + 1 => c <= (b + c) - a + 1
        OBVIOUS
      <4> QED
        BY <3>1, <3>5, <3>6, <4>1, <4>2, Zenon
    <3> QED
      BY ONLY <3>4, <3>5, <3>7, Zenon
  <2>4. \A d \in Dir : io_bytes_window'[d] <= io_bytes_window[d]
    BY <1>5, <2>2
  <2> QED
    BY <2>1, <2>2, <2>3, <2>4, Zenon
<1>7. CASE ~reset
  <2>1. /\ window_start_tick' = window_start_tick
        /\ cpu_ticks_window' = cpu_ticks_window + cpu
        /\ io_bytes_window' = io_bytes_window
    BY <1>1, <1>7, Zenon
  <2> QED
    BY <1>5, <2>1
<1> QED
  BY <1>6, <1>7, Zenon

-----------------------------------------------------------------------------
(* task_init establishes the invariant. *)
LEMMA TaskInitInv == TaskInit => TaskInv
<1> SUFFICES ASSUME TaskInit PROVE TaskInv
  BY Zenon
<1> USE DEF TaskInit, NoIo, NoReq, Dir, Intent, INTERACTIVE
<1>1. TaskTypeOK
  <2>1. contract \in [intent : Intent, window_ticks : Nat \ {0}, cpu_ticks_limit : Nat,
                      io_bytes_limit : [Dir -> Nat], mem_bytes_limit : Nat]
    OBVIOUS
  <2>2. req \in [dir : Dir, count : Nat, intent : Intent, remaining : Nat]
    OBVIOUS
  <2>3. io_bytes_window \in [Dir -> Nat] /\ live \in [Sizes -> Nat]
    BY Zenon
  <2> QED
    BY <2>1, <2>2, <2>3, Zenon DEF TaskTypeOK
<1>2. IoWithinLimit /\ StillFits
  BY Zenon DEF IoWithinLimit, StillFits, Allowed
<1>3. ReadInThePast /\ CpuWithinWindow
  BY DEF ReadInThePast, CpuWithinWindow
<1>4. SavedIntent /\ HeldInTransfer
  BY Zenon DEF SavedIntent, HeldInTransfer, Entered, Allowed
<1> QED
  BY <1>1, <1>2, <1>3, <1>4, Zenon DEF TaskInv

(* What the tick demotes to, and what a raw intent becomes, is an intent. *)
LEMMA BackgroundIntent == BACKGROUND \in Intent
BY DEF BACKGROUND, Intent

(* Facts of types that the leaves need one at a time. *)
LEMMA TypeFacts ==
  ASSUME TaskTypeOK
  PROVE  /\ s_sched_ticks \in Nat /\ now \in Nat /\ start \in Nat
         /\ window_start_tick \in Nat /\ cpu_ticks_window \in Nat
         /\ req.dir \in Dir /\ req.count \in Nat /\ bytes \in Nat
         /\ \A d \in Dir : io_bytes_window[d] \in Nat /\ contract.io_bytes_limit[d] \in Nat
BY Zenon DEF TaskTypeOK

(* The tick interrupts the thread anywhere. *)
LEMMA TickInv ==
  ASSUME TaskInv, NEW charged \in BOOLEAN, sched_on_timer_tick(charged)
  PROVE  TaskInv'
<1>1. /\ TaskTypeOK /\ IoWithinLimit /\ StillFits /\ ReadInThePast /\ CpuWithinWindow
      /\ SavedIntent /\ HeldInTransfer
  BY Zenon DEF TaskInv
<1>2. /\ s_sched_ticks' = s_sched_ticks + 1
      /\ contract' = contract /\ mem_bytes_current' = mem_bytes_current
      /\ pc' = pc /\ now' = now /\ start' = start /\ base' = base /\ live' = live
      /\ req' = req /\ old_intent' = old_intent /\ bytes' = bytes /\ tmp' = tmp
  BY Zenon DEF sched_on_timer_tick, reqVars
<1>a. sched_intent' \in {sched_intent, BACKGROUND}
  BY Zenon DEF sched_on_timer_tick
<1>3. s_sched_ticks \in Nat /\ window_start_tick \in Nat
  BY <1>1, TypeFacts, Zenon
<1>4. /\ window_start_tick' \in Nat
      /\ window_start_tick' <= s_sched_ticks + 1
      /\ cpu_ticks_window' \in Nat
      /\ cpu_ticks_window' <= (s_sched_ticks + 1) - window_start_tick' + 1
      /\ io_bytes_window' \in [Dir -> Nat]
      /\ \A d \in Dir : io_bytes_window'[d] <= io_bytes_window[d]
  <2>1. CASE charged
    <3>1. task_roll_window(window_start_tick, s_sched_ticks + 1, 1)
      BY <2>1, Zenon DEF sched_on_timer_tick
    <3>2. s_sched_ticks + 1 \in Nat /\ s_sched_ticks + 1 <= s_sched_ticks + 1
      BY <1>3
    <3> QED
      BY <1>1, <1>3, <3>1, <3>2, RollKeeps, Zenon
  <2>2. CASE ~charged
    <3>1. /\ window_start_tick' = window_start_tick
          /\ cpu_ticks_window' = cpu_ticks_window
          /\ io_bytes_window' = io_bytes_window
      BY <2>2, Zenon DEF sched_on_timer_tick, window
    <3>2. io_bytes_window \in [Dir -> Nat]
      BY <1>1, Zenon DEF TaskTypeOK
    <3>3. \A d \in Dir : io_bytes_window'[d] <= io_bytes_window[d]
      BY <3>1, <3>2
    <3> QED
      BY <1>1, <3>1, <3>2, <3>3, TypeFacts DEF CpuWithinWindow
  <2> QED
    BY <2>1, <2>2, Zenon
<1>5. TaskTypeOK'
  <2>0. sched_intent \in Intent
    BY <1>1, Zenon DEF TaskTypeOK
  <2>1. sched_intent' \in Intent /\ s_sched_ticks' \in Nat
    BY <1>2, <1>3, <1>a, <2>0, BackgroundIntent
  <2> QED
    BY <1>1, <1>2, <1>4, <2>1, Zenon DEF TaskTypeOK
<1>6. IoWithinLimit' /\ StillFits'
  <2>1. /\ \A d \in Dir : /\ io_bytes_window[d] \in Nat /\ contract.io_bytes_limit[d] \in Nat
                          /\ io_bytes_window'[d] \in Nat
        /\ req.dir \in Dir /\ req.count \in Nat
    BY <1>1, <1>4, TypeFacts, Zenon
  <2>2. IoWithinLimit'
    BY <1>1, <1>2, <1>4, <2>1 DEF IoWithinLimit
  <2>3. StillFits'
    BY <1>1, <1>2, <1>4, <2>1 DEF StillFits
  <2> QED
    BY <2>2, <2>3, Zenon
<1>8. ReadInThePast' /\ CpuWithinWindow'
  BY <1>1, <1>2, <1>4, TypeFacts DEF ReadInThePast, CpuWithinWindow
<1>9. SavedIntent' /\ HeldInTransfer'
  BY <1>1, <1>2, <1>a, Zenon DEF SavedIntent, HeldInTransfer
<1> QED
  BY <1>5, <1>6, <1>8, <1>9, Zenon DEF TaskInv

-----------------------------------------------------------------------------
(* What a step of the thread that leaves the limits and the window alone has  *)
(* to show.                                                                   *)
Quiet == UNCHANGED <<s_sched_ticks, contract, window_start_tick, cpu_ticks_window, io_bytes_window>>

(* Such a step keeps both ceilings. *)
LEMMA QuietKeeps ==
  ASSUME TaskInv, Quiet, pc # "reset"
  PROVE  IoWithinLimit' /\ CpuWithinWindow'
BY Zenon DEF TaskInv, Quiet, IoWithinLimit, CpuWithinWindow

(* Calls that do no I/O: contracts, intents and memory. *)
LEMMA CallInv ==
  ASSUME TaskInv,
         \/ cka_sched_set_contract
         \/ \E c \in Contracts : cka_sched_set_current_thread_intent(c.intent)
         \/ SetContractIntent
         \/ \E n \in Sizes : cka_kmalloc(n) \/ cka_kfree(n)
  PROVE  TaskInv'
<1>1. /\ TaskTypeOK /\ ReadInThePast /\ SavedIntent /\ HeldInTransfer
  BY Zenon DEF TaskInv
<1>2. CASE cka_sched_set_contract
  <2>1. /\ pc = "idle" /\ pc' = "limits" /\ now' = s_sched_ticks
        /\ s_sched_ticks' = s_sched_ticks /\ start' = start
        /\ contract' = contract /\ mem_bytes_current' = mem_bytes_current
        /\ sched_intent' = sched_intent /\ base' = base /\ live' = live
        /\ req' = req /\ old_intent' = old_intent /\ bytes' = bytes /\ tmp' = tmp
        /\ window_start_tick' = window_start_tick
        /\ cpu_ticks_window' = cpu_ticks_window /\ io_bytes_window' = io_bytes_window
    BY <1>2, Zenon DEF cka_sched_set_contract, window, reqVars
  <2>2. TaskTypeOK'
    BY <1>1, <2>1, Zenon DEF TaskTypeOK
  <2>3. IoWithinLimit' /\ CpuWithinWindow'
    BY <2>1, QuietKeeps, Zenon DEF Quiet
  <2>4. ReadInThePast'
    BY <1>1, <2>1, TypeFacts DEF ReadInThePast
  <2>5. StillFits' /\ SavedIntent' /\ HeldInTransfer'
    BY <1>1, <2>1, Zenon DEF StillFits, SavedIntent, HeldInTransfer, Entered, Allowed
  <2> QED
    BY <2>2, <2>3, <2>4, <2>5, Zenon DEF TaskInv
<1>3. CASE \E c \in Contracts : cka_sched_set_current_thread_intent(c.intent)
  <2> PICK c \in Contracts : cka_sched_set_current_thread_intent(c.intent)
    BY <1>3, Zenon
  <2>1. /\ pc = "idle" /\ pc' = "idle" /\ now' = now
        /\ s_sched_ticks' = s_sched_ticks /\ start' = start
        /\ contract' = contract /\ mem_bytes_current' = mem_bytes_current
        /\ sched_intent' = sched_intent_sanitize(c.intent)
        /\ base' = sched_intent_sanitize(c.intent) /\ live' = live
        /\ req' = req /\ old_intent' = old_intent /\ bytes' = bytes /\ tmp' = tmp
        /\ window_start_tick' = window_start_tick
        /\ cpu_ticks_window' = cpu_ticks_window /\ io_bytes_window' = io_bytes_window
    BY Zenon DEF cka_sched_set_current_thread_intent, window, reqVars
  <2>2. sched_intent_sanitize(c.intent) \in Intent
    BY BackgroundIntent, Zenon DEF sched_intent_sanitize
  <2>3. TaskTypeOK'
    BY <1>1, <2>1, <2>2, Zenon DEF TaskTypeOK
  <2>4. IoWithinLimit' /\ CpuWithinWindow'
    BY <2>1, QuietKeeps, Zenon DEF Quiet
  <2>5. ReadInThePast' /\ StillFits' /\ SavedIntent' /\ HeldInTransfer'
    BY <1>1, <2>1, Zenon DEF ReadInThePast, StillFits, SavedIntent, HeldInTransfer, Entered, Allowed
  <2> QED
    BY <2>3, <2>4, <2>5, Zenon DEF TaskInv
<1>4. CASE SetContractIntent
  <2>1. /\ pc = "intent" /\ pc' = "idle" /\ now' = now
        /\ s_sched_ticks' = s_sched_ticks /\ start' = start
        /\ contract' = contract /\ mem_bytes_current' = mem_bytes_current
        /\ sched_intent' = contract.intent /\ base' = contract.intent /\ live' = live
        /\ req' = req /\ old_intent' = old_intent /\ bytes' = bytes /\ tmp' = tmp
        /\ window_start_tick' = window_start_tick
        /\ cpu_ticks_window' = cpu_ticks_window /\ io_bytes_window' = io_bytes_window
    BY <1>4, Zenon DEF SetContractIntent, window, reqVars
  <2>2. contract.intent \in Intent
    BY <1>1, Zenon DEF TaskTypeOK
  <2>3. TaskTypeOK'
    BY <1>1, <2>1, <2>2, Zenon DEF TaskTypeOK
  <2>4. IoWithinLimit' /\ CpuWithinWindow'
    BY <2>1, QuietKeeps, Zenon DEF Quiet
  <2>5. ReadInThePast' /\ StillFits' /\ SavedIntent' /\ HeldInTransfer'
    BY <1>1, <2>1, Zenon DEF ReadInThePast, StillFits, SavedIntent, HeldInTransfer, Entered, Allowed
  <2> QED
    BY <2>3, <2>4, <2>5, Zenon DEF TaskInv
<1>5. CASE \E n \in Sizes : cka_kmalloc(n) \/ cka_kfree(n)
  <2> PICK n \in Sizes : cka_kmalloc(n) \/ cka_kfree(n)
    BY <1>5, Zenon
  <2>1. /\ pc = "idle" /\ pc' = pc /\ now' = now
        /\ s_sched_ticks' = s_sched_ticks /\ start' = start
        /\ contract' = contract /\ sched_intent' = sched_intent /\ base' = base
        /\ req' = req /\ old_intent' = old_intent /\ bytes' = bytes /\ tmp' = tmp
        /\ window_start_tick' = window_start_tick
        /\ cpu_ticks_window' = cpu_ticks_window /\ io_bytes_window' = io_bytes_window
    BY Zenon DEF cka_kmalloc, cka_kfree, window, reqVars
  <2>2. n \in Nat /\ mem_bytes_current \in Nat /\ live \in [Sizes -> Nat]
    BY <1>1, TaskAssumption, Zenon DEF TaskTypeOK
  <2>3. mem_bytes_current' \in Nat /\ live' \in [Sizes -> Nat]
    <3>1. CASE cka_kmalloc(n)
      BY <2>2, <3>1 DEF cka_kmalloc
    <3>2. CASE cka_kfree(n)
      <4>1. live[n] > 0 /\ live' = [live EXCEPT ![n] = @ - 1]
        BY <3>2, Zenon DEF cka_kfree
      <4>2. live' \in [Sizes -> Nat]
        BY <2>2, <4>1
      <4>3. mem_bytes_current' = IF mem_bytes_current > n THEN mem_bytes_current - n ELSE 0
        BY <3>2, Zenon DEF cka_kfree
      <4> QED
        BY <2>2, <4>2, <4>3
    <3> QED
      BY <3>1, <3>2, Zenon
  <2>4. TaskTypeOK'
    BY <1>1, <2>1, <2>3, Zenon DEF TaskTypeOK
  <2>5. IoWithinLimit' /\ CpuWithinWindow'
    BY <2>1, QuietKeeps, Zenon DEF Quiet
  <2>6. ReadInThePast' /\ StillFits' /\ SavedIntent' /\ HeldInTransfer'
    BY <1>1, <2>1, Zenon DEF ReadInThePast, StillFits, SavedIntent, HeldInTransfer, Entered, Allowed
  <2> QED
    BY <2>4, <2>5, <2>6, Zenon DEF TaskInv
<1> QED
  BY <1>2, <1>3, <1>4, <1>5, Zenon

(* A new contract is stored: its limits first, then an empty window. *)
LEMMA ContractInv ==
  ASSUME TaskInv, (\E c \in Contracts : StoreLimits(c)) \/ StoreWindow
  PROVE  TaskInv'
<1>1. /\ TaskTypeOK /\ ReadInThePast /\ SavedIntent /\ HeldInTransfer /\ CpuWithinWindow
  BY Zenon DEF TaskInv
<1>2. CASE \E c \in Contracts : StoreLimits(c)
  <2> PICK c \in Contracts : StoreLimits(c)
    BY <1>2, Zenon
  <2>1. /\ pc = "limits" /\ pc' = "reset" /\ now' = now /\ start' = start
        /\ s_sched_ticks' = s_sched_ticks /\ mem_bytes_current' = mem_bytes_current
        /\ sched_intent' = sched_intent /\ base' = base /\ live' = live
        /\ req' = req /\ old_intent' = old_intent /\ bytes' = bytes /\ tmp' = tmp
        /\ window_start_tick' = window_start_tick
        /\ cpu_ticks_window' = cpu_ticks_window /\ io_bytes_window' = io_bytes_window
    BY Zenon DEF StoreLimits, window, reqVars
  <2>2. contract' \in [intent : Intent, window_ticks : Nat \ {0}, cpu_ticks_limit : Nat,
                       io_bytes_limit : [Dir -> Nat], mem_bytes_limit : Nat]
    <3>1. c \in [intent : Nat, window_ticks : Nat, cpu_ticks_limit : Nat,
                 io_bytes_limit : [Dir -> Nat], mem_bytes_limit : Nat]
      BY TaskAssumption, Zenon
    <3>2. sched_intent_sanitize(c.intent) \in Intent
      BY BackgroundIntent, Zenon DEF sched_intent_sanitize
    <3>3. contract' = [c EXCEPT !.intent = sched_intent_sanitize(@),
                                !.window_ticks = IF @ = 0 THEN 100 ELSE @]
      BY Zenon DEF StoreLimits
    <3> DEFINE w == IF c.window_ticks = 0 THEN 100 ELSE c.window_ticks
    <3>4. w \in Nat \ {0}
      BY <3>1
    <3>5. contract' = [c EXCEPT !.intent = sched_intent_sanitize(c.intent), !.window_ticks = w]
      BY <3>1, <3>3, Zenon
    <3> HIDE DEF w
    <3> QED
      BY <3>1, <3>2, <3>4, <3>5, Zenon
  <2>3. TaskTypeOK'
    BY <1>1, <2>1, <2>2, Zenon DEF TaskTypeOK
  <2>4. IoWithinLimit' /\ CpuWithinWindow'
    BY <1>1, <2>1, Zenon DEF IoWithinLimit, CpuWithinWindow
  <2>5. ReadInThePast' /\ StillFits' /\ SavedIntent' /\ HeldInTransfer'
    BY <1>1, <2>1, Zenon DEF ReadInThePast, StillFits, SavedIntent, HeldInTransfer, Entered, Allowed
  <2> QED
    BY <2>3, <2>4, <2>5, Zenon DEF TaskInv
<1>3. CASE StoreWindow
  <2>1. /\ pc = "reset" /\ pc' = "intent" /\ now' = 0 /\ start' = start
        /\ s_sched_ticks' = s_sched_ticks /\ mem_bytes_current' = mem_bytes_current
        /\ contract' = contract /\ sched_intent' = sched_intent /\ base' = base /\ live' = live
        /\ req' = req /\ old_intent' = old_intent /\ bytes' = bytes /\ tmp' = tmp
        /\ window_start_tick' = now /\ cpu_ticks_window' = 0 /\ io_bytes_window' = NoIo
    BY <1>3, Zenon DEF StoreWindow, reqVars
  <2>2. NoIo \in [Dir -> Nat] /\ \A d \in Dir : NoIo[d] = 0
    BY Zenon DEF NoIo
  <2>3. TaskTypeOK'
    BY <1>1, <2>1, <2>2, Zenon DEF TaskTypeOK
  <2>4. IoWithinLimit'
    <3>1. \A d \in Dir : contract'.io_bytes_limit[d] \in Nat /\ io_bytes_window'[d] = 0
      BY <1>1, <2>1, <2>2, TypeFacts, Zenon
    <3> QED
      BY <3>1 DEF IoWithinLimit
  <2>5. CpuWithinWindow' /\ ReadInThePast'
    <3>1. s_sched_ticks \in Nat /\ now \in Nat /\ now <= s_sched_ticks /\ start <= s_sched_ticks
      BY <1>1, TypeFacts, Zenon DEF ReadInThePast
    <3>2. \A a, b \in Nat : a <= b => 0 <= b - a + 1
      OBVIOUS
    <3>3. 0 <= s_sched_ticks - now + 1 /\ 0 <= s_sched_ticks
      BY <3>1, <3>2
    <3> QED
      BY <2>1, <3>1, <3>3, Zenon DEF CpuWithinWindow, ReadInThePast
  <2>6. StillFits' /\ SavedIntent' /\ HeldInTransfer'
    BY <1>1, <2>1, Zenon DEF StillFits, SavedIntent, HeldInTransfer, Entered, Allowed
  <2> QED
    BY <2>3, <2>4, <2>5, <2>6, Zenon DEF TaskInv
<1> QED
  BY <1>2, <1>3, Zenon

(* The thread rolls the window before a request and after it. *)
LEMMA ThreadRollInv ==
  ASSUME TaskInv,
         \/ LoadStart("allow", "roll") \/ StoreRoll("roll", "check")
         \/ LoadStart("account", "reroll") \/ StoreRoll("reroll", "add")
  PROVE  TaskInv'
<1>1. /\ TaskTypeOK /\ ReadInThePast /\ SavedIntent /\ HeldInTransfer /\ CpuWithinWindow
      /\ IoWithinLimit /\ StillFits
  BY Zenon DEF TaskInv
<1>2. CASE LoadStart("allow", "roll") \/ LoadStart("account", "reroll")
  <2>1. /\ (pc = "allow" /\ pc' = "roll") \/ (pc = "account" /\ pc' = "reroll")
        /\ now' = now /\ start' = window_start_tick
        /\ s_sched_ticks' = s_sched_ticks /\ mem_bytes_current' = mem_bytes_current
        /\ contract' = contract /\ sched_intent' = sched_intent /\ base' = base /\ live' = live
        /\ req' = req /\ old_intent' = old_intent /\ bytes' = bytes /\ tmp' = tmp
        /\ window_start_tick' = window_start_tick
        /\ cpu_ticks_window' = cpu_ticks_window /\ io_bytes_window' = io_bytes_window
    BY <1>2, Zenon DEF LoadStart, Move, window, reqVars
  <2>2. TaskTypeOK'
    BY <1>1, <2>1, Zenon DEF TaskTypeOK
  <2>3. IoWithinLimit' /\ CpuWithinWindow'
    BY <2>1, QuietKeeps, Zenon DEF Quiet
  <2>4. ReadInThePast'
    BY <1>1, <2>1, Zenon DEF ReadInThePast, CpuWithinWindow
  <2>5. StillFits' /\ SavedIntent' /\ HeldInTransfer'
    BY <1>1, <2>1, Zenon DEF StillFits, SavedIntent, HeldInTransfer, Entered, Allowed
  <2> QED
    BY <2>2, <2>3, <2>4, <2>5, Zenon DEF TaskInv
<1>3. CASE StoreRoll("roll", "check") \/ StoreRoll("reroll", "add")
  <2>1. /\ (pc = "roll" /\ pc' = "check") \/ (pc = "reroll" /\ pc' = "add")
        /\ now' = 0 /\ start' = 0
        /\ s_sched_ticks' = s_sched_ticks /\ mem_bytes_current' = mem_bytes_current
        /\ contract' = contract /\ sched_intent' = sched_intent /\ base' = base /\ live' = live
        /\ req' = req /\ old_intent' = old_intent /\ bytes' = bytes /\ tmp' = tmp
        /\ task_roll_window(start, now, 0)
    BY <1>3, Zenon DEF StoreRoll, Move, reqVars
  <2>2. /\ s_sched_ticks \in Nat /\ now \in Nat /\ start \in Nat
        /\ now <= s_sched_ticks + 0 /\ s_sched_ticks + 0 = s_sched_ticks
    <3>1. s_sched_ticks \in Nat /\ now \in Nat /\ start \in Nat
      BY <1>1, TypeFacts, Zenon
    <3>2. now <= s_sched_ticks
      BY <1>1, Zenon DEF ReadInThePast
    <3> QED
      BY <3>1, <3>2
  <2>3. /\ window_start_tick' \in Nat
        /\ window_start_tick' <= s_sched_ticks
        /\ cpu_ticks_window' \in Nat
        /\ cpu_ticks_window' <= s_sched_ticks - window_start_tick' + 1
        /\ io_bytes_window' \in [Dir -> Nat]
        /\ \A d \in Dir : io_bytes_window'[d] <= io_bytes_window[d]
    <3>1. 0 \in {0, 1}
      BY Zenon
    <3>2. /\ window_start_tick' \in Nat
          /\ window_start_tick' <= s_sched_ticks + 0
          /\ cpu_ticks_window' \in Nat
          /\ cpu_ticks_window' <= (s_sched_ticks + 0) - window_start_tick' + 1
          /\ io_bytes_window' \in [Dir -> Nat]
          /\ \A d \in Dir : io_bytes_window'[d] <= io_bytes_window[d]
      BY <1>1, <2>1, <2>2, <3>1, RollKeeps, Zenon
    <3> QED
      BY ONLY <2>2, <3>2, Zenon
  <2>4. TaskTypeOK'
    BY <1>1, <2>1, <2>3, Zenon DEF TaskTypeOK
  <2>5. /\ \A d \in Dir : /\ io_bytes_window[d] \in Nat /\ contract.io_bytes_limit[d] \in Nat
                          /\ io_bytes_window'[d] \in Nat
        /\ req.dir \in Dir /\ req.count \in Nat
    BY <1>1, <2>3, TypeFacts, Zenon
  <2>6. IoWithinLimit'
    <3>1. \A d \in Dir : contract.io_bytes_limit[d] # 0 =>
                             io_bytes_window[d] <= contract.io_bytes_limit[d]
      BY <1>1, <2>1, Zenon DEF IoWithinLimit
    <3>2. \A d \in Dir : contract.io_bytes_limit[d] # 0 =>
                             io_bytes_window'[d] <= contract.io_bytes_limit[d]
      BY <2>3, <2>5, <3>1
    <3>3. contract' = contract
      BY <2>1, Zenon
    <3> QED
      BY <3>2, <3>3, Zenon DEF IoWithinLimit
  <2>7. StillFits'
    <3>1. pc' = "check" \/ (pc \in Allowed /\ pc' = "add")
      BY <2>1, Zenon DEF Allowed
    <3>2. CASE pc' = "check"
      BY <3>2, Zenon DEF StillFits, Allowed
    <3>3. CASE pc \in Allowed /\ pc' = "add"
      <4> DEFINE lim == contract.io_bytes_limit[req.dir]
                 old == io_bytes_window[req.dir]
                 new == io_bytes_window'[req.dir]
      <4>1. lim # 0 => old + req.count <= lim
        BY <1>1, <3>3, Zenon DEF StillFits
      <4>2. lim \in Nat /\ old \in Nat /\ new \in Nat /\ req.count \in Nat /\ new <= old
        BY <2>3, <2>5, Zenon
      <4>3. lim # 0 => new + req.count <= lim
        <5> HIDE DEF lim, old, new
        <5> QED
          BY <4>1, <4>2
      <4>4. contract' = contract /\ req' = req
        BY <2>1, Zenon
      <4> QED
        BY <3>3, <4>3, <4>4, Zenon DEF StillFits
    <3> QED
      BY <3>1, <3>2, <3>3, Zenon
  <2>8. CpuWithinWindow' /\ ReadInThePast'
    <3>1. s_sched_ticks' = s_sched_ticks /\ now' = 0 /\ start' = 0 /\ 0 <= s_sched_ticks
      BY <2>1, <2>2
    <3> QED
      BY ONLY <2>3, <3>1, Zenon DEF CpuWithinWindow, ReadInThePast
  <2>9. SavedIntent' /\ HeldInTransfer'
    BY <1>1, <2>1, Zenon DEF SavedIntent, HeldInTransfer, Entered, Allowed
  <2> QED
    BY <2>4, <2>6, <2>7, <2>8, <2>9, Zenon DEF TaskInv
<1> QED
  BY <1>2, <1>3, Zenon

(* The other steps of a block request. *)
LEMMA RequestInv ==
  ASSUME TaskInv,
         \/ \E d \in Dir, n \in Counts, i \in IoIntents : cka_block_intent(d, n, i)
         \/ EnterIo \/ AllocBounce \/ Transfer \/ EndIo \/ LoadBytes \/ RestoreIntent
  PROVE  TaskInv'
<1>1. /\ TaskTypeOK /\ ReadInThePast /\ SavedIntent /\ HeldInTransfer /\ CpuWithinWindow
      /\ IoWithinLimit /\ StillFits
  BY Zenon DEF TaskInv
<1>2. CASE \E d \in Dir, n \in Counts, i \in IoIntents : cka_block_intent(d, n, i)
  <2> PICK d \in Dir, n \in Counts, i \in IoIntents : cka_block_intent(d, n, i)
    BY <1>2, Zenon
  <2>1. /\ pc = "idle" /\ pc' = "allow" /\ now' = s_sched_ticks /\ start' = start
        /\ sched_intent' = sched_intent /\ old_intent' = old_intent /\ bytes' = bytes
        /\ tmp' = tmp
        /\ s_sched_ticks' = s_sched_ticks /\ mem_bytes_current' = mem_bytes_current
        /\ contract' = contract /\ base' = base /\ live' = live
        /\ window_start_tick' = window_start_tick
        /\ cpu_ticks_window' = cpu_ticks_window /\ io_bytes_window' = io_bytes_window
    BY Zenon DEF cka_block_intent, Move, window
  <2>2. req' \in [dir : Dir, count : Nat, intent : Intent, remaining : Nat]
    <3>1. n \in Nat /\ i \in Intent
      BY TaskAssumption, Zenon
    <3> QED
      BY <3>1, Zenon DEF cka_block_intent
  <2>3. TaskTypeOK'
    BY <1>1, <2>1, <2>2, Zenon DEF TaskTypeOK
  <2>4. IoWithinLimit' /\ CpuWithinWindow'
    BY <2>1, QuietKeeps, Zenon DEF Quiet
  <2>5. ReadInThePast'
    BY <1>1, <2>1, TypeFacts DEF ReadInThePast
  <2>6. StillFits' /\ SavedIntent' /\ HeldInTransfer'
    BY <1>1, <2>1, Zenon DEF StillFits, SavedIntent, HeldInTransfer, Entered, Allowed
  <2> QED
    BY <2>3, <2>4, <2>5, <2>6, Zenon DEF TaskInv
<1>3. CASE EnterIo
  <2>1. /\ now' = now /\ start' = start /\ bytes' = bytes /\ tmp' = tmp /\ pc = "check"
        /\ s_sched_ticks' = s_sched_ticks /\ mem_bytes_current' = mem_bytes_current
        /\ contract' = contract /\ base' = base /\ live' = live
        /\ window_start_tick' = window_start_tick
        /\ cpu_ticks_window' = cpu_ticks_window /\ io_bytes_window' = io_bytes_window
    BY <1>3, Zenon DEF EnterIo, Move, window
  <2>2. IoWithinLimit' /\ CpuWithinWindow'
    BY <2>1, QuietKeeps, Zenon DEF Quiet
  <2>3. ReadInThePast' /\ HeldInTransfer'
    BY <1>1, <2>1, Zenon DEF ReadInThePast, HeldInTransfer
  <2>4. CASE pc' = "idle"
    <3>1. req' = NoReq /\ old_intent' = old_intent /\ sched_intent' = sched_intent
      BY <1>3, <2>4, Zenon DEF EnterIo, Move
    <3>2. NoReq \in [dir : Dir, count : Nat, intent : Intent, remaining : Nat]
      BY DEF NoReq, Dir, Intent, INTERACTIVE
    <3>3. TaskTypeOK'
      BY <1>1, <2>1, <2>4, <3>1, <3>2, Zenon DEF TaskTypeOK
    <3>4. StillFits' /\ SavedIntent'
      BY <1>1, <2>1, <2>4, <3>1, Zenon DEF StillFits, SavedIntent, Entered, Allowed
    <3> QED
      BY <2>2, <2>3, <3>3, <3>4, Zenon DEF TaskInv
  <2>5. CASE pc' = "io"
    <3>1. /\ req' = req /\ old_intent' = sched_intent /\ sched_intent' = req.intent
          /\ task_allow_io(req.dir, req.count)
      BY <1>3, <2>5, Zenon DEF EnterIo, Move
    <3>2. req.intent \in Intent
      BY <1>1, Zenon DEF TaskTypeOK
    <3>3. TaskTypeOK'
      BY <1>1, <2>1, <2>5, <3>1, <3>2, Zenon DEF TaskTypeOK
    <3>4. StillFits'
      BY <2>1, <2>5, <3>1, Zenon DEF StillFits, task_allow_io
    <3>5. SavedIntent'
      BY <1>1, <2>1, <2>5, <3>1, Zenon DEF SavedIntent, Entered, Allowed
    <3> QED
      BY <2>2, <2>3, <3>3, <3>4, <3>5, Zenon DEF TaskInv
  <2>6. pc' \in {"idle", "io"}
    BY <1>3, Zenon DEF EnterIo, Move
  <2> QED
    BY <2>4, <2>5, <2>6, Zenon
<1>4. CASE AllocBounce
  <2>1. /\ now' = now /\ start' = start /\ bytes' = bytes /\ pc = "io"
        /\ req' = req /\ sched_intent' = sched_intent /\ old_intent' = old_intent
        /\ s_sched_ticks' = s_sched_ticks /\ mem_bytes_current' = mem_bytes_current
        /\ contract' = contract /\ base' = base /\ live' = live
        /\ window_start_tick' = window_start_tick
        /\ cpu_ticks_window' = cpu_ticks_window /\ io_bytes_window' = io_bytes_window
    BY <1>4, Zenon DEF AllocBounce, window
  <2>2. (tmp' = TRUE /\ pc' = "transfer") \/ (tmp' = FALSE /\ pc' = "restore")
    BY <1>4, Zenon DEF AllocBounce
  <2>3. TaskTypeOK'
    BY <1>1, <2>1, <2>2, Zenon DEF TaskTypeOK
  <2>4. IoWithinLimit' /\ CpuWithinWindow'
    BY <2>1, QuietKeeps, Zenon DEF Quiet
  <2>5. ReadInThePast' /\ SavedIntent' /\ HeldInTransfer'
    BY <1>1, <2>1, <2>2, Zenon DEF ReadInThePast, SavedIntent, HeldInTransfer, Entered, Allowed
  <2>6. StillFits'
    BY <1>1, <2>1, <2>2, Zenon DEF StillFits, Allowed
  <2> QED
    BY <2>3, <2>4, <2>5, <2>6, Zenon DEF TaskInv
<1>5. CASE Transfer
  <2>1. /\ now' = now /\ start' = start /\ bytes' = bytes /\ pc = "transfer"
        /\ sched_intent' = sched_intent /\ old_intent' = old_intent
        /\ tmp' = FALSE /\ pc' \in {"io", "restore"}
        /\ s_sched_ticks' = s_sched_ticks /\ mem_bytes_current' = mem_bytes_current
        /\ contract' = contract /\ base' = base /\ live' = live
        /\ window_start_tick' = window_start_tick
        /\ cpu_ticks_window' = cpu_ticks_window /\ io_bytes_window' = io_bytes_window
    BY <1>5, Zenon DEF Transfer, window
  <2>2. /\ req' \in [dir : Dir, count : Nat, intent : Intent, remaining : Nat]
        /\ req'.dir = req.dir /\ req'.count = req.count
    <3>1. req \in [dir : Dir, count : Nat, intent : Intent, remaining : Nat]
      BY <1>1, Zenon DEF TaskTypeOK
    <3>2. req.remaining - Chunk \in Nat
      <4>1. \A most \in Nat : req.remaining - (IF req.remaining > most THEN most ELSE req.remaining)
                              \in Nat
        BY <3>1
      <4>2. req.count \in Nat
        BY <3>1, Zenon
      <4> QED
        BY <4>1, <4>2, Zenon DEF Chunk
    <3>3. req' = [req EXCEPT !.remaining = req.remaining - Chunk] \/ req' = req
      BY <1>5, Zenon DEF Transfer
    <3> QED
      BY <3>1, <3>2, <3>3, Zenon
  <2>3. TaskTypeOK'
    BY <1>1, <2>1, <2>2, Zenon DEF TaskTypeOK
  <2>4. IoWithinLimit' /\ CpuWithinWindow'
    BY <2>1, QuietKeeps, Zenon DEF Quiet
  <2>5. ReadInThePast' /\ SavedIntent' /\ HeldInTransfer'
    BY <1>1, <2>1, Zenon DEF ReadInThePast, SavedIntent, HeldInTransfer, Entered, Allowed
  <2>6. StillFits'
    BY <1>1, <2>1, <2>2, Zenon DEF StillFits, Allowed
  <2> QED
    BY <2>3, <2>4, <2>5, <2>6, Zenon DEF TaskInv
<1>6. CASE EndIo
  <2>1. /\ now' = s_sched_ticks /\ start' = start /\ bytes' = bytes /\ pc = "io" /\ pc' = "account"
        /\ req' = req /\ sched_intent' = sched_intent /\ old_intent' = old_intent /\ tmp' = tmp
        /\ s_sched_ticks' = s_sched_ticks /\ mem_bytes_current' = mem_bytes_current
        /\ contract' = contract /\ base' = base /\ live' = live
        /\ window_start_tick' = window_start_tick
        /\ cpu_ticks_window' = cpu_ticks_window /\ io_bytes_window' = io_bytes_window
    BY <1>6, Zenon DEF EndIo, Move, window, reqVars
  <2>2. TaskTypeOK'
    BY <1>1, <2>1, Zenon DEF TaskTypeOK
  <2>3. IoWithinLimit' /\ CpuWithinWindow'
    BY <2>1, QuietKeeps, Zenon DEF Quiet
  <2>4. ReadInThePast'
    BY <1>1, <2>1, TypeFacts DEF ReadInThePast
  <2>5. StillFits' /\ SavedIntent' /\ HeldInTransfer'
    BY <1>1, <2>1, Zenon DEF StillFits, SavedIntent, HeldInTransfer, Entered, Allowed
  <2> QED
    BY <2>2, <2>3, <2>4, <2>5, Zenon DEF TaskInv
<1>7. CASE LoadBytes
  <2>1. /\ now' = now /\ start' = start /\ bytes' = io_bytes_window[req.dir]
        /\ pc = "add" /\ pc' = "sum"
        /\ req' = req /\ sched_intent' = sched_intent /\ old_intent' = old_intent /\ tmp' = tmp
        /\ s_sched_ticks' = s_sched_ticks /\ mem_bytes_current' = mem_bytes_current
        /\ contract' = contract /\ base' = base /\ live' = live
        /\ window_start_tick' = window_start_tick
        /\ cpu_ticks_window' = cpu_ticks_window /\ io_bytes_window' = io_bytes_window
    BY <1>7, Zenon DEF LoadBytes, Move, window
  <2>2. TaskTypeOK'
    BY <1>1, <2>1, TypeFacts, Zenon DEF TaskTypeOK
  <2>3. IoWithinLimit' /\ CpuWithinWindow'
    BY <2>1, QuietKeeps, Zenon DEF Quiet
  <2>4. ReadInThePast' /\ SavedIntent' /\ HeldInTransfer'
    BY <1>1, <2>1, Zenon DEF ReadInThePast, SavedIntent, HeldInTransfer, Entered, Allowed
  <2>5. StillFits'
    BY <1>1, <2>1, Zenon DEF StillFits, Allowed
  <2> QED
    BY <2>2, <2>3, <2>4, <2>5, Zenon DEF TaskInv
<1>8. CASE RestoreIntent
  <2>1. /\ now' = now /\ start' = start /\ bytes' = bytes /\ pc = "restore" /\ pc' = "idle"
        /\ req' = NoReq /\ sched_intent' = old_intent /\ old_intent' = INTERACTIVE /\ tmp' = tmp
        /\ s_sched_ticks' = s_sched_ticks /\ mem_bytes_current' = mem_bytes_current
        /\ contract' = contract /\ base' = base /\ live' = live
        /\ window_start_tick' = window_start_tick
        /\ cpu_ticks_window' = cpu_ticks_window /\ io_bytes_window' = io_bytes_window
    BY <1>8, Zenon DEF RestoreIntent, Move, window
  <2>2. /\ NoReq \in [dir : Dir, count : Nat, intent : Intent, remaining : Nat]
        /\ INTERACTIVE \in Intent
    BY DEF NoReq, Dir, Intent, INTERACTIVE
  <2>3. TaskTypeOK'
    BY <1>1, <2>1, <2>2, Zenon DEF TaskTypeOK
  <2>4. IoWithinLimit' /\ CpuWithinWindow'
    BY <2>1, QuietKeeps, Zenon DEF Quiet
  <2>5. ReadInThePast' /\ StillFits' /\ SavedIntent' /\ HeldInTransfer'
    BY <1>1, <2>1, Zenon DEF ReadInThePast, StillFits, SavedIntent, HeldInTransfer, Entered, Allowed
  <2> QED
    BY <2>3, <2>4, <2>5, Zenon DEF TaskInv
<1> QED
  BY <1>2, <1>3, <1>4, <1>5, <1>6, <1>7, <1>8, Zenon

(* The request is charged with the count loaded before, whatever the tick did *)
(* to the window since.                                                       *)
LEMMA AccountInv ==
  ASSUME TaskInv, task_account_io
  PROVE  TaskInv'
<1>1. /\ TaskTypeOK /\ ReadInThePast /\ SavedIntent /\ HeldInTransfer /\ CpuWithinWindow
      /\ IoWithinLimit /\ StillFits
  BY Zenon DEF TaskInv
<1>2. /\ now' = now /\ start' = start /\ bytes' = 0 /\ pc = "sum" /\ pc' = "restore"
      /\ req' = req /\ sched_intent' = sched_intent /\ old_intent' = old_intent /\ tmp' = tmp
      /\ io_bytes_window' = [io_bytes_window EXCEPT ![req.dir] = bytes + req.count]
      /\ s_sched_ticks' = s_sched_ticks /\ mem_bytes_current' = mem_bytes_current
      /\ contract' = contract /\ base' = base /\ live' = live
      /\ window_start_tick' = window_start_tick
      /\ cpu_ticks_window' = cpu_ticks_window
  BY Zenon DEF task_account_io, Move
<1>3. io_bytes_window \in [Dir -> Nat] /\ bytes + req.count \in Nat /\ req.dir \in Dir
  BY <1>1 DEF TaskTypeOK
<1>4. TaskTypeOK'
  BY <1>1, <1>2, <1>3, Zenon DEF TaskTypeOK
<1>5. IoWithinLimit'
  <2> SUFFICES ASSUME NEW d \in Dir, contract.io_bytes_limit[d] # 0
               PROVE  io_bytes_window'[d] <= contract.io_bytes_limit[d]
    BY <1>2, Zenon DEF IoWithinLimit
  <2>1. CASE d = req.dir
    BY <1>1, <1>2, <1>3, <2>1, Zenon DEF StillFits
  <2>2. CASE d # req.dir
    BY <1>1, <1>2, <1>3, <2>2, Zenon DEF IoWithinLimit
  <2> QED
    BY <2>1, <2>2, Zenon
<1>6. CpuWithinWindow' /\ ReadInThePast'
  BY <1>1, <1>2, Zenon DEF CpuWithinWindow, ReadInThePast
<1>7. StillFits' /\ SavedIntent' /\ HeldInTransfer'
  BY <1>1, <1>2, Zenon DEF StillFits, SavedIntent, HeldInTransfer, Entered, Allowed
<1> QED
  BY <1>4, <1>5, <1>6, <1>7, Zenon DEF TaskInv

-----------------------------------------------------------------------------
(* The inductive invariant: what the thread holds at each point of a call     *)
(* survives every interruption by the tick.                                   *)
THEOREM TaskInvariant == TaskSpec => []TaskInv
<1>1. TaskInit => TaskInv
  BY TaskInitInv, Zenon
<1>2. TaskInv /\ [TaskNext]_taskVars => TaskInv'
  <2> SUFFICES ASSUME TaskInv, [TaskNext]_taskVars PROVE TaskInv'
    BY Zenon
  <2>1. CASE TaskNext
    BY <2>1, TickInv, CallInv, ContractInv, ThreadRollInv, RequestInv, AccountInv, Zenon DEF TaskNext
  <2>2. CASE UNCHANGED taskVars
    BY <2>2, Zenon DEF taskVars, window, reqVars, TaskInv, TaskTypeOK, IoWithinLimit, StillFits,
                ReadInThePast, CpuWithinWindow, SavedIntent, HeldInTransfer
  <2> QED
    BY <2>1, <2>2, Zenon
<1> QED
  BY <1>1, <1>2, PTL DEF TaskSpec

(* The state of a task keeps its types. *)
THEOREM TaskTypeCorrect == TaskSpec => []TaskTypeOK
<1>1. TaskInv => TaskTypeOK
  BY Zenon DEF TaskInv
<1> QED
  BY <1>1, TaskInvariant, PTL

(* No window is charged more I/O than its limit (task_allow_io before,        *)
(* task_account_io after the transfer).                                       *)
THEOREM IoCeilingHolds == TaskSpec => []IoWithinLimit
<1>1. TaskInv => IoWithinLimit
  BY Zenon DEF TaskInv
<1> QED
  BY <1>1, TaskInvariant, PTL

(* No window counts more CPU than the ticks it spans, whatever stale values   *)
(* task_roll_window works with.                                               *)
THEOREM CpuCountIsBounded == TaskSpec => []CpuWithinWindow
<1>1. TaskInv => CpuWithinWindow
  BY Zenon DEF TaskInv
<1> QED
  BY <1>1, TaskInvariant, PTL

(* A block request restores the intent of its thread on every way out. *)
THEOREM IntentIsRestored == TaskSpec => []IntentNotLeaked
<1>1. TaskInv => IntentNotLeaked
  BY Zenon DEF TaskInv, SavedIntent, IntentNotLeaked, Entered, Allowed
<1> QED
  BY <1>1, TaskInvariant, PTL

(* A block request frees its bounce buffer on every way out. *)
THEOREM BounceIsReturned == TaskSpec => []BounceReturned
<1>1. TaskInv => BounceReturned
  BY Zenon DEF TaskInv, HeldInTransfer, BounceReturned
<1> QED
  BY <1>1, TaskInvariant, PTL

-----------------------------------------------------------------------------
Charge(lv) == [n \in Sizes |-> n * lv[n]]
Charged(lv) == SumOver(Charge(lv), Sizes)

(* One more or one less allocation of n units changes the sum by n. *)
LEMMA ChargeChanges ==
  ASSUME NEW lv \in [Sizes -> Nat], NEW n \in Sizes, NEW k \in Nat, NEW new,
         new = [lv EXCEPT ![n] = k]
  PROVE  /\ Charged(lv) \in Nat /\ n * lv[n] <= Charged(lv)
         /\ Charged(new) = Charged(lv) - n * lv[n] + n * k
<1> DEFINE f == Charge(lv)
           g == Charge(new)
           R == Sizes \ {n}
<1>1. /\ IsFiniteSet(Sizes) /\ IsFiniteSet(R) /\ n \in Nat
      /\ \A s \in Sizes : s \in Nat
  BY TaskAssumption, FS_Subset, Zenon
<1>2. new \in [Sizes -> Nat] /\ new[n] = k /\ \A s \in R : new[s] = lv[s]
  BY Zenon
<1>3. \A s \in Sizes : f[s] = s * lv[s] /\ g[s] = s * new[s] /\ f[s] \in Nat /\ g[s] \in Nat
  BY <1>1, <1>2 DEF Charge
<1>4. \A s \in R : f[s] \in Nat /\ f[s] = g[s]
  BY <1>2, <1>3, Zenon
<1>5. f[n] = n * lv[n] /\ g[n] = n * k /\ f[n] \in Nat /\ g[n] \in Nat
  BY <1>2, <1>3, Zenon
<1> HIDE DEF f, g
<1>6. SumOver(f, Sizes) \in Nat /\ SumOver(f, Sizes) = f[n] + SumOver(f, R)
  BY <1>1, <1>3, SumFacts, Zenon
<1>7. SumOver(g, Sizes) = g[n] + SumOver(g, R)
  BY <1>1, <1>3, SumFacts, Zenon
<1>8. SumOver(f, R) = SumOver(g, R) /\ SumOver(f, R) \in Nat
  BY <1>1, <1>4, SumSame, SumFacts, Zenon
<1>9. Charged(lv) = SumOver(f, Sizes) /\ Charged(new) = SumOver(g, Sizes)
  BY Zenon DEF Charged, f, g
<1> QED BY <1>5, <1>6, <1>7, <1>8, <1>9

(* The memory charged to a task (task_account_mem_alloc, _free) is the sum of *)
(* its live allocations, and the saturating subtraction never saturates: for  *)
(* any contracts and any sizes.                                               *)
THEOREM MemoryIsExact == TaskSpec => []MemExact
<1> DEFINE Exact == mem_bytes_current = Charged(live)
<1>1. Exact <=> MemExact
  BY Zenon DEF MemExact, Charged, Charge
<1>2. TaskInit => Exact
  <2> SUFFICES ASSUME TaskInit PROVE Exact
    BY Zenon
  <2> DEFINE f == Charge(live)
  <2>1. \A s \in Sizes : f[s] = 0
    BY TaskAssumption DEF TaskInit, Charge
  <2>2. IsFiniteSet(Sizes) /\ \A s \in Sizes : f[s] \in Nat
    BY <2>1, TaskAssumption
  <2> HIDE DEF f
  <2>3. SumOver(f, Sizes) = 0
    BY <2>1, <2>2, SumOfZeros, Zenon
  <2> QED BY <2>3 DEF TaskInit, Charged, f
<1>3. TaskTypeOK /\ Exact /\ [TaskNext]_taskVars => Exact'
  <2> SUFFICES ASSUME TaskTypeOK, Exact, [TaskNext]_taskVars PROVE Exact'
    BY Zenon
  <2>1. ASSUME NEW n \in Sizes, cka_kmalloc(n) PROVE Exact'
    <3> DEFINE k == live[n] + 1
    <3>1. live \in [Sizes -> Nat] /\ k \in Nat /\ n \in Nat /\ live' = [live EXCEPT ![n] = k]
      BY <2>1, TaskAssumption DEF TaskTypeOK, cka_kmalloc
    <3> HIDE DEF k
    <3>2. Charged(live) \in Nat /\ Charged(live') = Charged(live) - n * live[n] + n * k
      BY <3>1, ChargeChanges, ZenonT(30)
    <3>3. n * k = n * live[n] + n /\ n * live[n] \in Nat
      BY <3>1 DEF k
    <3> QED BY <2>1, <3>1, <3>2, <3>3 DEF cka_kmalloc
  <2>2. ASSUME NEW n \in Sizes, cka_kfree(n) PROVE Exact'
    <3> DEFINE k == live[n] - 1
    <3>1. live \in [Sizes -> Nat] /\ k \in Nat /\ n \in Nat /\ live' = [live EXCEPT ![n] = k]
      BY <2>2, TaskAssumption DEF TaskTypeOK, cka_kfree
    <3>2. n * live[n] = n * k + n /\ n * k \in Nat
      BY <3>1
    <3> HIDE DEF k
    <3>3. /\ Charged(live) \in Nat /\ n * live[n] <= Charged(live)
          /\ Charged(live') = Charged(live) - n * live[n] + n * k
      BY <3>1, ChargeChanges, ZenonT(30)
    <3>4. n <= Charged(live) /\ Charged(live') = Charged(live) - n
      BY <3>1, <3>2, <3>3
    <3> QED BY <2>2, <3>1, <3>3, <3>4 DEF cka_kfree
  <2>3. CASE UNCHANGED <<mem_bytes_current, live>>
    BY <2>3, Zenon
  <2>4. \/ \E n \in Sizes : cka_kmalloc(n) \/ cka_kfree(n)
        \/ UNCHANGED <<mem_bytes_current, live>>
    BY Zenon DEF TaskNext, taskVars, sched_on_timer_tick, cka_sched_set_contract, StoreLimits,
           cka_sched_set_current_thread_intent, StoreWindow, SetContractIntent, cka_block_intent,
           LoadStart, StoreRoll, EnterIo, AllocBounce, Transfer, EndIo, LoadBytes,
           task_account_io, RestoreIntent
  <2> QED BY <2>1, <2>2, <2>3, <2>4
<1> HIDE DEF Exact
<1> QED BY <1>1, <1>2, <1>3, TaskTypeCorrect, PTL DEF TaskSpec

(* ---------------------------- capability tables --------------------------- *)

K == GenMod - 1

(* The generation that follows g after d < K bumps. *)
After(g, d) == IF g + d <= K THEN g + d ELSE g + d - K

(* Generations are issued in rotation: within K of each other they differ by  *)
(* the distance.                                                              *)
Rotates(s) ==
  \A n, m \in 1..Len(s) : n <= m /\ m - n < K => s[m] = After(s[n], m - n)

(* What holds of one slot, given its entry, generation and issue history.     *)
GoodSlot(e, g, s) ==
  /\ Rotates(s)
  /\ e # NULL => e.gen = g /\ s # <<>> /\ s[Len(s)] = g
  /\ e = NULL /\ s # <<>> => g = cap_bump_gen(s[Len(s)])

(* A table that is in order. *)
Good(tab) ==
  /\ tab \in CapTables
  /\ IsInjective(tab.free)
  /\ Range(tab.free) = {i \in Slot : tab.slots[i] = NULL}
  /\ \A i \in Slot : GoodSlot(tab.slots[i], tab.gens[i], tab.issued[i])

-----------------------------------------------------------------------------
(* A bump is an increment that wraps from 2^32 - 1 to 1. *)
LEMMA BumpGen ==
  ASSUME NEW g \in Gen
  PROVE  /\ cap_bump_gen(g) \in Gen
         /\ cap_bump_gen(g) = IF g = K THEN 1 ELSE g + 1
<1>1. CASE g = K
  BY <1>1, CapAssumption DEF cap_bump_gen, Gen, K
<1>2. CASE g # K
  <2>1. g + 1 \in 0..(GenMod - 1)
    BY <1>2, CapAssumption DEF Gen, K
  <2>2. (g + 1) % GenMod = g + 1
    BY <2>1, CapAssumption
  <2> QED
    BY <1>2, <2>1, <2>2, CapAssumption DEF cap_bump_gen, Gen, K
<1> QED
  BY <1>1, <1>2, Zenon

(* Issuing the generation of a free slot keeps the rotation. *)
LEMMA IssueRotates ==
  ASSUME NEW s \in Seq(Gen), NEW g \in Gen, Rotates(s),
         s # <<>> => g = cap_bump_gen(s[Len(s)])
  PROVE  Rotates(Append(s, g))
<1> DEFINE r == Append(s, g)
<1>1. /\ Len(s) \in Nat
      /\ Len(r) = Len(s) + 1
      /\ r[Len(s) + 1] = g
      /\ \A k \in 1..Len(s) : r[k] = s[k] /\ s[k] \in Gen
  BY SeqItem, SeqLen
<1> HIDE DEF r
<1> SUFFICES ASSUME NEW n \in 1..Len(r), NEW m \in 1..Len(r), n <= m, m - n < K
             PROVE  r[m] = After(r[n], m - n)
  BY Zenon DEF Rotates, r
<1>2. CASE m <= Len(s)
  BY <1>1, <1>2 DEF Rotates
<1>3. CASE m = Len(s) + 1 /\ n = m
  BY <1>1, <1>3, CapAssumption DEF After, Gen, K
<1>4. CASE m = Len(s) + 1 /\ n < m
  <2>1. n \in 1..Len(s) /\ Len(s) \in 1..Len(s) /\ s # <<>>
    BY <1>1, <1>4
  <2>2. s[Len(s)] = After(s[n], Len(s) - n)
    BY <1>1, <1>4, <2>1, CapAssumption DEF Rotates, K
  <2>3. g = IF s[Len(s)] = K THEN 1 ELSE s[Len(s)] + 1
    BY <1>1, <2>1, BumpGen, Zenon
  <2>4. \A a, b \in Gen : \A d \in Nat :
          d + 1 < K /\ b = After(a, d) =>
            (IF b = K THEN 1 ELSE b + 1) = After(a, d + 1)
    BY CapAssumption DEF After, Gen, K
  <2> DEFINE d == Len(s) - n
  <2>5. /\ s[n] \in Gen /\ s[Len(s)] \in Gen /\ d \in Nat
        /\ m - n = d + 1 /\ d + 1 < K /\ s[Len(s)] = After(s[n], d)
    BY <1>1, <1>4, <2>1, <2>2
  <2> HIDE DEF d
  <2>6. g = After(s[n], d + 1)
    BY ONLY <2>3, <2>4, <2>5, ZenonT(30)
  <2>7. g = After(s[n], m - n)
    BY <2>5, <2>6, Zenon
  <2> QED
    BY <1>1, <1>4, <2>1, <2>7, Zenon
<1> QED
  BY <1>1, <1>2, <1>3, <1>4

(* The stack of free slots always has room for a slot that is not on it. *)
LEMMA RoomToFree ==
  ASSUME NEW free \in Seq(Slot), IsInjective(free), NEW i \in Slot, i \notin Range(free)
  PROVE  Len(free) < NSlots
<1>1. IsFiniteSet(Slot) /\ Cardinality(Slot) = NSlots
  BY CapAssumption, FS_Interval DEF Slot
<1>2. Append(free, i) \in Seq(Slot) /\ IsInjective(Append(free, i))
  BY AppendMembers, Zenon
<1>3. Len(Append(free, i)) <= NSlots
  BY <1>1, <1>2, InjectiveLen, Zenon
<1> QED
  BY <1>3, CapAssumption, SeqLen

-----------------------------------------------------------------------------
(* cap_table_init builds a well-formed table. *)
LEMMA EmptyGood == Good(EmptyTable)
<1> DEFINE f == [k \in 1..NSlots |-> k - 1]
<1>1. f \in Seq(Slot) /\ Len(f) = NSlots
  BY CapAssumption DEF Slot
<1>2. EmptyTable \in CapTables
  BY <1>1, CapAssumption DEF EmptyTable, CapTables, Slot, Gen
<1>3. IsInjective(f)
  BY CapAssumption DEF IsInjective
<1>4. Range(f) = Slot
  <2>1. \A x \in Slot : x + 1 \in 1..NSlots /\ f[x + 1] = x
    BY CapAssumption DEF Slot
  <2>2. \A x : x \in Range(f) <=> \E k \in 1..NSlots : f[k] = x
    BY Zenon DEF Range
  <2>3. \A k \in 1..NSlots : f[k] \in Slot
    BY CapAssumption DEF Slot
  <2> HIDE DEF f
  <2> QED
    BY <2>1, <2>2, <2>3, Zenon
<1>5. \A i \in Slot : GoodSlot(NULL, 1, <<>>)
  BY DEF GoodSlot, Rotates
<1> QED
  BY <1>2, <1>3, <1>4, <1>5, Zenon DEF Good, EmptyTable

(* From table tab to q the free slot j gets an entry. *)
Fills(tab, q, j, rights, r) ==
  /\ j \in Slot /\ tab.slots[j] = NULL
  /\ q.slots[j] # NULL /\ q.slots[j].rights = rights /\ q.slots[j].root = r
  /\ \A i \in Slot : i # j => q.slots[i] = tab.slots[i]

(* An insertion fills the top free slot and touches no other. *)
LEMMA InsertGood ==
  ASSUME NEW tab, Good(tab), tab.free # <<>>, NEW rights \in SUBSET Right,
         NEW o \in Obj, NEW r \in Root,
         NEW q, q = cap_table_insert(tab, rights, o, r), NEW j, j = TopFree(tab)
  PROVE  Good(q) /\ Fills(tab, q, j, rights, r)
<1> DEFINE g == tab.gens[j]
           e == [rights |-> rights, obj |-> o, gen |-> g, root |-> r]
<1>1. /\ tab.slots \in [Slot -> Entry \cup {NULL}]
      /\ tab.gens \in [Slot -> Gen]
      /\ tab.free \in Seq(Slot)
      /\ tab.issued \in [Slot -> Seq(Gen)]
      /\ IsInjective(tab.free)
  BY Zenon DEF Good, CapTables
<1>2. /\ j \in Range(tab.free)
      /\ PopFree(tab.free) \in Seq(Slot)
      /\ Range(PopFree(tab.free)) = Range(tab.free) \ {j}
      /\ IsInjective(PopFree(tab.free))
  BY <1>1, FrontMembers, Zenon DEF TopFree, PopFree
<1>3. j \in Slot /\ tab.slots[j] = NULL
  BY <1>2, Zenon DEF Good
<1>4. e \in Entry /\ e # NULL /\ g \in Gen
  BY <1>1, <1>3, NullAssumption DEF Entry
<1>5. /\ q.slots = [tab.slots EXCEPT ![j] = e]
      /\ q.gens = tab.gens
      /\ q.free = PopFree(tab.free)
      /\ q.issued = [tab.issued EXCEPT ![j] = Append(@, g)]
  BY Zenon DEF cap_table_insert
<1>6. q \in CapTables
  <2>1. Append(tab.issued[j], g) \in Seq(Gen)
    BY <1>1, <1>3, <1>4
  <2> QED
    BY <1>1, <1>2, <1>3, <1>4, <2>1, Zenon DEF cap_table_insert, CapTables
<1>7. Range(q.free) = {i \in Slot : q.slots[i] = NULL}
  BY <1>1, <1>2, <1>3, <1>4, <1>5 DEF Good
<1>8. \A i \in Slot : GoodSlot(q.slots[i], q.gens[i], q.issued[i])
  <2> SUFFICES ASSUME NEW i \in Slot PROVE GoodSlot(q.slots[i], q.gens[i], q.issued[i])
    BY Zenon
  <2>1. GoodSlot(tab.slots[i], tab.gens[i], tab.issued[i])
    BY Zenon DEF Good
  <2>2. CASE i # j
    BY <1>1, <1>5, <2>1, <2>2, Zenon
  <2>3. CASE i = j
    <3> DEFINE s == tab.issued[j]
    <3>1. s \in Seq(Gen) /\ Rotates(s) /\ (s # <<>> => g = cap_bump_gen(s[Len(s)]))
      BY <1>1, <1>3, <2>1, <2>3, Zenon DEF GoodSlot
    <3>2. q.slots[i] = e /\ q.gens[i] = g /\ q.issued[i] = Append(s, g)
      BY <1>1, <1>3, <1>5, <2>3, Zenon
    <3> HIDE DEF s
    <3>3. Rotates(Append(s, g))
      BY <1>4, <3>1, IssueRotates, Zenon
    <3>4. Append(s, g) # <<>> /\ Append(s, g)[Len(Append(s, g))] = g
      BY <1>4, <3>1, AppendLast, Zenon
    <3>5. e.gen = g
      BY Zenon
    <3> HIDE DEF e, g
    <3> QED
      BY <1>4, <3>2, <3>3, <3>4, <3>5, Zenon DEF GoodSlot
  <2> QED
    BY <2>2, <2>3, Zenon
<1>9. Good(q)
  BY <1>2, <1>5, <1>6, <1>7, <1>8, Zenon DEF Good
<1>10. q.slots[j] # NULL /\ q.slots[j].rights = rights /\ q.slots[j].root = r
  BY <1>1, <1>3, <1>4, <1>5
<1>11. \A i \in Slot : i # j => q.slots[i] = tab.slots[i]
  BY <1>1, <1>5, Zenon
<1> QED
  BY <1>3, <1>9, <1>10, <1>11, Zenon DEF Fills

(* Emptying a slot and bumping its generation. *)
LEMMA ReleaseSlot ==
  ASSUME NEW e, e # NULL, NEW g, NEW s, GoodSlot(e, g, s)
  PROVE  GoodSlot(NULL, cap_bump_gen(g), s)
  BY Zenon DEF GoodSlot

(* A removal empties its slot and touches no other. *)
LEMMA RemoveGood ==
  ASSUME NEW tab, Good(tab), NEW i \in Slot, tab.slots[i] # NULL,
         NEW q, q = cap_table_remove(tab, i)
  PROVE  /\ Good(q)
         /\ q.slots[i] = NULL
         /\ \A j \in Slot : j # i => q.slots[j] = tab.slots[j]
<1>1. /\ tab.slots \in [Slot -> Entry \cup {NULL}]
      /\ tab.gens \in [Slot -> Gen]
      /\ tab.free \in Seq(Slot)
      /\ tab.issued \in [Slot -> Seq(Gen)]
      /\ IsInjective(tab.free)
  BY Zenon DEF Good, CapTables
<1>2. i \notin Range(tab.free)
  BY Zenon DEF Good
<1>3. cap_table_free_slot(tab.free, i) = Append(tab.free, i)
  BY <1>1, <1>2, RoomToFree, Zenon DEF cap_table_free_slot
<1>4. /\ Append(tab.free, i) \in Seq(Slot)
      /\ Range(Append(tab.free, i)) = Range(tab.free) \cup {i}
      /\ IsInjective(Append(tab.free, i))
  BY <1>1, <1>2, AppendMembers
<1>5. cap_bump_gen(tab.gens[i]) \in Gen
  BY <1>1, BumpGen, Zenon
<1>6. /\ q.slots = [tab.slots EXCEPT ![i] = NULL]
      /\ q.gens = [tab.gens EXCEPT ![i] = cap_bump_gen(tab.gens[i])]
      /\ q.free = Append(tab.free, i)
      /\ q.issued = tab.issued
  BY <1>3, Zenon DEF cap_table_remove
<1>7. q \in CapTables
  BY <1>1, <1>3, <1>4, <1>5, Zenon DEF cap_table_remove, CapTables
<1>8. Range(q.free) = {j \in Slot : q.slots[j] = NULL}
  BY <1>1, <1>4, <1>6 DEF Good
<1>9. \A j \in Slot : GoodSlot(q.slots[j], q.gens[j], q.issued[j])
  <2> SUFFICES ASSUME NEW j \in Slot PROVE GoodSlot(q.slots[j], q.gens[j], q.issued[j])
    BY Zenon
  <2>1. GoodSlot(tab.slots[j], tab.gens[j], tab.issued[j])
    BY Zenon DEF Good
  <2>2. CASE j # i
    BY <1>1, <1>6, <2>1, <2>2, Zenon
  <2>3. CASE j = i
    <3>1. GoodSlot(NULL, cap_bump_gen(tab.gens[i]), tab.issued[i])
      BY <2>1, <2>3, ReleaseSlot, Zenon
    <3> QED
      BY <1>1, <1>6, <2>3, <3>1, Zenon
  <2> QED
    BY <2>2, <2>3, Zenon
<1>10. Good(q)
  BY <1>4, <1>6, <1>7, <1>8, <1>9, Zenon DEF Good
<1> QED
  BY <1>1, <1>6, <1>10, Zenon

(* Invalidating an object empties exactly the slots that hold it. *)
LEMMA InvalidateGood ==
  ASSUME NEW tab, Good(tab),
         NEW hits \in SUBSET {i \in Slot : tab.slots[i] # NULL},
         NEW order \in [1..Cardinality(hits) -> hits],
         \A a, b \in DOMAIN order : a < b => order[a] < order[b],
         Range(order) = hits, IsFiniteSet(hits),
         NEW q,
         q = [slots  |-> [i \in Slot |-> IF i \in hits THEN NULL ELSE tab.slots[i]],
              gens   |-> [i \in Slot |-> IF i \in hits THEN cap_bump_gen(tab.gens[i])
                                                       ELSE tab.gens[i]],
              free   |-> tab.free \o order,
              issued |-> tab.issued]
  PROVE  /\ Good(q)
         /\ \A i \in Slot : q.slots[i] \in {NULL, tab.slots[i]}
<1>1. /\ tab.slots \in [Slot -> Entry \cup {NULL}]
      /\ tab.gens \in [Slot -> Gen]
      /\ tab.free \in Seq(Slot)
      /\ tab.issued \in [Slot -> Seq(Gen)]
      /\ IsInjective(tab.free)
  BY Zenon DEF Good, CapTables
<1>2. order \in Seq(Slot) /\ IsInjective(order)
  <2>1. Cardinality(hits) \in Nat
    BY FS_CardinalityType, Zenon
  <2>2. hits \subseteq Slot /\ Slot \subseteq Int
    BY CapAssumption DEF Slot
  <2>3. hits \in SUBSET Int /\ \A a, b \in 1..Cardinality(hits) : a < b => order[a] < order[b]
    BY <2>2, Zenon
  <2>4. order \in Seq(hits) /\ IsInjective(order)
    BY ONLY <2>1, <2>3, order \in [1..Cardinality(hits) -> hits], AscendingInjective, Zenon
  <2> QED
    BY <2>2, <2>4, SeqMono, Zenon
<1>3. Range(tab.free) \cap Range(order) = {}
  BY Zenon DEF Good
<1>4. /\ tab.free \o order \in Seq(Slot)
      /\ Range(tab.free \o order) = Range(tab.free) \cup Range(order)
      /\ IsInjective(tab.free \o order)
  BY <1>1, <1>2, <1>3, ConcatMembers, Zenon
<1>5. \A i \in Slot : cap_bump_gen(tab.gens[i]) \in Gen
  BY <1>1, BumpGen, Zenon
<1>6. q \in CapTables
  BY <1>1, <1>4, <1>5, Zenon DEF CapTables
<1>7. Range(q.free) = {i \in Slot : q.slots[i] = NULL}
  BY <1>4, Zenon DEF Good
<1>8. \A i \in Slot : GoodSlot(q.slots[i], q.gens[i], q.issued[i])
  <2> SUFFICES ASSUME NEW i \in Slot PROVE GoodSlot(q.slots[i], q.gens[i], q.issued[i])
    BY Zenon
  <2>1. GoodSlot(tab.slots[i], tab.gens[i], tab.issued[i])
    BY Zenon DEF Good
  <2>2. CASE i \notin hits
    BY <2>1, <2>2, Zenon
  <2>3. CASE i \in hits
    <3>1. GoodSlot(NULL, cap_bump_gen(tab.gens[i]), tab.issued[i])
      BY <2>1, <2>3, ReleaseSlot, Zenon
    <3> QED
      BY <2>3, <3>1, Zenon
  <2> QED
    BY <2>2, <2>3, Zenon
<1>9. Good(q)
  BY <1>4, <1>6, <1>7, <1>8, Zenon DEF Good
<1>10. \A i \in Slot : q.slots[i] \in {NULL, tab.slots[i]}
  BY Zenon
<1> QED
  BY <1>9, <1>10, Zenon

-----------------------------------------------------------------------------
(* The invariant, of tables c and grants g. *)
AllGood(c) == c \in [Table -> CapTables] /\ \A t \in Table : Good(c[t])

Bounded(c, g) ==
  \A t \in Table, i \in Slot : c[t].slots[i] # NULL =>
    /\ c[t].slots[i].root \in Root
    /\ c[t].slots[i].rights \subseteq g[c[t].slots[i].root]

(* Slot i of table t holds a descendant of r. *)
Refers(c, t, i, r) == c[t].slots[i] # NULL /\ c[t].slots[i].root = r

Single(c, g) ==
  \A r \in Root : "DUP" \notin g[r] =>
    \A t, u \in Table, i, k \in Slot : Refers(c, t, i, r) /\ Refers(c, u, k, r) => t = u /\ i = k

Inv(c, g) == AllGood(c) /\ g \in [Root -> SUBSET Right] /\ Bounded(c, g) /\ Single(c, g)

(* From c to d one slot of table t is filled and nothing else changes. *)
Adds(c, d, t, rights, r) ==
  \E j \in Slot :
    /\ c[t].slots[j] = NULL
    /\ Refers(d, t, j, r) /\ d[t].slots[j].rights = rights
    /\ \A u \in Table, i \in Slot : u # t \/ i # j => d[u].slots[i] = c[u].slots[i]

(* One more entry. *)
LEMMA Inserted ==
  ASSUME NEW c, AllGood(c), NEW t \in Table, c[t].free # <<>>,
         NEW rights \in SUBSET Right, NEW o \in Obj, NEW r \in Root,
         NEW d, d = [c EXCEPT ![t] = cap_table_insert(@, rights, o, r)]
  PROVE  AllGood(d) /\ Adds(c, d, t, rights, r)
<1> DEFINE q == cap_table_insert(c[t], rights, o, r)
           j == TopFree(c[t])
<1>1. Good(c[t]) /\ c \in [Table -> CapTables]
  BY Zenon DEF AllGood
<1>2. d[t] = q /\ \A u \in Table : u # t => d[u] = c[u]
  BY <1>1, Zenon
<1>3. q \in CapTables => d \in [Table -> CapTables]
  BY <1>1, Zenon
<1> HIDE DEF q, j
<1>4. \A tab : Good(tab) /\ tab.free # <<>> =>
        /\ Good(cap_table_insert(tab, rights, o, r))
        /\ Fills(tab, cap_table_insert(tab, rights, o, r), TopFree(tab), rights, r)
  BY InsertGood, Zenon
<1>5. Good(q) /\ Fills(c[t], q, j, rights, r)
  BY <1>1, <1>4, Zenon DEF q, j
<1>6. AllGood(d)
  BY <1>2, <1>3, <1>5, Zenon DEF AllGood, Good
<1> QED
  BY <1>2, <1>5, <1>6 DEF Adds, Refers, Fills

(* From c to d slot i of table t is emptied and nothing else changes. *)
Drops(c, d, t, i) ==
  /\ d[t].slots[i] = NULL
  /\ \A u \in Table, k \in Slot : u # t \/ k # i => d[u].slots[k] = c[u].slots[k]

(* One entry fewer. *)
LEMMA Removed ==
  ASSUME NEW c, AllGood(c), NEW t \in Table, NEW i \in Slot, c[t].slots[i] # NULL,
         NEW d, d = [c EXCEPT ![t] = cap_table_remove(@, i)]
  PROVE  AllGood(d) /\ Drops(c, d, t, i)
<1> DEFINE q == cap_table_remove(c[t], i)
<1>1. Good(c[t]) /\ c \in [Table -> CapTables]
  BY Zenon DEF AllGood
<1>2. d[t] = q /\ \A u \in Table : u # t => d[u] = c[u]
  BY <1>1, Zenon
<1>3. q \in CapTables => d \in [Table -> CapTables]
  BY <1>1, Zenon
<1> HIDE DEF q
<1>4. /\ Good(q)
      /\ q.slots[i] = NULL
      /\ \A k \in Slot : k # i => q.slots[k] = c[t].slots[k]
  BY <1>1, RemoveGood DEF q
<1>5. AllGood(d)
  BY <1>2, <1>3, <1>4, Zenon DEF AllGood, Good
<1> QED
  BY <1>2, <1>4, <1>5, Zenon DEF Drops

(* A valid handle names an entry. *)
LEMMA LookupEntry ==
  ASSUME NEW c, NEW g, Inv(c, g), NEW t \in Table, NEW h, NEW need,
         cap_lookup(c[t], h, need)
  PROVE  /\ h.idx \in Slot
         /\ c[t].slots[h.idx] # NULL
         /\ c[t].slots[h.idx].root \in Root /\ c[t].slots[h.idx].obj \in Obj
         /\ need \subseteq c[t].slots[h.idx].rights
         /\ c[t].slots[h.idx].rights \subseteq g[c[t].slots[h.idx].root]
<1>1. h.idx \in Slot /\ c[t].slots[h.idx] # NULL /\ need \subseteq c[t].slots[h.idx].rights
  BY Zenon DEF cap_lookup
<1>2. c[t].slots[h.idx] \in Entry
  BY <1>1, Zenon DEF Inv, AllGood, CapTables
<1>3. c[t].slots[h.idx].obj \in Obj
  BY <1>2, Zenon DEF Entry
<1> QED
  BY <1>1, <1>3, Zenon DEF Inv, Bounded

-----------------------------------------------------------------------------
(* The invariant holds before any capability exists. *)
LEMMA InitInv == Init => Inv(caps, granted)
<1> SUFFICES ASSUME Init PROVE Inv(caps, granted)
  BY Zenon
<1>1. AllGood(caps)
  BY EmptyGood, Zenon DEF Init, AllGood, Good
<1>2. \A t \in Table, i \in Slot : caps[t].slots[i] = NULL
  BY Zenon DEF Init, EmptyTable
<1>3. granted \in [Root -> SUBSET Right]
  BY Zenon DEF Init
<1> QED
  BY <1>1, <1>2, <1>3, Zenon DEF Inv, Bounded, Single, Refers

(* cap_create: a new root, its entry in a free slot of the table. *)
LEMMA CreateInv ==
  ASSUME Inv(caps, granted), NEW t \in Table, NEW rights \in SUBSET Right, NEW o \in Obj, NEW r \in Root,
         cap_create(t, rights, o, r)
  PROVE  Inv(caps, granted)'
<1>1. /\ AllGood(caps) /\ caps[t].free # <<>>
      /\ caps' = [caps EXCEPT ![t] = cap_table_insert(@, rights, o, r)]
      /\ granted' = [granted EXCEPT ![r] = rights]
      /\ granted \in [Root -> SUBSET Right]
  BY Zenon DEF Inv, cap_create, CanInsert
<1>2. \A u \in Table, i \in Slot : ~Refers(caps, u, i, r)
  <2> SUFFICES ASSUME NEW u \in Table, NEW i \in Slot, Refers(caps, u, i, r) PROVE FALSE
    BY Zenon
  <2>1. <<u, i>> \in Entries(r)
    BY Zenon DEF Entries, Refers
  <2> QED
    BY <2>1, Zenon DEF cap_create
<1>3. AllGood(caps') /\ Adds(caps, caps', t, rights, r)
  BY <1>1, Inserted, Zenon
<1>4. PICK j \in Slot :
        /\ Refers(caps', t, j, r) /\ caps'[t].slots[j].rights = rights
        /\ \A u \in Table, i \in Slot : u # t \/ i # j => caps'[u].slots[i] = caps[u].slots[i]
  BY <1>3, Zenon DEF Adds
<1>5. granted' \in [Root -> SUBSET Right] /\ granted'[r] = rights
      /\ \A x \in Root : x # r => granted'[x] = granted[x]
  BY <1>1, Zenon
<1>6. Bounded(caps', granted')
  BY <1>2, <1>4, <1>5 DEF Inv, Bounded, Refers
<1>7. Single(caps', granted')
  BY <1>2, <1>4, <1>5 DEF Inv, Single, Refers
<1> QED
  BY <1>3, <1>5, <1>6, <1>7, Zenon DEF Inv

(* cap_dup: a second entry of a root whose first one carries DUP. *)
LEMMA DupInv ==
  ASSUME Inv(caps, granted), NEW src \in Table, NEW dst \in Table, NEW h,
         NEW mask \in SUBSET Right, cap_dup(src, h, dst, mask)
  PROVE  Inv(caps, granted)'
<1> DEFINE e == caps[src].slots[h.idx]
           rights == e.rights \cap mask
           o == e.obj
           r == e.root
<1>1. /\ AllGood(caps) /\ caps[dst].free # <<>>
      /\ caps' = [caps EXCEPT ![dst] = cap_table_insert(@, rights, o, r)]
      /\ granted' = granted
      /\ granted \in [Root -> SUBSET Right]
      /\ cap_lookup(caps[src], h, {"DUP"})
  BY Zenon DEF Inv, cap_dup, CanInsert
<1>2. o \in Obj /\ r \in Root /\ "DUP" \in granted[r] /\ rights \subseteq granted[r] /\ rights \in SUBSET Right
  BY <1>1, LookupEntry, Zenon
<1> HIDE DEF e, rights, o, r
<1>3. AllGood(caps') /\ Adds(caps, caps', dst, rights, r)
  BY <1>1, <1>2, Inserted, Zenon
<1>4. PICK j \in Slot :
        /\ Refers(caps', dst, j, r) /\ caps'[dst].slots[j].rights = rights
        /\ \A u \in Table, i \in Slot : u # dst \/ i # j => caps'[u].slots[i] = caps[u].slots[i]
  BY <1>3, Zenon DEF Adds
<1>5. Bounded(caps', granted)
  BY <1>2, <1>4 DEF Inv, Bounded, Refers
<1>6. Single(caps', granted)
  BY <1>2, <1>4 DEF Inv, Single, Refers
<1> QED
  BY <1>1, <1>3, <1>5, <1>6, Zenon DEF Inv

(* cap_transfer: the entry is inserted in the target, then removed at its source. *)
LEMMA TransferInv ==
  ASSUME Inv(caps, granted), NEW src \in Table, NEW dst \in Table, NEW h,
         NEW mask \in SUBSET Right, cap_transfer(src, h, dst, mask)
  PROVE  Inv(caps, granted)'
<1> DEFINE e == caps[src].slots[h.idx]
           rights == e.rights \cap mask
           o == e.obj
           r == e.root
           k == h.idx
           added == [caps EXCEPT ![dst] = cap_table_insert(@, rights, o, r)]
<1>1. /\ AllGood(caps) /\ caps[dst].free # <<>>
      /\ caps' = [added EXCEPT ![src] = cap_table_remove(@, k)]
      /\ granted' = granted
      /\ granted \in [Root -> SUBSET Right]
      /\ cap_lookup(caps[src], h, {"TRANSFER"})
  BY Zenon DEF Inv, cap_transfer, CanInsert
<1>2. /\ o \in Obj /\ r \in Root /\ rights \subseteq granted[r] /\ rights \in SUBSET Right
      /\ k \in Slot /\ Refers(caps, src, k, r)
  BY <1>1, LookupEntry, Zenon DEF Refers
<1> HIDE DEF e, rights, o, r, k
<1>3. AllGood(added) /\ Adds(caps, added, dst, rights, r)
  BY <1>1, <1>2, Inserted, Zenon
<1> HIDE DEF added
<1>4. PICK j \in Slot :
        /\ caps[dst].slots[j] = NULL
        /\ Refers(added, dst, j, r) /\ added[dst].slots[j].rights = rights
        /\ \A u \in Table, i \in Slot : u # dst \/ i # j => added[u].slots[i] = caps[u].slots[i]
  BY <1>3, Zenon DEF Adds
<1>5. (src # dst \/ k # j) /\ added[src].slots[k] = caps[src].slots[k]
  BY <1>2, <1>4, Zenon DEF Refers
<1>6. AllGood(caps') /\ Drops(added, caps', src, k)
  <2>1. added[src].slots[k] # NULL
    BY <1>2, <1>5, Zenon DEF Refers
  <2> QED
    BY <1>1, <1>2, <1>3, <2>1, Removed, Zenon
<1>7. /\ Refers(caps', dst, j, r) /\ caps'[dst].slots[j].rights = rights
      /\ \A u \in Table, i \in Slot : u # dst \/ i # j =>
           caps'[u].slots[i] \in {NULL, caps[u].slots[i]}
  BY <1>4, <1>5, <1>6 DEF Refers, Drops
<1>8. Bounded(caps', granted)
  BY <1>2, <1>7 DEF Inv, Bounded, Refers
<1>9. Single(caps', granted)
  <2> SUFFICES ASSUME NEW x \in Root, "DUP" \notin granted[x],
                      NEW t \in Table, NEW u \in Table, NEW i \in Slot, NEW l \in Slot,
                      Refers(caps', t, i, x), Refers(caps', u, l, x)
               PROVE  t = u /\ i = l
    BY Zenon DEF Single
  <2>1. \A v \in Table, n \in Slot :
          Refers(caps', v, n, x) /\ (v # dst \/ n # j) =>
            Refers(caps, v, n, x) /\ (v # src \/ n # k)
    BY <1>6, <1>7, ZenonT(30) DEF Refers, Drops
  <2>2. \A v \in Table, n \in Slot : Refers(caps, v, n, r) /\ x = r => v = src /\ n = k
    BY <1>2, Zenon DEF Inv, Single
  <2>3. x # r => (t # dst \/ i # j) /\ (u # dst \/ l # j)
    BY <1>7, Zenon DEF Refers
  <2> QED
    BY <2>1, <2>2, <2>3 DEF Inv, Single
<1> QED
  BY <1>1, <1>6, <1>8, <1>9, Zenon DEF Inv

(* Tables that only lose entries keep the invariant. *)
LEMMA FewerInv ==
  ASSUME Inv(caps, granted), granted' = granted, AllGood(caps'),
         \A u \in Table, i \in Slot : caps'[u].slots[i] \in {NULL, caps[u].slots[i]}
  PROVE  Inv(caps, granted)'
<1>1. Bounded(caps', granted)
  BY Zenon DEF Inv, Bounded
<1>2. Single(caps', granted)
  BY DEF Inv, Single, Refers
<1> QED
  BY <1>1, <1>2, Zenon DEF Inv

(* cap_drop: the slot is free and its generation is new. *)
LEMMA DropInv ==
  ASSUME Inv(caps, granted), NEW t \in Table, NEW h, cap_drop(t, h)
  PROVE  Inv(caps, granted)'
<1> DEFINE k == h.idx
<1>1. /\ AllGood(caps) /\ granted' = granted
      /\ caps' = [caps EXCEPT ![t] = cap_table_remove(@, k)]
      /\ cap_lookup(caps[t], h, {})
  BY Zenon DEF Inv, cap_drop
<1>2. k \in Slot /\ caps[t].slots[k] # NULL
  BY <1>1, LookupEntry, Zenon
<1> HIDE DEF k
<1>3. AllGood(caps') /\ Drops(caps, caps', t, k)
  BY <1>1, <1>2, Removed, Zenon
<1>4. \A u \in Table, i \in Slot : caps'[u].slots[i] \in {NULL, caps[u].slots[i]}
  BY <1>3, Zenon DEF Drops
<1> QED
  BY <1>1, <1>3, <1>4, FewerInv, Zenon

(* cap_invalidate: every entry of the object goes at once. *)
LEMMA InvalidateInv ==
  ASSUME Inv(caps, granted), NEW t \in Table, NEW o \in Obj,
         cap_table_invalidate_object(t, o)
  PROVE  Inv(caps, granted)'
<1> DEFINE tab  == caps[t]
           hits == {i \in Slot : tab.slots[i] # NULL /\ tab.slots[i].obj = o}
           R(order) == [slots  |-> [i \in Slot |-> IF i \in hits THEN NULL ELSE tab.slots[i]],
                        gens   |-> [i \in Slot |-> IF i \in hits THEN cap_bump_gen(tab.gens[i])
                                                                 ELSE tab.gens[i]],
                        free   |-> tab.free \o order,
                        issued |-> tab.issued]
<1>1. PICK order \in [1..Cardinality(hits) -> hits] :
        /\ \A a, b \in DOMAIN order : a < b => order[a] < order[b]
        /\ Range(order) = hits
        /\ caps' = [caps EXCEPT ![t] = R(order)]
        /\ granted' = granted
  BY Zenon DEF cap_table_invalidate_object
<1> DEFINE q == R(order)
<1>2. /\ hits \in SUBSET {i \in Slot : tab.slots[i] # NULL}
      /\ IsFiniteSet(hits)
  <2>0. Slot = 0..(NSlots - 1) /\ NSlots - 1 \in Int
    BY CapAssumption DEF Slot
  <2>1. IsFiniteSet(Slot)
    BY ONLY <2>0, FS_Interval, 0 \in Int, Zenon
  <2> QED
    BY <2>1, FS_Subset, Zenon
<1>3. AllGood(caps) /\ Good(tab) /\ caps \in [Table -> CapTables]
  BY Zenon DEF Inv, AllGood
<1>4. /\ Good(q)
      /\ \A i \in Slot : q.slots[i] \in {NULL, tab.slots[i]}
  <2> HIDE DEF hits, tab
  <2> QED
    BY <1>1, <1>2, <1>3, InvalidateGood, Zenon
<1>5. /\ caps'[t] = q /\ \A u \in Table : u # t => caps'[u] = caps[u]
      /\ q \in CapTables => caps' \in [Table -> CapTables]
  BY <1>1, <1>3, Zenon
<1> HIDE DEF q
<1>6. AllGood(caps')
  BY <1>3, <1>4, <1>5 DEF AllGood, Good
<1>7. \A u \in Table, i \in Slot : caps'[u].slots[i] \in {NULL, caps[u].slots[i]}
  BY <1>4, <1>5, Zenon
<1> QED
  BY <1>1, <1>6, <1>7, FewerInv, Zenon

(* Every step keeps the invariant. *)
LEMMA NextInv == Inv(caps, granted) /\ [Next]_vars => Inv(caps, granted)'
<1> SUFFICES ASSUME Inv(caps, granted), [Next]_vars PROVE Inv(caps, granted)'
  BY Zenon
<1>1. CASE \E t \in Table, o \in Obj, r \in Root, rights \in SUBSET Right :
             cap_create(t, rights, o, r)
  BY <1>1, CreateInv, Zenon
<1>2. CASE \E src, dst \in Table, h \in Handle, mask \in SUBSET Right :
             cap_dup(src, h, dst, mask)
  BY <1>2, DupInv, Zenon
<1>3. CASE \E src, dst \in Table, h \in Handle, mask \in SUBSET Right :
             cap_transfer(src, h, dst, mask)
  BY <1>3, TransferInv, Zenon
<1>4. CASE \E t \in Table, h \in Handle : cap_drop(t, h)
  BY <1>4, DropInv, Zenon
<1>5. CASE \E t \in Table, o \in Obj : cap_table_invalidate_object(t, o)
  BY <1>5, InvalidateInv, Zenon
<1>6. CASE UNCHANGED vars
  BY <1>6, Zenon DEF vars
<1> QED
  BY <1>1, <1>2, <1>3, <1>4, <1>5, <1>6, Zenon DEF Next, Opens

(* The inductive invariant holds throughout. *)
THEOREM CapInvariant == Spec => []Inv(caps, granted)
  BY InitInv, NextInv, PTL DEF Spec

-----------------------------------------------------------------------------
(* What the invariant says in the terms of CapTable. *)
LEMMA InvMeans ==
  Inv(caps, granted) =>
    /\ TypeOK /\ FreeExact /\ LiveHandleValid
    /\ StaleHandleFails /\ RightsNeverGrow /\ NoCopyWithoutDup
<1> SUFFICES ASSUME Inv(caps, granted)
             PROVE  /\ TypeOK /\ FreeExact /\ LiveHandleValid
                    /\ StaleHandleFails /\ RightsNeverGrow /\ NoCopyWithoutDup
  BY Zenon
<1>1. TypeOK
  BY Zenon DEF TypeOK, Inv, AllGood
<1>2. FreeExact
  BY Zenon DEF FreeExact, Inv, AllGood, Good
<1>3. \A t \in Table, i \in Slot :
        /\ caps[t].issued[i] \in Seq(Gen)
        /\ GoodSlot(caps[t].slots[i], caps[t].gens[i], caps[t].issued[i])
  BY Zenon DEF Inv, AllGood, Good, CapTables
<1>4. LiveHandleValid
  BY <1>3, Zenon DEF LiveHandleValid, GoodSlot
<1>5. StaleHandleFails
  <2> SUFFICES ASSUME NEW t \in Table, NEW i \in Slot, NEW n \in DOMAIN caps[t].issued[i],
                      cap_lookup(caps[t], [idx |-> i, gen |-> caps[t].issued[i][n]], {}),
                      n # Len(caps[t].issued[i]),
                      ~(Len(caps[t].issued[i]) - n >= GenMod - 1)
               PROVE  FALSE
    BY Zenon DEF StaleHandleFails
  <2> DEFINE s == caps[t].issued[i]
             m == Len(s)
  <2>1. s \in Seq(Gen) /\ Rotates(s) /\ s[m] = caps[t].gens[i] /\ s[n] = caps[t].gens[i]
    BY <1>3, Zenon DEF GoodSlot, cap_lookup
  <2>2. m \in Nat /\ n \in 1..m /\ m \in 1..m /\ n < m /\ m - n < K
    BY <2>1, SeqLen, CapAssumption DEF K
  <2>3. s[n] \in Gen
    BY <2>1, <2>2, SeqItem, Zenon
  <2> HIDE DEF s, m
  <2>4. s[m] = After(s[n], m - n)
    BY <2>1, <2>2 DEF Rotates, m
  <2> QED
    BY <2>1, <2>2, <2>3, <2>4, CapAssumption DEF After, K, Gen
<1>6. RightsNeverGrow
  BY Zenon DEF RightsNeverGrow, Inv, Bounded
<1>7. NoCopyWithoutDup
  <2> SUFFICES ASSUME NEW r \in Root, "DUP" \notin granted[r],
                      NEW p \in Entries(r), NEW q \in Entries(r)
               PROVE  p = q
    BY Zenon DEF NoCopyWithoutDup
  <2>1. /\ p = <<p[1], p[2]>> /\ p[1] \in Table /\ p[2] \in Slot /\ Refers(caps, p[1], p[2], r)
        /\ q = <<q[1], q[2]>> /\ q[1] \in Table /\ q[2] \in Slot /\ Refers(caps, q[1], q[2], r)
    BY DEF Entries, Refers
  <2>2. p[1] = q[1] /\ p[2] = q[2]
    BY <2>1 DEF Inv, Single
  <2> QED
    BY <2>1, <2>2, Zenon
<1> QED
  BY <1>1, <1>2, <1>4, <1>5, <1>6, <1>7, Zenon

(* Tables keep their shape. *)
THEOREM CapTypeCorrect == Spec => []TypeOK
  BY CapInvariant, InvMeans, PTL

(* The stack of free slots is exact: no insert overwrites a live entry, and   *)
(* no slot is lost, in a table of any size.                                   *)
THEOREM FreeStackExact == Spec => []FreeExact
  BY CapInvariant, InvMeans, PTL

(* The handle issued for an entry works for as long as the entry lives. *)
THEOREM HandlesStayValid == Spec => []LiveHandleValid
  BY CapInvariant, InvMeans, PTL

(* A stale handle opens nothing until every generation has been used: with    *)
(* 32-bit generations, until 2^32 - 1 removals from its slot.                 *)
THEOREM StaleHandlesFail == Spec => []StaleHandleFails
  BY CapInvariant, InvMeans, PTL

(* No chain of dups and transfers adds a right. *)
THEOREM RightsOnlyShrink == Spec => []RightsNeverGrow
  BY CapInvariant, InvMeans, PTL

(* Without the DUP right a cap_create has at most one descendant. *)
THEOREM UniqueWithoutDup == Spec => []NoCopyWithoutDup
  BY CapInvariant, InvMeans, PTL
=============================================================================
