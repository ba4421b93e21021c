-------------------------------- MODULE Task --------------------------------
(***************************************************************************)
(* Resource accounting of a task (Kern/Kernel/task/task.c) under the calls    *)
(* of its one thread (api/core_kernel_api.c) and the timer tick that          *)
(* interrupts them (sched_on_timer_tick).  None of the calls masks            *)
(* interrupts, so a call is a sequence of steps, cut where the code reads     *)
(* something that the tick writes.  The compiled code (-O2) loads the start   *)
(* of the window once per roll.                                               *)
(*                                                                            *)
(* Sizes are in sectors and in units of memory.  Left out: counters that no   *)
(* code reads back (totals, operations per intent, throttle events, peak) and *)
(* the calls that return an argument error.  A local variable that is dead    *)
(* has its initial value.                                                     *)
(***************************************************************************)
EXTENDS ReadyQueues, FiniteSets, Sums

CONSTANTS Contracts,  \* what cka_sched_set_contract is called with
          Counts,     \* sector counts of block requests
          IoIntents,  \* their intents
          Sizes,      \* sizes of allocations
          MaxTicks,   \* bound on the ticks
          MaxBytes,   \* bound on the sectors charged to a window without limit
          MaxLive     \* bound on the allocations of one size that are live

Dir == {"read", "write"}

ASSUME TaskAssumption ==
  /\ Contracts \subseteq [intent : Nat, window_ticks : Nat, cpu_ticks_limit : Nat,
                          io_bytes_limit : [Dir -> Nat], mem_bytes_limit : Nat]
  /\ Counts \subseteq Nat \ {0}
  /\ IoIntents \subseteq Intent
  /\ Sizes \subseteq Nat /\ IsFiniteSet(Sizes)   \* size_t
  /\ MaxTicks \in Nat /\ MaxBytes \in Nat /\ MaxLive \in Nat

VARIABLES
  s_sched_ticks,      \* timer ticks so far
  contract,           \* the limits of the task
  window_start_tick, cpu_ticks_window, io_bytes_window, mem_bytes_current,
  sched_intent,       \* of the thread
  pc, now, start,     \* where the thread is; the tick and window start it read
  req,                \* the block request in progress
  old_intent, bytes,  \* its saved intent; the window count it loaded
  tmp,                \* whether it holds the pages of a bounce buffer
  base,               \* the intent last set by a contract or by the thread
  live                \* live allocations of each size

window == <<window_start_tick, cpu_ticks_window, io_bytes_window>>
reqVars == <<req, old_intent, bytes, tmp>>
taskVars == <<s_sched_ticks, contract, window, mem_bytes_current, sched_intent,
              pc, now, start, reqVars, base, live>>

NoIo  == [d \in Dir |-> 0]
NoReq == [dir |-> "read", count |-> 0, intent |-> INTERACTIVE, remaining |-> 0]

(* task_init *)
TaskInit ==
  /\ s_sched_ticks = 0
  /\ contract = [intent |-> INTERACTIVE, window_ticks |-> 100, cpu_ticks_limit |-> 0,
                 io_bytes_limit |-> NoIo, mem_bytes_limit |-> 0]
  /\ window_start_tick = 0 /\ cpu_ticks_window = 0 /\ io_bytes_window = NoIo
  /\ mem_bytes_current = 0
  /\ sched_intent = INTERACTIVE
  /\ pc = "idle" /\ now = 0 /\ start = 0
  /\ req = NoReq
  /\ old_intent = INTERACTIVE /\ bytes = 0 /\ tmp = FALSE
  /\ base = INTERACTIVE
  /\ live = [s \in Sizes |-> 0]

-----------------------------------------------------------------------------
(* Mutant: only the byte counts are cleared when a new window begins. *)
roll_keeps_cpu(st, t, cpu) ==
  LET w     == IF contract.window_ticks = 0 THEN 1 ELSE contract.window_ticks
      reset == t < st \/ t - st >= w
  IN  /\ window_start_tick' = IF ~reset THEN window_start_tick
                              ELSE IF t < st THEN t ELSE st + ((t - st) \div w) * w
      /\ cpu_ticks_window' = cpu_ticks_window + cpu
      /\ io_bytes_window' = IF reset THEN NoIo ELSE io_bytes_window

(* task_roll_window for the tick t, when the start it loaded is st; cpu is    *)
(* what task_account_cpu_tick adds to the count afterwards.                   *)
task_roll_window(st, t, cpu) ==
  LET w     == IF contract.window_ticks = 0 THEN 1 ELSE contract.window_ticks
      reset == t < st \/ t - st >= w
  IN  /\ window_start_tick' = IF ~reset THEN window_start_tick
                              ELSE IF t < st THEN t ELSE st + ((t - st) \div w) * w
      /\ cpu_ticks_window' = (IF reset THEN 0 ELSE cpu_ticks_window) + cpu
      /\ io_bytes_window' = IF reset THEN NoIo ELSE io_bytes_window

(* The tick finds a thread of this task running, or one without a task.       *)
sched_on_timer_tick(charged) ==
  LET t == s_sched_ticks + 1
  IN  /\ t <= MaxTicks
      /\ s_sched_ticks' = t
      /\ IF charged
         THEN /\ task_roll_window(window_start_tick, t, 1)
              /\ sched_intent' =
                   IF contract.cpu_ticks_limit # 0 /\ cpu_ticks_window' > contract.cpu_ticks_limit
                   THEN BACKGROUND ELSE sched_intent
         ELSE UNCHANGED <<window, sched_intent>>
      /\ UNCHANGED <<contract, mem_bytes_current, pc, now, start, reqVars, base, live>>

-----------------------------------------------------------------------------
(* Contracts.  The thread reads the tick, stores the limits, starts a new     *)
(* window at the tick it read, and sets its own intent.                       *)
cka_sched_set_contract ==
  /\ pc = "idle"
  /\ now' = s_sched_ticks
  /\ pc' = "limits"
  /\ UNCHANGED <<s_sched_ticks, contract, window, mem_bytes_current, sched_intent,
                 start, reqVars, base, live>>

StoreLimits(c) ==
  /\ pc = "limits"
  /\ contract' = [c EXCEPT !.intent = sched_intent_sanitize(@),
                           !.window_ticks = IF @ = 0 THEN 100 ELSE @]
  /\ pc' = "reset"
  /\ UNCHANGED <<s_sched_ticks, window, mem_bytes_current, sched_intent,
                 now, start, reqVars, base, live>>

StoreWindow ==
  /\ pc = "reset"
  /\ window_start_tick' = now /\ cpu_ticks_window' = 0 /\ io_bytes_window' = NoIo
  /\ pc' = "intent" /\ now' = 0
  /\ UNCHANGED <<s_sched_ticks, contract, mem_bytes_current, sched_intent,
                 start, reqVars, base, live>>

SetContractIntent ==
  /\ pc = "intent"
  /\ sched_intent' = contract.intent
  /\ base' = contract.intent
  /\ pc' = "idle"
  /\ UNCHANGED <<s_sched_ticks, contract, window, mem_bytes_current,
                 now, start, reqVars, live>>

cka_sched_set_current_thread_intent(raw) ==
  /\ pc = "idle"
  /\ sched_intent' = sched_intent_sanitize(raw)
  /\ base' = sched_intent_sanitize(raw)
  /\ UNCHANGED <<s_sched_ticks, contract, window, mem_bytes_current,
                 pc, now, start, reqVars, live>>

-----------------------------------------------------------------------------
(* cka_block_read_intent and cka_block_write_intent.                          *)
Move(from, to) == pc = from /\ pc' = to

(* The roll of the window by the thread, in two steps: load, then store.      *)
LoadStart(from, to) ==
  /\ Move(from, to)
  /\ start' = window_start_tick
  /\ UNCHANGED <<s_sched_ticks, contract, window, mem_bytes_current, sched_intent,
                 now, reqVars, base, live>>

StoreRoll(from, to) ==
  /\ Move(from, to)
  /\ task_roll_window(start, now, 0)
  /\ now' = 0 /\ start' = 0
  /\ UNCHANGED <<s_sched_ticks, contract, mem_bytes_current, sched_intent,
                 reqVars, base, live>>

cka_block_intent(d, n, i) ==
  /\ Move("idle", "allow")
  /\ io_bytes_window[d] + n <= MaxBytes
  /\ now' = s_sched_ticks
  /\ req' = [dir |-> d, count |-> n, intent |-> i, remaining |-> n]
  /\ UNCHANGED <<s_sched_ticks, contract, window, mem_bytes_current, sched_intent,
                 start, old_intent, bytes, tmp, base, live>>

(* Mutant: only what was used before the request is compared with the limit. *)
allow_io_before(d, n) == contract.io_bytes_limit[d] = 0 \/
                         io_bytes_window[d] <= contract.io_bytes_limit[d]

task_allow_io(d, n) == contract.io_bytes_limit[d] = 0 \/
                       io_bytes_window[d] + n <= contract.io_bytes_limit[d]

(* A request that is not allowed returns busy; else its intent is put on.     *)
EnterIo ==
  \/ /\ Move("check", "idle")
     /\ ~task_allow_io(req.dir, req.count)
     /\ req' = NoReq
     /\ UNCHANGED <<s_sched_ticks, contract, window, mem_bytes_current, sched_intent,
                    now, start, old_intent, bytes, tmp, base, live>>
  \/ /\ Move("check", "io")
     /\ task_allow_io(req.dir, req.count)
     /\ old_intent' = sched_intent
     /\ sched_intent' = req.intent
     /\ UNCHANGED <<s_sched_ticks, contract, window, mem_bytes_current,
                    now, start, req, bytes, tmp, base, live>>

Chunk == LET most == CASE req.intent = THROUGHPUT -> 8
                       [] req.intent = BACKGROUND -> 1
                       [] OTHER -> req.count
         IN  IF req.remaining > most THEN most ELSE req.remaining

(* kheap_alloc_pages for one chunk; without memory the request fails.         *)
AllocBounce ==
  /\ pc = "io" /\ req.remaining > 0
  /\ \/ tmp' = TRUE /\ pc' = "transfer"
     \/ tmp' = FALSE /\ pc' = "restore"
  /\ UNCHANGED <<s_sched_ticks, contract, window, mem_bytes_current, sched_intent,
                 now, start, req, old_intent, bytes, base, live>>

(* Mutant: a failed transfer returns at once, as an argument error does. *)
transfer_returns ==
  /\ pc = "transfer"
  /\ tmp' = FALSE
  /\ \/ pc' = "io" /\ req' = [req EXCEPT !.remaining = @ - Chunk]
     \/ pc' = "idle" /\ req' = NoReq
  /\ UNCHANGED <<s_sched_ticks, contract, window, mem_bytes_current, sched_intent,
                 now, start, old_intent, bytes, base, live>>

(* Mutant: a failed transfer keeps its buffer. *)
transfer_leaks ==
  /\ pc = "transfer"
  /\ \/ pc' = "io" /\ tmp' = FALSE /\ req' = [req EXCEPT !.remaining = @ - Chunk]
     \/ pc' = "restore" /\ UNCHANGED <<req, tmp>>
  /\ UNCHANGED <<s_sched_ticks, contract, window, mem_bytes_current, sched_intent,
                 now, start, old_intent, bytes, base, live>>

(* hal_block_read or hal_block_write of one chunk, which may fail.            *)
Transfer ==
  /\ pc = "transfer"
  /\ tmp' = FALSE
  /\ \/ pc' = "io" /\ req' = [req EXCEPT !.remaining = @ - Chunk]
     \/ pc' = "restore" /\ UNCHANGED req
  /\ UNCHANGED <<s_sched_ticks, contract, window, mem_bytes_current, sched_intent,
                 now, start, old_intent, bytes, base, live>>

(* Only a complete request is charged, at the tick it ends. *)
EndIo ==
  /\ Move("io", "account")
  /\ req.remaining = 0
  /\ now' = s_sched_ticks
  /\ UNCHANGED <<s_sched_ticks, contract, window, mem_bytes_current, sched_intent,
                 start, reqVars, base, live>>

(* io_*_bytes_window += bytes, which is a load and a store.                   *)
LoadBytes ==
  /\ Move("add", "sum")
  /\ bytes' = io_bytes_window[req.dir]
  /\ UNCHANGED <<s_sched_ticks, contract, window, mem_bytes_current, sched_intent,
                 now, start, req, old_intent, tmp, base, live>>

task_account_io ==
  /\ Move("sum", "restore")
  /\ io_bytes_window' = [io_bytes_window EXCEPT ![req.dir] = bytes + req.count]
  /\ bytes' = 0
  /\ UNCHANGED <<s_sched_ticks, contract, window_start_tick, cpu_ticks_window,
                 mem_bytes_current, sched_intent, now, start, req, old_intent, tmp, base, live>>

RestoreIntent ==
  /\ Move("restore", "idle")
  /\ sched_intent' = old_intent
  /\ old_intent' = INTERACTIVE /\ req' = NoReq
  /\ UNCHANGED <<s_sched_ticks, contract, window, mem_bytes_current,
                 now, start, bytes, tmp, base, live>>

-----------------------------------------------------------------------------
(* Memory; the tick reads and writes none of it.  kmalloc may fail.           *)
task_allow_mem_alloc(n) == contract.mem_bytes_limit = 0 \/
                           mem_bytes_current + n <= contract.mem_bytes_limit

cka_kmalloc(n) ==
  /\ pc = "idle"
  /\ task_allow_mem_alloc(n)
  /\ live[n] < MaxLive
  /\ mem_bytes_current' = mem_bytes_current + n
  /\ live' = [live EXCEPT ![n] = @ + 1]
  /\ UNCHANGED <<s_sched_ticks, contract, window, sched_intent, pc, now, start, reqVars, base>>

(* Mutant: a free is charged only while the task is over its limit. *)
free_over_limit(n) ==
  /\ pc = "idle"
  /\ live[n] > 0
  /\ mem_bytes_current' = IF mem_bytes_current > contract.mem_bytes_limit
                          THEN mem_bytes_current - n ELSE mem_bytes_current
  /\ live' = [live EXCEPT ![n] = @ - 1]
  /\ UNCHANGED <<s_sched_ticks, contract, window, sched_intent, pc, now, start, reqVars, base>>

cka_kfree(n) ==
  /\ pc = "idle"
  /\ live[n] > 0
  /\ mem_bytes_current' = IF mem_bytes_current > n THEN mem_bytes_current - n ELSE 0
  /\ live' = [live EXCEPT ![n] = @ - 1]
  /\ UNCHANGED <<s_sched_ticks, contract, window, sched_intent, pc, now, start, reqVars, base>>

-----------------------------------------------------------------------------
TaskNext ==
  \/ \E charged \in BOOLEAN : sched_on_timer_tick(charged)
  \/ cka_sched_set_contract
  \/ \E c \in Contracts : StoreLimits(c) \/ cka_sched_set_current_thread_intent(c.intent)
  \/ StoreWindow \/ SetContractIntent
  \/ \E d \in Dir, n \in Counts, i \in IoIntents : cka_block_intent(d, n, i)
  \/ LoadStart("allow", "roll") \/ StoreRoll("roll", "check") \/ EnterIo
  \/ AllocBounce \/ Transfer \/ EndIo
  \/ LoadStart("account", "reroll") \/ StoreRoll("reroll", "add")
  \/ LoadBytes \/ task_account_io \/ RestoreIntent
  \/ \E n \in Sizes : cka_kmalloc(n) \/ cka_kfree(n)

TaskSpec == TaskInit /\ [][TaskNext]_taskVars

-----------------------------------------------------------------------------
(* Every variable has the type task.h gives it. *)
TaskTypeOK ==
  /\ s_sched_ticks \in Nat /\ now \in Nat /\ start \in Nat
  /\ contract \in [intent : Intent, window_ticks : Nat \ {0}, cpu_ticks_limit : Nat,
                   io_bytes_limit : [Dir -> Nat], mem_bytes_limit : Nat]
  /\ window_start_tick \in Nat /\ cpu_ticks_window \in Nat
  /\ io_bytes_window \in [Dir -> Nat] /\ mem_bytes_current \in Nat
  /\ sched_intent \in Intent /\ old_intent \in Intent /\ base \in Intent
  /\ req \in [dir : Dir, count : Nat, intent : Intent, remaining : Nat]
  /\ bytes \in Nat /\ tmp \in BOOLEAN
  /\ live \in [Sizes -> Nat]
  /\ pc \in {"idle", "limits", "reset", "intent", "allow", "roll", "check", "io",
             "transfer", "account", "reroll", "add", "sum", "restore"}

(* The ceiling on I/O holds although it is checked before a request and       *)
(* charged after it, windows end in between, and the tick may clear the count *)
(* while the thread adds to it: no window is ever charged more than the limit *)
(* (while a contract is being stored its limits meet the old counts).         *)
IoWithinLimit ==
  pc # "reset" =>
    \A d \in Dir : contract.io_bytes_limit[d] # 0 =>
                     io_bytes_window[d] <= contract.io_bytes_limit[d]

(* A task is never held to have used more CPU than there was: the window      *)
(* starts no later than now, and its count is at most the ticks since then,   *)
(* whatever stale tick or start the thread rolls the window with.             *)
CpuWithinWindow ==
  /\ window_start_tick <= s_sched_ticks
  /\ cpu_ticks_window <= s_sched_ticks - window_start_tick + 1

(* A block request does not leave its own intent on the thread, on any of its *)
(* ways out: between calls the thread has the intent it was last given, or    *)
(* background, to which the CPU ceiling demotes it.                           *)
IntentNotLeaked == pc = "idle" => sched_intent \in {base, BACKGROUND}

(* The pages of the bounce buffer are given back on every way out. *)
BounceReturned == pc = "idle" => ~tmp

(* The memory charged to the task is the sum of its live allocations, across  *)
(* contracts that move the limit, and the saturation of task_account_mem_free *)
(* never hides a difference.                                                  *)
MemExact == mem_bytes_current = SumOver([n \in Sizes |-> n * live[n]], Sizes)
=============================================================================
