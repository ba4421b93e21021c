---------------------------- MODULE CoreLoopProofs ----------------------------
(******************************************************************************)
(* What holds of the core loop for every disk, operation, message and bound:  *)
(* a block call that returns true is done (BlockCallsAreDone), a metadata     *)
(* sector is torn only between the two log writes (SectorsAreWhole), and the  *)
(* console handles and echoes what is typed in order (ConsoleStaysInOrder).   *)
(* The invariant has four parts, each inductive given the ones before it: the *)
(* types, the requests under way between driver and device, what the disk and *)
(* the file system's buffers hold at each step of an operation, and the order *)
(* of characters over the queues of the console.                              *)
(******************************************************************************)
EXTENDS CoreLoop, TLAPS

(* ---------------------------------- types --------------------------------- *)

(* What a sector holds: a version of a sector's content, a record of the log, *)
(* no record, or what the driver's buffer holds before its first use.         *)
Val == [w : {"sector"}, of : Sectors, v : Nat] \cup [w : {"WAL1"}, target : Meta]
         \cup {Clear, [w |-> "junk"]}

Request == {NoRequest} \cup [type : {"in", "out"}, sector : Sectors]
Index == 0..(IDX - 1)

BlkType ==
  [ready : BOOLEAN, avail : Index, used : Index, last_used : Index, req : Request,
   status : {"ff", "ok", "err"}, buf : Val, want : Val, busy : BOOLEAN, late : BOOLEAN]

Replaying == {"replay_h", "replay_d", "replay_t", "replay_c"}
Writing == {"log_h", "log_d", "target", "log_c"}
Steps == {"idle", "boot"} \cup Replaying \cup {"read_fat", "data", "read_dir"} \cup Writing
Kinds == {"none", "reread", "reread2"} \cup UNION {m.kinds : m \in Machines}

FsType ==
  [step : Steps, kind : Kinds, i : 1..Dir, v : Nat, sec : [1..Dir -> Val],
   target : Meta \cup {"none"}, log : Val, begun : [Meta -> Nat], acked : [Meta -> Nat],
   logged : BOOLEAN, window : BOOLEAN]

FsOK(f) ==
  /\ f \in FsType
  /\ f.step \in {"replay_d", "replay_t"} => f.target \in Meta
  /\ f.step \in {"idle", "boot"} \cup Replaying => f.i = 1
  /\ f.step = "read_fat" => f.i <= sectorsPerFAT

TypeInv ==
  /\ disk \in [Sectors -> Val]
  /\ blk \in BlkType
  /\ dev \in [seen : Index, cur : {<<>>} \cup {<<r>> : r \in Request}]
  /\ FsOK(fs)
  /\ faults \in [may : {env.may}, left : Nat, late : BOOLEAN]
  /\ env \in Machines

(* ------------------------------- the driver ------------------------------- *)

(* The index k places after x. *)
Ahead(x, k) == IF x + k < IDX THEN x + k ELSE x + k - IDX

(* k requests wait for the device, c answers for the driver, and n calls were *)
(* given up since the reset: whatever is under way was either given up or is  *)
(* the present call.  Crashes and errors take from the same bound on faults.  *)
Counted(b, d, e, fl, k, c, n) ==
  /\ b.avail = Ahead(d.seen, k) /\ b.used = Ahead(b.last_used, c)
  /\ k + c + (IF d.cur = <<>> THEN 0 ELSE 1) <= n + (IF b.busy THEN 1 ELSE 0)
  /\ n + fl.left <= e.faults
  /\ n > 0 => "timeout" \in e.may /\ b.late

(* When no request waits, what the device works on is the present one, and a  *)
(* read it completed is in the buffer.  A write is only certain while no call *)
(* was given up: its data is in the buffer, then on the disk.                 *)
Carried(b, d, dk, k, c, n) ==
  /\ b.busy => b.req.type \in {"in", "out"}
  /\ k = 0 /\ d.cur # <<>> => d.cur = <<b.req>>
  /\ k = 0 /\ d.cur = <<>> /\ b.status = "ok" /\ b.req.type = "in" => b.buf = dk[b.req.sector]
  /\ n = 0 /\ b.busy /\ b.req.type = "out" =>
       /\ c = 0 => b.buf = b.want
       /\ c > 0 /\ b.status = "ok" => dk[b.req.sector] = b.want

Underway(b, d, dk, e, fl, k, c, n) == Counted(b, d, e, fl, k, c, n) /\ Carried(b, d, dk, k, c, n)

BlkInv == \E k, c, n \in Nat : Underway(blk, dev, disk, env, faults, k, c, n)

(* ----------------------------- the file system ---------------------------- *)

(* The request that is not finished is the one the core thread waits for. *)
Calling ==
  blk.busy =>
    /\ blk.ready
    /\ \/ pc = "sanity" /\ blk.req = [type |-> "in", sector |-> "boot"]
       \/ /\ pc = "poll" /\ fs.step # "idle"
          /\ blk.req = [type |-> Call[1], sector |-> Call[2]] /\ blk.want = Call[3]

(* x is a version of sector t; it is good for t if it is no older than the    *)
(* last acknowledged and no newer than the last begun.                        *)
Made(t, x) == x.w = "sector" /\ x.of = t
Good(f, t, x) == Made(Origin(t), x) /\ f.acked[t] <= x.v /\ x.v <= f.begun[t]
TargetOf(f) == MetaSectors[f.i]
ChangedOf(f) == [f.sec[Source(f.i)] EXCEPT !.v = f.v]

Versions(f, d) ==
  \A t \in Meta : Good(f, t, d[t]) /\ f.acked[t] <= f.begun[t] /\ f.begun[t] <= f.v

(* The log is empty, or holds a record of a metadata sector; between the two  *)
(* log writes it is not what replay may use.                                  *)
Log(f, d) ==
  /\ d[WALH] = Clear \/ \E t \in Meta : d[WALH] = LogHeader(t)
  /\ ~f.logged => d[WALH] = Clear
  /\ f.step \notin {"log_h", "log_d"} =>
       \A t \in Meta : d[WALH] = LogHeader(t) => Good(f, t, d[WALD])

(* walReplayIfNeeded copies the record the log holds. *)
Replay(f, d) ==
  /\ f.step \in {"replay_d", "replay_t"} => d[WALH] = LogHeader(f.target)
  /\ f.step = "replay_t" => f.log = d[WALD]

(* What was read so far are versions of the sectors it was read from. *)
SectorsRead(f) ==
  /\ f.step = "read_fat" => \A k \in 1..(f.i - 1) : Made(MetaSectors[k], f.sec[k])
  /\ f.step \in {"data", "read_dir"} \cup Writing =>
       \A k \in 1..sectorsPerFAT : Made(MetaSectors[k], f.sec[k])
  /\ f.step \in Writing /\ f.i = Dir => Made(MetaSectors[Dir], f.sec[Dir])

(* walWriteSector: header and data are in the log before the sector changes. *)
WriteSteps(f, d) ==
  /\ f.step \in Writing => f.begun[TargetOf(f)] = f.v
  /\ f.step \in Writing \ {"target"} => f.kind # "fast"
  /\ f.step \in Writing => (f.logged <=> f.kind # "fast")
  /\ f.step = "log_d" => d[WALH] = LogHeader(TargetOf(f))
  /\ f.step = "target" /\ f.kind # "fast" => d[WALH] = LogHeader(TargetOf(f)) /\ d[WALD] = ChangedOf(f)

FsSafe(f, d) == Versions(f, d) /\ Log(f, d) /\ Replay(f, d) /\ SectorsRead(f) /\ WriteSteps(f, d)

(* The disk is safe, but for the two exceptions the property names. *)
FsInv == fs.window \/ faults.late \/ FsSafe(fs, disk)

(* ------------------------------- the sectors ------------------------------ *)

(* The copies of the FAT and the directory are sectors of their own, and each *)
(* is changed from a sector that was read.                                    *)
LEMMA SectorFacts ==
  /\ Dir \in Nat /\ Dir > 1 /\ sectorsPerFAT \in 1..(Dir - 1)
  /\ Meta \subseteq Sectors /\ {"boot", "data", WALH, WALD} \subseteq Sectors
  /\ Meta \cap {"boot", "data", WALH, WALD} = {} /\ WALH # WALD
  /\ \A k \in 1..Dir : MetaSectors[k] \in Meta
<1>1. Dir \in Nat /\ DOMAIN MetaSectors = 1..Dir /\ sectorsPerFAT \in 1..(Dir - 1)
  BY SectorsAssumption DEF Dir
<1>2. \A k \in 1..Dir : MetaSectors[k] \in Meta
  BY <1>1, Zenon DEF Meta
<1> QED
  BY <1>1, <1>2, SectorsAssumption DEF Sectors, WALH, WALD

(* Fat16.swift: every copy of the FAT is written from what was read of the    *)
(* first, the directory from what was read of it.                             *)
LEMMA SourceFacts ==
  /\ \A k \in 1..Dir : Source(k) \in 1..Dir /\ (k # Dir => Source(k) \in 1..sectorsPerFAT)
  /\ \A k \in 1..sectorsPerFAT : Source(k) = k
  /\ Source(Dir) = Dir
<1>1. Dir \in Nat /\ Dir > 1 /\ sectorsPerFAT \in 1..(Dir - 1)
  BY SectorFacts, Zenon
<1>2. ASSUME NEW k \in 1..Dir, k # Dir PROVE Source(k) \in 1..sectorsPerFAT
  <2>1. (k - 1) % sectorsPerFAT \in 0..(sectorsPerFAT - 1)
    BY <1>1
  <2> QED
    BY <1>1, <1>2, <2>1 DEF Source
<1>3. ASSUME NEW k \in 1..sectorsPerFAT PROVE Source(k) = k
  <2>1. (k - 1) % sectorsPerFAT = k - 1
    BY <1>1
  <2> QED
    BY <1>1, <2>1 DEF Source
<1> QED
  BY <1>1, <1>2, <1>3 DEF Source

(* The k-th metadata sector holds a version of the sector it is written from. *)
LEMMA OriginIs ==
  /\ \A k \in 1..Dir : Origin(MetaSectors[k]) = MetaSectors[Source(k)]
  /\ \A t \in Meta : Origin(t) \in Meta
<1>1. DOMAIN MetaSectors = 1..Dir
  BY SectorsAssumption DEF Dir
<1>2. ASSUME NEW k \in 1..Dir PROVE Origin(MetaSectors[k]) = MetaSectors[Source(k)]
  <2>1. (CHOOSE j \in 1..Dir : MetaSectors[j] = MetaSectors[k]) = k
    BY SectorsAssumption, Zenon
  <2> QED
    BY <2>1, Zenon DEF Origin
<1>3. ASSUME NEW t \in Meta PROVE Origin(t) \in Meta
  <2>1. PICK k \in 1..Dir : t = MetaSectors[k]
    BY <1>1, Zenon DEF Meta
  <2> QED
    BY <1>2, <2>1, SectorFacts, SourceFacts, Zenon
<1> QED
  BY <1>2, <1>3, Zenon

(* ------------------------------ kinds of steps ---------------------------- *)

(* A step that has nothing to do with the disk.  It does not move the core    *)
(* thread away from a call that is not finished.                              *)
Aside ==
  /\ UNCHANGED <<blk, dev, disk, faults, fs, env>>
  /\ pc' = pc \/ (pc # "sanity" /\ ~(pc = "poll" /\ fs.step # "idle"))

(* Only nine actions touch the disk, its driver or the file system. *)
LEMMA StepKinds ==
  ASSUME Next
  PROVE  Aside \/ hal_block_init \/ block_sanity_test \/ SanityReturns \/ StartFile
           \/ BlockCall \/ BlockReturns \/ Disk \/ Crash
<1>1. CASE hal_irq_init
  BY <1>1, Zenon DEF hal_irq_init, Aside, blkVars
<1>2. CASE irq_global_enable
  BY <1>2, Zenon DEF irq_global_enable, Aside, blkVars
<1>3. CASE Pump
  BY <1>3, Zenon DEF Pump, Goto, Aside, blkVars
<1>4. CASE core_poll
  BY <1>4, Zenon DEF core_poll, Goto, Aside, blkVars
<1>5. CASE Drain
  BY <1>5, Zenon DEF Drain, Aside, blkVars
<1>6. CASE RunItem
  BY <1>6, Zenon DEF RunItem, Aside, blkVars
<1>7. CASE Wfi
  BY <1>7, Zenon DEF Wfi, Goto, Aside, blkVars
<1>8. ASSUME NEW id \in {TIMER_PPI_IRQ, DEV_IRQ, SPURIOUS}, irq_dispatch(id) PROVE Aside
  BY <1>8, Zenon DEF irq_dispatch, Aside, blkVars
<1>9. CASE Elapses
  BY <1>9, Zenon DEF Elapses, Aside, blkVars, threadVars
<1>10. ASSUME NEW i \in Items, work_item_alloc(i) PROVE Aside
  BY <1>10, Zenon DEF work_item_alloc, Aside, blkVars, threadVars
<1>11. CASE DeviceRaises
  BY <1>11, Zenon DEF DeviceRaises, Aside, blkVars, threadVars
<1>12. CASE User
  BY <1>12, Zenon DEF User, Aside, blkVars, threadVars
<1> QED
  BY <1>1, <1>2, <1>3, <1>4, <1>5, <1>6, <1>7, <1>8, <1>9, <1>10, <1>11, <1>12, Zenon
  DEF Next, core_thread_entry

(* ----------------------------- values and types --------------------------- *)

(* Every content the file system writes, and the empty record, is a value a   *)
(* sector can hold.                                                           *)
LEMMA ValFacts ==
  /\ Clear \in Val /\ [w |-> "junk"] \in Val
  /\ \A t \in Sectors, v \in Nat : Content(t, v) \in Val
  /\ \A t \in Meta : LogHeader(t) \in Val
  /\ \A x \in Val : x.w = "WAL1" => x.target \in Meta
  /\ \A x \in Val : x.w = "sector" => \A v \in Nat : [x EXCEPT !.v = v] \in Val
<1>1. \A x \in Val : x.w = "sector" => x \in [w : {"sector"}, of : Sectors, v : Nat]
  BY DEF Val, Clear
<1>2. \A x \in Val : x.w = "WAL1" => x \in [w : {"WAL1"}, target : Meta]
  BY DEF Val, Clear
<1>3. ASSUME NEW x \in [w : {"sector"}, of : Sectors, v : Nat], NEW v \in Nat
      PROVE  [x EXCEPT !.v = v] \in [w : {"sector"}, of : Sectors, v : Nat]
  BY Zenon
<1>4. [w : {"sector"}, of : Sectors, v : Nat] \subseteq Val
  BY Zenon DEF Val
<1>5. \A x \in Val : x.w = "sector" => \A v \in Nat : [x EXCEPT !.v = v] \in Val
  BY <1>1, <1>3, <1>4, Zenon
<1>6. \A x \in Val : x.w = "WAL1" => x.target \in Meta
  BY <1>2, Zenon
<1> QED
  BY <1>5, <1>6, Zenon DEF Val, Clear, Content, LogHeader

(* Before any read, the sector buffers hold values too. *)
LEMMA UnreadType == Unread \in [1..Dir -> Val]
  BY ValFacts, Zenon DEF Unread

(* Ending an operation leaves the file system idle and well-formed. *)
LEMMA OverType ==
  ASSUME FsOK(fs)
  PROVE  FsOK(Over) /\ FsOK(Stopped) /\ Over.step = "idle" /\ Stopped.step = "idle"
<1>1. fs \in FsType
  BY Zenon DEF FsOK
<1>2. 1 \in 1..Dir /\ "none" \in Kinds
  BY SectorFacts DEF Kinds
<1>3. Over \in FsType /\ Over.step = "idle" /\ Over.i = 1
  BY <1>1, <1>2, UnreadType, ValFacts, Zenon DEF Over, FsType, Steps
<1>4. Stopped \in FsType /\ Stopped.step = "idle" /\ Stopped.i = 1
  BY <1>1, <1>3, Zenon DEF Stopped, FsType
<1> QED
  BY <1>3, <1>4, Zenon DEF FsOK

(* So does beginning the next operation. *)
LEMMA BeginType ==
  ASSUME FsOK(fs), NEW k \in 1..Dir, NEW sec \in [1..Dir -> Val]
  PROVE  FsOK(Begin(k, sec)) /\ Begin(k, sec).step \in {"log_h", "target"}
<1>1. fs \in FsType
  BY Zenon DEF FsOK
<1>2. MetaSectors[k] \in Meta
  BY SectorFacts, Zenon
<1>3. Begin(k, sec) \in FsType
  BY <1>1, <1>2, Zenon DEF Begin, FsType, Steps, Writing
<1>4. Begin(k, sec).step \in {"log_h", "target"}
  BY <1>1, Zenon DEF Begin, FsType
<1> QED
  BY <1>3, <1>4, Zenon DEF FsOK, Replaying

(* Moving on to the next metadata sector stays within their number. *)
LEMMA NextSectorType ==
  ASSUME FsOK(fs)
  PROVE  FsOK(NextSector)
<1>1. fs \in FsType /\ fs.i \in 1..Dir /\ fs.sec \in [1..Dir -> Val]
  BY Zenon DEF FsOK, FsType
<1>2. CASE fs.i + 1 < Dir
  <2>1. fs.i + 1 \in 1..Dir
    BY <1>1, <1>2, SectorFacts
  <2> QED
    BY <1>1, <1>2, <2>1, BeginType, Zenon DEF NextSector
<1>3. CASE ~(fs.i + 1 < Dir) /\ fs.i < Dir
  <2>1. Go("read_dir") \in FsType /\ Go("read_dir").step = "read_dir"
    BY <1>1, Zenon DEF Go, FsType, Steps
  <2> QED
    BY <1>3, <2>1, Zenon DEF NextSector, FsOK, Replaying
<1>4. CASE ~(fs.i + 1 < Dir) /\ ~(fs.i < Dir)
  BY <1>4, OverType, Zenon DEF NextSector
<1> QED
  BY <1>2, <1>3, <1>4, Zenon

(* mountFat16 ends, well or badly, in a well-formed file system. *)
LEMMA MountedType ==
  ASSUME NEW f \in FsType, f.i = 1
  PROVE  FsOK(Mounted(f)) /\ Mounted(f).step \in {"replay_h", "idle", "read_fat"}
<1>1. 1 \in 1..Dir /\ 1 <= sectorsPerFAT /\ {"none", "reread2"} \subseteq Kinds
  BY SectorFacts DEF Kinds
<1>2. CASE f.kind = "reread"
  <2>1. Mounted(f) = [f EXCEPT !.step = "replay_h", !.kind = "reread2"]
    BY <1>2, Zenon DEF Mounted
  <2>2. /\ Mounted(f) \in FsType /\ Mounted(f).step = "replay_h" /\ Mounted(f).i = 1
    BY <1>1, <2>1, Zenon DEF FsType, Steps, Replaying
  <2> QED
    BY <2>2, Zenon DEF FsOK
<1>3. CASE f.kind = "reread2"
  <2>1. Mounted(f) = [f EXCEPT !.step = "idle", !.kind = "none", !.i = 1]
    BY <1>3, Zenon DEF Mounted
  <2>2. Mounted(f) \in FsType /\ Mounted(f).step = "idle" /\ Mounted(f).i = 1
    BY <1>1, <2>1, Zenon DEF FsType, Steps
  <2> QED
    BY <2>2, Zenon DEF FsOK
<1>4. CASE f.kind \notin {"reread", "reread2"}
  <2>1. Mounted(f) = [f EXCEPT !.step = "read_fat"]
    BY <1>4, Zenon DEF Mounted
  <2>2. Mounted(f) \in FsType /\ Mounted(f).step = "read_fat" /\ Mounted(f).i = 1
    BY <2>1, Zenon DEF FsType, Steps
  <2> QED
    BY <1>1, <2>2, Zenon DEF FsOK, Replaying
<1> QED
  BY <1>2, <1>3, <1>4, Zenon

(* Every return of a block call within mountFat16 or walReplayIfNeeded keeps  *)
(* the file system well-formed.                                               *)
LEMMA AfterMountType ==
  ASSUME FsOK(fs), fs.step \in {"boot"} \cup Replaying, NEW ok \in BOOLEAN, NEW val \in Val
  PROVE  FsOK(AfterMount(ok, val))
<1>1. fs \in FsType /\ fs.i = 1
  BY Zenon DEF FsOK
<1>2. CASE fs.step = "boot"
  <2>1. Go("replay_h") \in FsType /\ Go("replay_h").step = "replay_h" /\ Go("replay_h").i = 1
    BY <1>1, Zenon DEF Go, FsType, Steps, Replaying
  <2>2. FsOK(Go("replay_h"))
    BY <2>1, Zenon DEF FsOK
  <2> QED
    BY <1>2, <2>2, OverType, Zenon DEF AfterMount
<1>3. CASE fs.step = "replay_h"
  <2>1. CASE ok /\ val.w = "WAL1"
    <3> DEFINE g == [fs EXCEPT !.step = "replay_d", !.target = val.target]
    <3>1. val.target \in Meta
      BY <2>1, ValFacts, Zenon
    <3>2. g \in FsType /\ g.step = "replay_d" /\ g.i = 1 /\ g.target \in Meta
      BY <1>1, <3>1, Zenon DEF FsType, Steps, Replaying
    <3>3. AfterMount(ok, val) = g
      BY <1>3, <2>1, Zenon DEF AfterMount
    <3> HIDE DEF g
    <3> QED
      BY <3>2, <3>3, Zenon DEF FsOK
  <2>2. CASE ~(ok /\ val.w = "WAL1")
    <3> DEFINE g == [fs EXCEPT !.logged = @ /\ ~ok]
    <3>1. g \in FsType /\ g.i = 1
      BY <1>1, Zenon DEF FsType
    <3>2. AfterMount(ok, val) = Mounted(g)
      BY <1>3, <2>2, Zenon DEF AfterMount
    <3> HIDE DEF g
    <3> QED
      BY <3>1, <3>2, MountedType, Zenon
  <2> QED
    BY <2>1, <2>2, Zenon
<1>4. CASE fs.step = "replay_d"
  <2>1. CASE ok
    <3> DEFINE g == [fs EXCEPT !.step = "replay_t", !.log = val]
    <3>1. g \in FsType /\ g.step = "replay_t" /\ g.i = 1 /\ g.target \in Meta
      BY <1>1, <1>4, Zenon DEF FsOK, FsType, Steps, Replaying
    <3>2. AfterMount(ok, val) = g
      BY <1>4, <2>1, Zenon DEF AfterMount
    <3> HIDE DEF g
    <3> QED
      BY <3>1, <3>2, Zenon DEF FsOK
  <2>2. CASE ~ok
    <3> DEFINE g == [fs EXCEPT !.target = "none"]
    <3>1. g \in FsType /\ g.i = 1
      BY <1>1, Zenon DEF FsType
    <3>2. AfterMount(ok, val) = Mounted(g)
      BY <1>4, <2>2, Zenon DEF AfterMount
    <3> HIDE DEF g
    <3> QED
      BY <3>1, <3>2, MountedType, Zenon
  <2> QED
    BY <2>1, <2>2, Zenon
<1>5. CASE fs.step = "replay_t"
  <2>1. Replayed \in FsType /\ Replayed.step = "replay_c" /\ Replayed.i = 1
    <3> DEFINE a == [t \in Meta |-> IF t = fs.target /\ fs.log.w = "sector" /\ fs.log.v > fs.acked[t]
                                      THEN fs.log.v ELSE fs.acked[t]]
    <3>1. fs.log.w = "sector" => fs.log.v \in Nat
      BY <1>1 DEF FsType, Val, Clear
    <3>2. a \in [Meta -> Nat]
      BY <1>1, <3>1, Zenon DEF FsType
    <3>3. Replayed = [fs EXCEPT !.step = "replay_c", !.acked = a]
      BY <1>1, Zenon DEF Replayed, FsType
    <3> HIDE DEF a
    <3> QED
      BY <1>1, <3>2, <3>3, Zenon DEF FsType, Steps, Replaying
  <2>2. Go("replay_c") \in FsType /\ Go("replay_c").step = "replay_c" /\ Go("replay_c").i = 1
    BY <1>1, Zenon DEF Go, FsType, Steps, Replaying
  <2>3. AfterMount(ok, val) = IF ok THEN Replayed ELSE Go("replay_c")
    BY <1>5, Zenon DEF AfterMount
  <2> QED
    BY <2>1, <2>2, <2>3, Zenon DEF FsOK
<1>6. CASE fs.step = "replay_c"
  <2> DEFINE g == [fs EXCEPT !.target = "none", !.log = Clear, !.logged = @ /\ ~ok]
  <2>1. g \in FsType /\ g.i = 1
    BY <1>1, ValFacts, Zenon DEF FsType
  <2>2. AfterMount(ok, val) = Mounted(g)
    BY <1>6, Zenon DEF AfterMount
  <2> HIDE DEF g
  <2> QED
    BY <2>1, <2>2, MountedType, Zenon
<1> QED
  BY <1>2, <1>3, <1>4, <1>5, <1>6, Zenon DEF Replaying

(* Every return of a block call within walWriteSector does, too. *)
LEMMA AfterWriteType ==
  ASSUME FsOK(fs), fs.step \in Writing, NEW ok \in BOOLEAN, NEW val \in Val
  PROVE  FsOK(AfterWrite(ok, val))
<1>1. fs \in FsType /\ fs.v \in Nat /\ Target \in Meta
  BY SectorFacts, Zenon DEF FsOK, FsType, Target
<1>2. FsOK(Over) /\ FsOK(Stopped) /\ FsOK(NextSector)
  BY OverType, NextSectorType, Zenon
<1>3. ASSUME NEW s \in {"log_d", "target"} PROVE FsOK(Go(s))
  <2>1. Go(s) \in FsType /\ Go(s).step = s
    BY <1>1, Zenon DEF Go, FsType, Steps, Writing
  <2> QED
    BY <2>1, Zenon DEF FsOK, Replaying
<1>4. CASE fs.step = "log_h"
  BY <1>2, <1>3, <1>4, Zenon DEF AfterWrite
<1>5. CASE fs.step = "log_d"
  <2> DEFINE g == [Over EXCEPT !.step = "boot", !.kind = "reread"]
  <2>1. Over \in FsType /\ Over.i = 1
    BY <1>2, OverType, Zenon DEF FsOK
  <2>2. g \in FsType /\ g.step = "boot" /\ g.i = 1
    BY <2>1, Zenon DEF FsType, Steps, Kinds
  <2>3. FsOK(g)
    <3> HIDE DEF g
    <3> QED
      BY <2>2, Zenon DEF FsOK
  <2> QED
    BY <1>2, <1>3, <1>5, <2>3, Zenon DEF AfterWrite
<1>6. CASE fs.step = "target"
  <2> DEFINE g == [fs EXCEPT !.step = "log_c", !.acked[Target] = fs.v]
             h == [NextSector EXCEPT !.acked[Target] = fs.v]
  <2>1. g \in FsType /\ g.step = "log_c"
    BY <1>1, Zenon DEF FsType, Steps, Writing
  <2>2. FsOK(g)
    <3> HIDE DEF g
    <3> QED
      BY <2>1, Zenon DEF FsOK, Replaying
  <2>3. FsOK(h)
    <3>1. NextSector \in FsType
      BY <1>2, Zenon DEF FsOK
    <3>2. h \in FsType /\ h.step = NextSector.step /\ h.i = NextSector.i /\ h.target = NextSector.target
      BY <1>1, <3>1, Zenon DEF FsType
    <3> HIDE DEF h
    <3> QED
      BY <1>2, <3>2, Zenon DEF FsOK
  <2> HIDE DEF g, h
  <2>4. AfterWrite(ok, val) = IF ~ok THEN Stopped ELSE IF Safe THEN g ELSE h
    BY <1>6, Zenon DEF AfterWrite, g, h
  <2> QED
    BY <1>2, <2>2, <2>3, <2>4, Zenon
<1>7. CASE fs.step = "log_c"
  <2> DEFINE h == [NextSector EXCEPT !.logged = @ /\ (~ok \/ fs.i + 1 < Dir)]
  <2>1. NextSector \in FsType
    BY <1>2, Zenon DEF FsOK
  <2>2. h \in FsType /\ h.step = NextSector.step /\ h.i = NextSector.i /\ h.target = NextSector.target
    BY <2>1, Zenon DEF FsType
  <2>3. AfterWrite(ok, val) = h
    BY <1>7, Zenon DEF AfterWrite
  <2> HIDE DEF h
  <2> QED
    BY <1>2, <2>2, <2>3, Zenon DEF FsOK
<1> QED
  BY <1>4, <1>5, <1>6, <1>7, Zenon DEF Writing

(* Whatever a block call returns, the file system stays well-formed. *)
LEMMA AfterType ==
  ASSUME FsOK(fs), fs.step # "idle", NEW ok \in BOOLEAN, NEW val \in Val
  PROVE  FsOK(After(ok, val))
<1>1. /\ fs \in FsType /\ fs.step \in Steps /\ fs.i \in 1..Dir /\ fs.sec \in [1..Dir -> Val]
      /\ Dir \in 1..Dir /\ 1 \in 1..Dir /\ sectorsPerFAT \in 1..(Dir - 1) /\ Dir \in Nat
  BY SectorFacts DEF FsOK, FsType
<1>2. FsOK(Over)
  BY OverType, Zenon
<1>3. CASE fs.step \in {"boot"} \cup Replaying
  BY <1>3, AfterMountType, Zenon DEF After, Replaying
<1>4. CASE fs.step \in Writing
  BY <1>4, AfterWriteType, Zenon DEF After, Writing
<1>5. CASE fs.step = "read_fat"
  <2> DEFINE g == [fs EXCEPT !.i = @ + 1, !.sec = Read(val)]
             h == [fs EXCEPT !.step = "data", !.i = 1, !.sec = Read(val)]
  <2>1. Read(val) \in [1..Dir -> Val]
    BY <1>1, Zenon DEF Read
  <2>2. FsOK(Begin(1, Read(val)))
    BY <1>1, <2>1, BeginType, Zenon
  <2>3. ASSUME fs.i < sectorsPerFAT PROVE FsOK(g)
    <3>1. fs.i + 1 \in 1..Dir /\ fs.i + 1 <= sectorsPerFAT
      BY <1>1, <2>3
    <3>2. g \in FsType /\ g.step = "read_fat" /\ g.i = fs.i + 1
      BY <1>1, <1>5, <2>1, <3>1, Zenon DEF FsType
    <3> HIDE DEF g
    <3> QED
      BY <3>1, <3>2, Zenon DEF FsOK, Replaying
  <2>4. h \in FsType /\ h.step = "data"
    BY <1>1, <2>1, Zenon DEF FsType, Steps
  <2> HIDE DEF g, h
  <2>5. FsOK(h)
    BY <2>4, Zenon DEF FsOK, Replaying
  <2>6. After(ok, val) = IF ~ok THEN Over ELSE IF fs.i < sectorsPerFAT THEN g
                         ELSE IF fs.kind = "delete" THEN Begin(1, Read(val)) ELSE h
    BY <1>5, Zenon DEF After, g, h
  <2> QED
    BY <1>2, <2>2, <2>3, <2>5, <2>6, Zenon
<1>6. CASE fs.step = "data"
  <2>1. FsOK(Begin(1, fs.sec))
    BY <1>1, BeginType, Zenon
  <2> QED
    BY <1>2, <1>6, <2>1, Zenon DEF After
<1>7. CASE fs.step = "read_dir"
  <2>1. [fs.sec EXCEPT ![Dir] = val] \in [1..Dir -> Val]
    BY <1>1, Zenon
  <2>2. FsOK(Begin(Dir, [fs.sec EXCEPT ![Dir] = val]))
    BY <1>1, <2>1, BeginType, Zenon
  <2> QED
    BY <1>2, <1>7, <2>2, Zenon DEF After
<1> QED
  BY <1>1, <1>3, <1>4, <1>5, <1>6, <1>7, Zenon DEF Steps

(* A block call names a sector of the disk and, if it writes, a value. *)
LEMMA CallType ==
  ASSUME FsOK(fs), fs.step # "idle"
  PROVE  Call[1] \in {"in", "out"} /\ Call[2] \in Sectors /\ Call[3] \in Val
<1>1. /\ fs \in FsType /\ fs.step \in Steps /\ fs.i \in 1..Dir /\ fs.v \in Nat /\ fs.log \in Val
      /\ fs.sec \in [1..Dir -> Val]
  BY Zenon DEF FsOK, FsType
<1>2. Target \in Meta /\ Meta \subseteq Sectors /\ {"boot", "data", WALH, WALD} \subseteq Sectors
  BY <1>1, SectorFacts, Zenon DEF Target
<1>3. Changed \in Val
  <2>1. fs.sec[Source(fs.i)] \in Val
    BY <1>1, SourceFacts, Zenon
  <2> QED
    BY <1>1, <2>1, ValFacts, Zenon DEF Changed
<1>4. fs.step = "replay_t" => fs.target \in Sectors
  BY <1>2, Zenon DEF FsOK
<1>5. Clear \in Val /\ LogHeader(Target) \in Val /\ Content("data", fs.v) \in Val
  BY <1>1, <1>2, ValFacts, Zenon
<1>6. MetaSectors[fs.i] \in Sectors /\ MetaSectors[Dir] \in Sectors
  BY <1>1, <1>2, SectorFacts
<1> QED
  BY <1>1, <1>2, <1>3, <1>4, <1>5, <1>6, Zenon DEF Call, Steps, Replaying, Writing

(* What is left of the faults stays a number, and their kinds are those of    *)
(* the machine.                                                               *)
LEMMA FaultType ==
  ASSUME TypeInv, NEW kind, Fault(kind)
  PROVE  /\ faults' \in [may : {env.may}, left : Nat, late : BOOLEAN]
         /\ faults'.left = faults.left - 1 /\ faults'.late = (faults.late \/ kind = "timeout")
         /\ kind \in env.may
<1>1. faults \in [may : {env.may}, left : Nat, late : BOOLEAN] /\ faults.left > 0
  BY Zenon DEF TypeInv, Fault
<1> DEFINE l == faults.late \/ kind = "timeout"
<1>2. l \in BOOLEAN
  BY Zenon
<1>3. faults' = [faults EXCEPT !.left = faults.left - 1, !.late = l]
  BY Zenon DEF Fault
<1> DEFINE n == faults.left - 1
<1>4. n \in Nat
  BY <1>1
<1>5. faults' = [faults EXCEPT !.left = n, !.late = l]
  BY <1>3, Zenon
<1> HIDE DEF l, n
<1>6. /\ faults' \in [may : {env.may}, left : Nat, late : BOOLEAN]
      /\ faults'.left = n /\ faults'.late = l
  BY <1>1, <1>2, <1>4, <1>5, Zenon
<1>7. /\ faults' \in [may : {env.may}, left : Nat, late : BOOLEAN]
      /\ faults'.left = faults.left - 1 /\ faults'.late = l
  BY <1>6, Zenon DEF n
<1>8. kind \in env.may
  BY <1>1, Zenon DEF Fault
<1> QED
  BY <1>7, <1>8, Zenon DEF l

(* The machine starts within its types. *)
LEMMA TypeInit == Init => TypeInv
<1> SUFFICES ASSUME Init PROVE TypeInv
  BY Zenon
<1>1. /\ env \in Machines /\ blk = BlkOff /\ dev = Idle /\ disk = FreshDisk
      /\ faults = [may |-> env.may, left |-> env.faults, late |-> FALSE]
  BY Zenon DEF Init
<1>2. 0 \in Index
  BY IdxAssumption DEF Index
<1>3. disk \in [Sectors -> Val]
  <2>1. ASSUME NEW s \in Sectors
        PROVE  (IF s \in {WALH, WALD} THEN Clear ELSE
                  Content(IF s \in Meta THEN Origin(s) ELSE s, 0)) \in Val
    BY ValFacts, OriginIs, SectorFacts, Zenon
  <2> QED
    BY <1>1, <2>1, Zenon DEF FreshDisk
<1>4. blk \in BlkType
  BY <1>1, <1>2, ValFacts, Zenon DEF BlkOff, BlkType, Request
<1>5. dev \in [seen : Index, cur : {<<>>} \cup {<<r>> : r \in Request}]
  BY <1>1, <1>2, Zenon DEF Idle
<1>6. faults \in [may : {env.may}, left : Nat, late : BOOLEAN]
  BY <1>1, MachinesAssumption, Zenon
<1>7. FsOK(fs)
  <2> DEFINE z == [t \in Meta |-> 0]
  <2>1. z \in [Meta -> Nat] /\ 1 \in 1..Dir /\ Clear \in Val
    BY SectorFacts, ValFacts
  <2>2. fs = [step |-> "idle", kind |-> "none", i |-> 1, v |-> 0, sec |-> Unread,
              target |-> "none", log |-> Clear, begun |-> z, acked |-> z,
              logged |-> FALSE, window |-> FALSE]
    BY Zenon DEF Init, FsInit
  <2> HIDE DEF z
  <2>3. fs \in FsType /\ fs.step = "idle" /\ fs.i = 1
    BY <2>1, <2>2, UnreadType, Zenon DEF FsType, Steps, Kinds
  <2> QED
    BY <2>3, Zenon DEF FsOK
<1> QED
  BY <1>1, <1>3, <1>4, <1>5, <1>6, <1>7, Zenon DEF TypeInv

(* The steps of the device keep to the types. *)
LEMMA DiskType ==
  ASSUME TypeInv, Disk
  PROVE  TypeInv'
<1>1. /\ disk \in [Sectors -> Val] /\ blk \in BlkType
      /\ dev \in [seen : Index, cur : {<<>>} \cup {<<r>> : r \in Request}]
      /\ UNCHANGED <<fs, env>> /\ FsOK(fs)' /\ env' \in Machines
      /\ faults \in [may : {env.may}, left : Nat, late : BOOLEAN]
  BY Zenon DEF TypeInv, Disk
<1>2. CASE DeviceFetches
  <2>1. (dev.seen + 1) % IDX \in Index
    BY <1>1, IdxAssumption DEF Index
  <2>2. dev' = [seen |-> (dev.seen + 1) % IDX, cur |-> <<blk.req>>] /\ UNCHANGED <<blk, disk, faults>>
    BY <1>2, Zenon DEF DeviceFetches
  <2>3. blk.req \in Request
    BY <1>1, Zenon DEF BlkType
  <2>4. dev' \in [seen : Index, cur : {<<>>} \cup {<<r>> : r \in Request}]
    BY <2>1, <2>2, <2>3, Zenon
  <2> QED
    BY <1>1, <2>2, <2>4, Zenon DEF TypeInv
<1>3. CASE DeviceCompletes
  <2> DEFINE r == dev.cur[1]
             wrote == [disk EXCEPT ![r.sector] = blk.buf]
  <2>1. PICK ok \in BOOLEAN :
          /\ IF ok THEN UNCHANGED faults ELSE Fault("error")
          /\ disk' \in IF r.type = "in" THEN {disk} ELSE IF ok THEN {wrote} ELSE {disk, wrote}
          /\ blk' = [blk EXCEPT !.used = (@ + 1) % IDX, !.status = IF ok THEN "ok" ELSE "err",
                                !.buf = IF ok /\ r.type = "in" THEN disk[r.sector] ELSE @]
    BY <1>3, Zenon DEF DeviceCompletes
  <2>2. dev.cur # <<>> /\ dev' = [dev EXCEPT !.cur = <<>>]
    BY <1>3, Zenon DEF DeviceCompletes
  <2>3. r \in Request
    BY <1>1, <2>2
  <2>4. dev' \in [seen : Index, cur : {<<>>} \cup {<<p>> : p \in Request}]
    BY <1>1, <2>2, Zenon
  <2> HIDE DEF r
  <2>5. blk.buf \in Val /\ blk.used \in Index
    BY <1>1, Zenon DEF BlkType
  <2>6. wrote \in [Sectors -> Val]
    BY <1>1, <2>5, Zenon
  <2>7. disk' \in [Sectors -> Val]
    BY <1>1, <2>1, <2>6, Zenon
  <2>8. r.type = "in" => disk[r.sector] \in Val
    BY <1>1, <2>3 DEF Request, NoRequest
  <2>9. (blk.used + 1) % IDX \in Index
    BY <2>5, IdxAssumption DEF Index
  <2>10. blk' \in BlkType
    BY <1>1, <2>1, <2>5, <2>8, <2>9, Zenon DEF BlkType
  <2>11. faults' \in [may : {env.may}, left : Nat, late : BOOLEAN]
    BY <1>1, <2>1, FaultType, Zenon
  <2> QED
    BY <1>1, <2>4, <2>7, <2>10, <2>11, Zenon DEF TypeInv
<1> QED
  BY <1>2, <1>3, Zenon DEF Disk

(* The 16-bit ring indices wrap around within their width. *)
LEMMA IndexStep ==
  ASSUME NEW x \in Index
  PROVE  (x + 1) % IDX \in Index /\ (x + 1) % IDX # x
<1>1. IDX \in Nat /\ IDX > 1 /\ x \in 0..(IDX - 1)
  BY IdxAssumption, Zenon DEF Index
<1>2. CASE x + 1 < IDX
  <2>1. (x + 1) % IDX = x + 1
    BY <1>1, <1>2
  <2> QED
    BY <1>1, <1>2, <2>1 DEF Index
<1>3. CASE x + 1 = IDX
  <2>1. (x + 1) % IDX = 0
    BY <1>1, <1>3
  <2> QED
    BY <1>1, <1>3, <2>1 DEF Index
<1> QED
  BY <1>1, <1>2, <1>3

(* A call hands its request to the device. *)
LEMMA SubmitType ==
  ASSUME TypeInv, NEW type \in {"in", "out"}, NEW sector \in Sectors, NEW data \in Val,
         Submit(type, sector, data)
  PROVE  blk' \in BlkType /\ UNCHANGED <<dev, disk, faults>>
<1>1. blk \in BlkType /\ blk.avail \in Index
  BY Zenon DEF TypeInv, BlkType
<1>2. (blk.avail + 1) % IDX \in Index
  BY <1>1, IndexStep, Zenon
<1>3. [type |-> type, sector |-> sector] \in Request
  BY Zenon DEF Request
<1>4. blk' \in BlkType
  BY <1>1, <1>2, <1>3, Zenon DEF Submit, BlkType
<1> QED
  BY <1>4, Zenon DEF Submit

(* A block call that returns, or is given up, leaves driver and file system   *)
(* well-formed.                                                               *)
LEMMA ReturnType ==
  ASSUME TypeInv, ((PolledOk \/ PolledFail) /\ Polled) \/ TimedOut
  PROVE  /\ blk' \in BlkType
         /\ faults' \in [may : {env.may}, left : Nat, late : BOOLEAN]
<1>1. blk \in BlkType /\ blk.used \in Index /\ faults \in [may : {env.may}, left : Nat, late : BOOLEAN]
  BY Zenon DEF TypeInv, BlkType
<1>2. CASE Polled
  BY <1>1, <1>2, Zenon DEF Polled, BlkType
<1>3. CASE TimedOut
  <2>1. blk' \in BlkType
    BY <1>1, <1>3, Zenon DEF TimedOut, BlkType
  <2>2. faults' \in [may : {env.may}, left : Nat, late : BOOLEAN]
    BY <1>3, FaultType, Zenon DEF TimedOut
  <2> QED
    BY <2>1, <2>2, Zenon
<1> QED
  BY <1>2, <1>3, Zenon

(* So does the reset of the driver and its device. *)
LEMMA ResetType == BlkOff \in BlkType /\ Idle \in [seen : Index, cur : {<<>>} \cup {<<r>> : r \in Request}]
<1>1. 0 \in Index
  BY IdxAssumption DEF Index
<1> QED
  BY <1>1, ValFacts, Zenon DEF BlkOff, BlkType, Request, Idle

(* Every step of the machine keeps to the types. *)
LEMMA TypeStep ==
  ASSUME TypeInv, [Next]_vars
  PROVE  TypeInv'
<1>0. /\ disk \in [Sectors -> Val] /\ blk \in BlkType /\ FsOK(fs) /\ env \in Machines
      /\ dev \in [seen : Index, cur : {<<>>} \cup {<<r>> : r \in Request}]
      /\ faults \in [may : {env.may}, left : Nat, late : BOOLEAN]
  BY Zenon DEF TypeInv
<1>1. CASE UNCHANGED vars \/ Aside
  BY <1>1, Zenon DEF vars, blkVars, Aside, TypeInv
<1>2. CASE hal_block_init
  <2>1. UNCHANGED <<fs, env, disk, faults>> /\ dev' = Idle
    BY <1>2, Zenon DEF hal_block_init, virtio_blk_init
  <2>2. blk' \in BlkType
    <3> DEFINE p == \E i \in DOMAIN env.slots : virtio_blk_probe(env.slots[i])
    <3>1. p \in BOOLEAN
      BY Zenon
    <3>2. blk' = [BlkOff EXCEPT !.ready = p]
      BY <1>2, Zenon DEF hal_block_init, virtio_blk_init
    <3> HIDE DEF p
    <3> QED
      BY <3>1, <3>2, ResetType, Zenon DEF BlkType
  <2> QED
    BY <1>0, <2>1, <2>2, ResetType, Zenon DEF TypeInv
<1>3. CASE block_sanity_test
  <2>1. "boot" \in Sectors /\ Clear \in Val
    BY SectorFacts, ValFacts, Zenon
  <2>2. Submit("in", "boot", Clear) /\ UNCHANGED <<fs, env>>
    BY <1>3, Zenon DEF block_sanity_test
  <2>3. blk' \in BlkType /\ UNCHANGED <<dev, disk, faults>>
    BY <2>1, <2>2, SubmitType, Zenon
  <2> QED
    BY <1>0, <2>2, <2>3, Zenon DEF TypeInv
<1>4. CASE SanityReturns
  <2>1. UNCHANGED <<dev, disk, fs, env>> /\ (((PolledOk \/ PolledFail) /\ Polled) \/ TimedOut)
    BY <1>4, Zenon DEF SanityReturns
  <2> QED
    BY <1>0, <2>1, ReturnType, Zenon DEF TypeInv
<1>5. CASE StartFile
  <2>1. PICK kind \in env.kinds : StartOperation(kind)
    BY <1>5, Zenon DEF StartFile
  <2>2. kind \in Kinds
    BY <1>0, Zenon DEF Kinds
  <2>3. fs' \in FsType /\ fs'.step = "boot" /\ fs'.i = 1
    <3>1. fs \in FsType /\ fs.i = 1 /\ fs.v + 1 \in Nat
      BY <1>0, <2>1 DEF StartOperation, FsOK, FsType
    <3>2. fs' = [fs EXCEPT !.step = "boot", !.kind = kind, !.v = fs.v + 1]
      BY <2>1, Zenon DEF StartOperation
    <3> QED
      BY <2>2, <3>1, <3>2, Zenon DEF FsType, Steps
  <2>4. FsOK(fs')
    BY <2>3, Zenon DEF FsOK
  <2>5. UNCHANGED <<blk, dev, disk, faults, env>>
    BY <1>5, Zenon DEF StartFile, blkVars
  <2> QED
    BY <1>0, <2>4, <2>5, Zenon DEF TypeInv
<1>6. CASE BlockCall
  <2>1. fs.step # "idle" /\ UNCHANGED env
    BY <1>6, Zenon DEF BlockCall
  <2>2. CASE blk.ready
    <3>1. Submit(Call[1], Call[2], Call[3]) /\ UNCHANGED fs
      BY <1>6, <2>2, Zenon DEF BlockCall
    <3>2. blk' \in BlkType /\ UNCHANGED <<dev, disk, faults>>
      BY <1>0, <2>1, <3>1, CallType, SubmitType, Zenon
    <3> QED
      BY <1>0, <2>1, <3>1, <3>2, Zenon DEF TypeInv
  <2>3. CASE ~blk.ready
    <3>1. fs' = After(FALSE, Clear) /\ UNCHANGED <<blk, dev, disk, faults>>
      BY <1>6, <2>3, Zenon DEF BlockCall, blkVars
    <3>2. FsOK(fs')
      BY <1>0, <2>1, <3>1, AfterType, ValFacts, Zenon
    <3> QED
      BY <1>0, <2>1, <3>1, <3>2, Zenon DEF TypeInv
  <2> QED
    BY <2>2, <2>3, Zenon
<1>7. CASE BlockReturns
  <2>1. /\ fs.step # "idle" /\ UNCHANGED <<dev, disk, env>>
        /\ ((PolledOk \/ PolledFail) /\ Polled) \/ TimedOut
        /\ fs' = After(TRUE, blk.buf) \/ fs' = After(FALSE, blk.buf)
    BY <1>7, Zenon DEF BlockReturns
  <2>2. FsOK(fs')
    <3>1. blk.buf \in Val
      BY <1>0, Zenon DEF BlkType
    <3> QED
      BY <1>0, <2>1, <3>1, AfterType, Zenon
  <2> QED
    BY <1>0, <2>1, <2>2, ReturnType, Zenon DEF TypeInv
<1>8. CASE Disk
  BY <1>8, DiskType, Zenon
<1>9. CASE Crash
  <2>1. /\ UNCHANGED <<disk, env>> /\ blk' = BlkOff /\ dev' = Idle /\ fs' = Stopped
        /\ Fault("crash")
    BY <1>9, Zenon DEF Crash
  <2> QED
    BY <1>0, <2>1, ResetType, OverType, FaultType, Zenon DEF TypeInv
<1> QED
  BY <1>1, <1>2, <1>3, <1>4, <1>5, <1>6, <1>7, <1>8, <1>9, StepKinds, Zenon

(* ---------------------------- requests under way -------------------------- *)

(* Adding one to a ring index is one place ahead. *)
LEMMA NextIndex ==
  ASSUME NEW x \in Index
  PROVE  (x + 1) % IDX = IF x + 1 < IDX THEN x + 1 ELSE 0
<1>1. IDX \in Nat /\ IDX > 1 /\ x \in 0..(IDX - 1)
  BY IdxAssumption, Zenon DEF Index
<1>2. CASE x + 1 < IDX
  BY <1>1, <1>2
<1>3. CASE x + 1 = IDX
  BY <1>1, <1>3
<1> QED
  BY <1>1, <1>2, <1>3

(* Places ahead of an index add up, stay within the ring, and are told apart  *)
(* as long as they are fewer than its indices.                                *)
LEMMA AheadFacts ==
  ASSUME NEW x \in Index, NEW k \in Nat, k < IDX
  PROVE  /\ Ahead(x, 0) = x
         /\ Ahead(x, k) = x => k = 0
         /\ k + 1 < IDX => (Ahead(x, k) + 1) % IDX = Ahead(x, k + 1)
         /\ k > 0 => Ahead((x + 1) % IDX, k - 1) = Ahead(x, k)
<1>1. IDX \in Nat /\ IDX > 1 /\ x \in 0..(IDX - 1)
  BY IdxAssumption, Zenon DEF Index
<1>2. Ahead(x, k) \in Index
  BY <1>1 DEF Ahead, Index
<1>3. k + 1 < IDX => (Ahead(x, k) + 1) % IDX = Ahead(x, k + 1)
  <2>1. (Ahead(x, k) + 1) % IDX = IF Ahead(x, k) + 1 < IDX THEN Ahead(x, k) + 1 ELSE 0
    BY <1>2, NextIndex, Zenon
  <2> QED
    BY <1>1, <2>1 DEF Ahead
<1>4. k > 0 => Ahead((x + 1) % IDX, k - 1) = Ahead(x, k)
  <2>1. (x + 1) % IDX = IF x + 1 < IDX THEN x + 1 ELSE 0
    BY NextIndex, Zenon
  <2> QED
    BY <1>1, <2>1 DEF Ahead
<1> QED
  BY <1>1, <1>3, <1>4 DEF Ahead

(* The counters stay within the ring. *)
LEMMA CountsFit ==
  ASSUME NEW b, NEW d, NEW e \in Machines, NEW fl, fl.left \in Nat,
         NEW k \in Nat, NEW c \in Nat, NEW n \in Nat, Counted(b, d, e, fl, k, c, n)
  PROVE  k < IDX /\ c < IDX
<1>1. IDX \in Nat /\ IDX > 1 /\ e.faults \in Nat /\ ("timeout" \in e.may => e.faults + 1 < IDX)
  BY IdxAssumption, MachinesAssumption, Zenon
<1>2. /\ k + c + (IF d.cur = <<>> THEN 0 ELSE 1) <= n + (IF b.busy THEN 1 ELSE 0)
      /\ n + fl.left <= e.faults
      /\ n > 0 => "timeout" \in e.may
  BY Zenon DEF Counted
<1>3. k + c <= n + 1
  BY <1>2
<1>4. CASE n = 0
  BY <1>1, <1>3, <1>4
<1>5. CASE n > 0
  BY <1>1, <1>2, <1>3, <1>5
<1> QED
  BY <1>4, <1>5

(* After a reset no request is under way. *)
LEMMA ResetInv ==
  ASSUME TypeInv, BlkInv, NEW b, b.avail = 0, b.used = 0, b.last_used = 0, b.busy = FALSE,
         b.status = "ff", NEW fl, fl.left \in Nat, fl.left <= faults.left
  PROVE  \E k, c, n \in Nat : Underway(b, Idle, disk, env, fl, k, c, n)
<1>1. PICK k, c, n \in Nat : Counted(blk, dev, env, faults, k, c, n)
  BY Zenon DEF BlkInv, Underway
<1>2. env.faults \in Nat /\ faults.left \in Nat /\ n + faults.left <= env.faults /\ 0 \in Index /\ IDX > 1
      /\ IDX \in Nat
  BY <1>1, MachinesAssumption, IdxAssumption DEF TypeInv, Counted, Index
<1>3. Counted(b, Idle, env, fl, 0, 0, 0)
  BY <1>2 DEF Counted, Idle, Ahead
<1>4. Carried(b, Idle, disk, 0, 0, 0)
  BY Zenon DEF Carried, Idle
<1> QED
  BY <1>3, <1>4, Zenon DEF Underway

(* Nor is one at power on. *)
LEMMA BlkInit == Init => BlkInv
<1> SUFFICES ASSUME Init PROVE BlkInv
  BY Zenon
<1>1. /\ env \in Machines /\ blk = BlkOff /\ dev = Idle
      /\ faults = [may |-> env.may, left |-> env.faults, late |-> FALSE]
  BY Zenon DEF Init
<1>2. env.faults \in Nat /\ IDX \in Nat /\ IDX > 1
  BY <1>1, MachinesAssumption, IdxAssumption, Zenon
<1>3. Counted(blk, dev, env, faults, 0, 0, 0)
  BY <1>1, <1>2 DEF Counted, Idle, BlkOff, Ahead
<1>4. Carried(blk, dev, disk, 0, 0, 0)
  BY <1>1, Zenon DEF Carried, Idle, BlkOff
<1> QED
  BY <1>3, <1>4, Zenon DEF BlkInv, Underway

(* virtio_blk.c: a call puts one request ahead of the device, and its buffer  *)
(* holds the data of a write.                                                 *)
LEMMA SubmitInv ==
  ASSUME TypeInv, BlkInv, NEW type \in {"in", "out"}, NEW sector, NEW data,
         Submit(type, sector, data), UNCHANGED env
  PROVE  BlkInv'
<1>1. PICK k, c, n \in Nat : Underway(blk, dev, disk, env, faults, k, c, n)
  BY Zenon DEF BlkInv
<1>2. /\ blk \in BlkType /\ dev.seen \in Index /\ env \in Machines /\ faults.left \in Nat
  BY Zenon DEF TypeInv
<1>3. k < IDX /\ c < IDX
  BY <1>1, <1>2, CountsFit, Zenon DEF Underway
<1>4. /\ ~blk.busy /\ UNCHANGED <<dev, disk, faults>>
      /\ blk'.req = [type |-> type, sector |-> sector] /\ blk'.status = "ff" /\ blk'.want = data
      /\ blk'.buf = (IF type = "out" THEN data ELSE blk.buf)
      /\ blk'.avail = (blk.avail + 1) % IDX /\ blk'.busy = TRUE
      /\ blk'.used = blk.used /\ blk'.last_used = blk.last_used /\ blk'.late = blk.late
  BY <1>2, Zenon DEF Submit, BlkType
<1>5. Counted(blk', dev', env', faults', k + 1, c, n)
  <2>1. /\ blk.avail = Ahead(dev.seen, k) /\ blk.used = Ahead(blk.last_used, c)
        /\ k + c + (IF dev.cur = <<>> THEN 0 ELSE 1) <= n
        /\ n + faults.left <= env.faults
        /\ n > 0 => "timeout" \in env.may /\ blk.late
    BY <1>1, <1>4 DEF Underway, Counted
  <2>2. k + 1 + c + (IF dev'.cur = <<>> THEN 0 ELSE 1) <= n + (IF blk'.busy THEN 1 ELSE 0)
    BY <1>4, <2>1
  <2>3. k + 1 < IDX
    <3>1. IDX \in Nat /\ IDX > 1 /\ env.faults \in Nat /\ ("timeout" \in env.may => env.faults + 1 < IDX)
      BY <1>2, IdxAssumption, MachinesAssumption, Zenon
    <3>2. k <= n
      BY <2>1
    <3> QED
      BY <1>2, <2>1, <3>1, <3>2
  <2>4. blk'.avail = Ahead(dev'.seen, k + 1)
    BY <1>2, <1>3, <1>4, <2>1, <2>3, AheadFacts
  <2> QED
    BY <1>4, <2>1, <2>2, <2>4, Zenon DEF Counted
<1>6. n = 0 => c = 0
  BY <1>1, <1>4 DEF Underway, Counted
<1>7. Carried(blk', dev', disk', k + 1, c, n)
  BY <1>4, <1>6 DEF Carried
<1> QED
  BY <1>5, <1>7 DEF BlkInv, Underway

(* virtio_blk.c: a call returns with its answer taken, or gives up and leaves *)
(* its request behind.                                                        *)
LEMMA ReturnInv ==
  ASSUME TypeInv, BlkInv, ((PolledOk \/ PolledFail) /\ Polled) \/ TimedOut,
         UNCHANGED <<dev, disk, env>>
  PROVE  BlkInv'
<1>1. PICK k, c, n \in Nat : Underway(blk, dev, disk, env, faults, k, c, n)
  BY Zenon DEF BlkInv
<1>2. /\ blk \in BlkType /\ blk.last_used \in Index /\ env \in Machines /\ faults.left \in Nat
  BY Zenon DEF TypeInv, BlkType
<1>3. c < IDX /\ Ahead(blk.last_used, 0) = blk.last_used
  BY <1>1, <1>2, CountsFit, AheadFacts, Zenon DEF Underway
<1>4. /\ blk.avail = Ahead(dev.seen, k) /\ blk.used = Ahead(blk.last_used, c)
      /\ k + c + (IF dev.cur = <<>> THEN 0 ELSE 1) <= n + (IF blk.busy THEN 1 ELSE 0)
      /\ n + faults.left <= env.faults
      /\ n > 0 => "timeout" \in env.may /\ blk.late
  BY <1>1, Zenon DEF Underway, Counted
<1>5. CASE (PolledOk \/ PolledFail) /\ Polled
  <2>1. /\ blk.busy /\ blk.used # blk.last_used
        /\ blk' = [blk EXCEPT !.last_used = blk.used, !.busy = FALSE] /\ UNCHANGED faults
    BY <1>5, Zenon DEF PolledOk, PolledFail, Polled
  <2>2. /\ blk'.avail = blk.avail /\ blk'.used = blk.used /\ blk'.last_used = blk.used
        /\ blk'.req = blk.req /\ blk'.status = blk.status /\ blk'.buf = blk.buf
        /\ blk'.busy = FALSE /\ blk'.late = blk.late
    BY <1>2, <2>1, Zenon DEF BlkType
  <2>3. c > 0
    BY <1>3, <1>4, <2>1
  <2>4. k + 0 + (IF dev.cur = <<>> THEN 0 ELSE 1) <= n + 0
    BY <1>4, <2>1, <2>3
  <2>5. blk'.used = Ahead(blk'.last_used, 0)
    BY <1>2, <2>2, AheadFacts, IdxAssumption, Zenon DEF BlkType
  <2>6. Counted(blk', dev', env', faults', k, 0, n)
    BY <1>4, <2>1, <2>2, <2>4, <2>5, Zenon DEF Counted
  <2>7. Carried(blk', dev', disk', k, 0, n)
    BY <1>1, <2>2, Zenon DEF Underway, Carried
  <2> QED
    BY <2>6, <2>7, Zenon DEF BlkInv, Underway
<1>6. CASE TimedOut
  <2>1. blk.busy /\ Fault("timeout") /\ blk' = [blk EXCEPT !.busy = FALSE, !.late = TRUE]
    BY <1>6, Zenon DEF TimedOut
  <2>2. /\ blk'.avail = blk.avail /\ blk'.used = blk.used /\ blk'.last_used = blk.last_used
        /\ blk'.req = blk.req /\ blk'.status = blk.status /\ blk'.buf = blk.buf
        /\ blk'.busy = FALSE /\ blk'.late = TRUE
    BY <1>2, <2>1, Zenon DEF BlkType
  <2>3. faults'.left = faults.left - 1 /\ "timeout" \in env.may
    BY <2>1, FaultType, Zenon
  <2>4. /\ k + c + (IF dev.cur = <<>> THEN 0 ELSE 1) <= n + 1 + 0
        /\ n + 1 + faults'.left <= env.faults
    BY <1>2, <1>4, <2>1, <2>3, MachinesAssumption
  <2>5. Counted(blk', dev', env', faults', k, c, n + 1)
    BY <1>4, <2>2, <2>3, <2>4, Zenon DEF Counted
  <2>6. Carried(blk', dev', disk', k, c, n + 1)
    BY <1>1, <2>2, Zenon DEF Underway, Carried
  <2> QED
    BY <2>5, <2>6 DEF BlkInv, Underway
<1> QED
  BY <1>5, <1>6, Zenon

(* What a completion does when no call was given up: the data of a write is   *)
(* that of the present call.                                                  *)
LEMMA DiskInv ==
  ASSUME TypeInv, BlkInv, Disk
  PROVE  /\ BlkInv'
         /\ ~blk.late => disk' = disk \/ (/\ blk.busy /\ blk.req.type = "out"
                                          /\ disk' = [disk EXCEPT ![blk.req.sector] = blk.want])
<1>1. PICK k, c, n \in Nat : Underway(blk, dev, disk, env, faults, k, c, n)
  BY Zenon DEF BlkInv
<1>2. /\ blk \in BlkType /\ blk.last_used \in Index /\ env \in Machines /\ faults.left \in Nat
      /\ dev \in [seen : Index, cur : {<<>>} \cup {<<r>> : r \in Request}]
      /\ disk \in [Sectors -> Val] /\ blk.req \in Request
      /\ faults \in [may : {env.may}, left : Nat, late : BOOLEAN]
  BY Zenon DEF TypeInv, BlkType
<1>3. k < IDX /\ c < IDX
  BY <1>1, <1>2, CountsFit, Zenon DEF Underway
<1>4. /\ blk.avail = Ahead(dev.seen, k) /\ blk.used = Ahead(blk.last_used, c)
      /\ k + c + (IF dev.cur = <<>> THEN 0 ELSE 1) <= n + (IF blk.busy THEN 1 ELSE 0)
      /\ n + faults.left <= env.faults
      /\ n > 0 => "timeout" \in env.may /\ blk.late
  BY <1>1, Zenon DEF Underway, Counted
<1>5. env' = env
  BY Zenon DEF Disk
<1>6. CASE DeviceFetches
  <2>1. /\ dev.cur = <<>> /\ dev.seen # blk.avail /\ UNCHANGED <<blk, disk, faults>>
        /\ dev' = [seen |-> (dev.seen + 1) % IDX, cur |-> <<blk.req>>]
    BY <1>6, Zenon DEF DeviceFetches
  <2>2. dev'.seen = (dev.seen + 1) % IDX /\ dev'.cur = <<blk.req>> /\ dev'.cur # <<>>
    BY <2>1, Zenon
  <2>3. k > 0 /\ k - 1 \in Nat
    BY <1>2, <1>3, <1>4, <2>1, AheadFacts
  <2>4. blk'.avail = Ahead(dev'.seen, k - 1)
    BY <1>2, <1>3, <1>4, <2>1, <2>2, <2>3, AheadFacts, Zenon
  <2>5. k - 1 + c + (IF dev'.cur = <<>> THEN 0 ELSE 1) <= n + (IF blk'.busy THEN 1 ELSE 0)
    BY <1>4, <2>1, <2>2
  <2>6. Counted(blk', dev', env', faults', k - 1, c, n)
    BY <1>4, <1>5, <2>1, <2>4, <2>5, Zenon DEF Counted
  <2>7. Carried(blk', dev', disk', k - 1, c, n)
    BY <1>1, <2>1, <2>2, Zenon DEF Underway, Carried
  <2> QED
    BY <2>1, <2>3, <2>6, <2>7, Zenon DEF BlkInv, Underway
<1>7. CASE DeviceCompletes
  <2> DEFINE r == dev.cur[1]
             wrote == [disk EXCEPT ![r.sector] = blk.buf]
  <2>1. PICK ok \in BOOLEAN :
          /\ IF ok THEN UNCHANGED faults ELSE Fault("error")
          /\ disk' \in IF r.type = "in" THEN {disk} ELSE IF ok THEN {wrote} ELSE {disk, wrote}
          /\ blk' = [blk EXCEPT !.used = (@ + 1) % IDX, !.status = IF ok THEN "ok" ELSE "err",
                                !.buf = IF ok /\ r.type = "in" THEN disk[r.sector] ELSE @]
    BY <1>7, Zenon DEF DeviceCompletes
  <2>2. dev.cur # <<>> /\ dev' = [dev EXCEPT !.cur = <<>>]
    BY <1>7, Zenon DEF DeviceCompletes
  <2>3. dev'.seen = dev.seen /\ dev'.cur = <<>>
    BY <1>2, <2>2, Zenon
  <2>4. /\ blk'.avail = blk.avail /\ blk'.last_used = blk.last_used /\ blk'.req = blk.req
        /\ blk'.want = blk.want /\ blk'.busy = blk.busy /\ blk'.late = blk.late
        /\ blk'.used = (blk.used + 1) % IDX /\ blk'.status = (IF ok THEN "ok" ELSE "err")
        /\ blk'.buf = (IF ok /\ r.type = "in" THEN disk[r.sector] ELSE blk.buf)
    BY <1>2, <2>1, Zenon DEF BlkType
  <2>5. faults'.left \in Nat /\ faults'.left <= faults.left
    BY <1>2, <2>1, FaultType
  <2>6. k = 0 => r = blk.req
    BY <1>1, <2>2 DEF Underway, Carried
  <2> HIDE DEF r
  <2>7. k + (c + 1) + 0 <= n + (IF blk'.busy THEN 1 ELSE 0)
    BY <1>4, <2>2, <2>4
  <2>8. c + 1 < IDX
    <3>1. IDX \in Nat /\ IDX > 1 /\ env.faults \in Nat /\ ("timeout" \in env.may => env.faults + 1 < IDX)
      BY <1>2, IdxAssumption, MachinesAssumption, Zenon
    <3>2. c <= n
      BY <2>7
    <3> QED
      BY <1>2, <1>4, <3>1, <3>2
  <2>9. blk'.used = Ahead(blk'.last_used, c + 1)
    BY <1>2, <1>3, <1>4, <2>4, <2>8, AheadFacts
  <2>10. Counted(blk', dev', env', faults', k, c + 1, n)
    BY <1>2, <1>4, <1>5, <2>3, <2>4, <2>5, <2>7, <2>9, MachinesAssumption DEF Counted
  <2>11. n = 0 => k = 0 /\ c = 0 /\ blk.busy
    BY <1>4, <2>2
  <2>12. blk.req.type = "out" => blk.req.sector \in Sectors
    BY <1>2 DEF Request, NoRequest
  <2>13. n = 0 /\ blk.req.type = "out" => blk.buf = blk.want /\ wrote = [disk EXCEPT ![blk.req.sector] = blk.want]
    BY <1>1, <2>6, <2>11, Zenon DEF Underway, Carried
  <2>14. ok /\ n = 0 /\ blk.req.type = "out" => disk'[blk.req.sector] = blk.want
    BY <1>2, <2>1, <2>6, <2>11, <2>12, <2>13, Zenon
  <2>15. k = 0 /\ ok /\ blk.req.type = "in" => blk'.buf = disk'[blk.req.sector]
    BY <2>1, <2>4, <2>6, Zenon
  <2>16. Carried(blk', dev', disk', k, c + 1, n)
    BY <1>1, <2>3, <2>4, <2>14, <2>15 DEF Underway, Carried
  <2>17. ~blk.late => n = 0
    BY <1>4
  <2>18. ~blk.late => blk.busy /\ blk.req.type \in {"in", "out"}
    BY <1>1, <2>11, <2>17, Zenon DEF Underway, Carried
  <2>19. ~blk.late => disk' = disk \/ (blk.busy /\ blk.req.type = "out" /\ disk' = [disk EXCEPT ![blk.req.sector] = blk.want])
    <3>1. CASE blk.req.type = "in"
      BY <2>1, <2>6, <2>11, <2>17, <3>1, Zenon
    <3>2. CASE blk.req.type = "out"
      BY <2>1, <2>11, <2>13, <2>17, <3>2, Zenon
    <3> QED
      BY <2>18, <3>1, <3>2, Zenon
  <2> QED
    BY <2>10, <2>16, <2>19 DEF BlkInv, Underway
<1> QED
  BY <1>6, <1>7, Zenon DEF Disk

(* Every step keeps account of the requests under way. *)
LEMMA BlkStep ==
  ASSUME TypeInv, BlkInv, [Next]_vars
  PROVE  BlkInv'
<1>1. CASE UNCHANGED vars \/ Aside
  <2>1. UNCHANGED <<blk, dev, disk, faults, env>>
    BY <1>1, Zenon DEF vars, blkVars, Aside
  <2> QED
    BY <2>1, Zenon DEF BlkInv
<1>2. CASE hal_block_init
  <2>1. /\ UNCHANGED <<env, disk, faults>> /\ dev' = Idle
        /\ blk'.avail = 0 /\ blk'.used = 0 /\ blk'.last_used = 0 /\ blk'.busy = FALSE /\ blk'.status = "ff"
    BY <1>2, Zenon DEF hal_block_init, virtio_blk_init, BlkOff
  <2>2. faults.left \in Nat /\ faults.left <= faults.left
    BY DEF TypeInv
  <2> QED
    BY <2>1, <2>2, ResetInv, Zenon DEF BlkInv
<1>3. CASE block_sanity_test
  BY <1>3, SubmitInv, Zenon DEF block_sanity_test
<1>4. CASE SanityReturns
  BY <1>4, ReturnInv, Zenon DEF SanityReturns
<1>5. CASE StartFile
  <2>1. UNCHANGED <<blk, dev, disk, faults, env>>
    BY <1>5, Zenon DEF StartFile, blkVars
  <2> QED
    BY <2>1, Zenon DEF BlkInv
<1>6. CASE BlockCall
  <2>1. fs.step # "idle" /\ UNCHANGED env /\ FsOK(fs)
    BY <1>6, Zenon DEF BlockCall, TypeInv
  <2>2. CASE blk.ready
    <3>1. Submit(Call[1], Call[2], Call[3])
      BY <1>6, <2>2, Zenon DEF BlockCall
    <3> QED
      BY <2>1, <3>1, CallType, SubmitInv, Zenon
  <2>3. CASE ~blk.ready
    <3>1. UNCHANGED <<blk, dev, disk, faults, env>>
      BY <1>6, <2>3, Zenon DEF BlockCall, blkVars
    <3> QED
      BY <3>1, Zenon DEF BlkInv
  <2> QED
    BY <2>2, <2>3, Zenon
<1>7. CASE BlockReturns
  <2>1. ((PolledOk \/ PolledFail) /\ Polled) \/ TimedOut
    BY <1>7, Zenon DEF BlockReturns
  <2>2. UNCHANGED <<dev, disk, env>>
    BY <1>7, Zenon DEF BlockReturns
  <2> QED
    BY <2>1, <2>2, ReturnInv, Zenon
<1>8. CASE Disk
  BY <1>8, DiskInv, Zenon
<1>9. CASE Crash
  <2>1. /\ UNCHANGED <<disk, env>> /\ blk' = BlkOff /\ dev' = Idle /\ Fault("crash")
        /\ blk'.avail = 0 /\ blk'.used = 0 /\ blk'.last_used = 0 /\ blk'.busy = FALSE /\ blk'.status = "ff"
    BY <1>9, Zenon DEF Crash, BlkOff
  <2>2. faults'.left \in Nat /\ faults'.left <= faults.left
    <3>1. faults.left \in Nat
      BY Zenon DEF TypeInv
    <3> QED
      BY <2>1, <3>1, FaultType
  <2> QED
    BY <2>1, <2>2, ResetInv, Zenon DEF BlkInv
<1> QED
  BY <1>1, <1>2, <1>3, <1>4, <1>5, <1>6, <1>7, <1>8, <1>9, StepKinds, Zenon

(* An answer the driver takes for a success is one, as far as TrueMeansDone   *)
(* says it is.                                                                *)
LEMMA OkIsDone ==
  ASSUME TypeInv, BlkInv
  PROVE  TrueMeansDone
<1> SUFFICES ASSUME PolledOk, blk.late => ~Outstanding /\ blk.req.type = "in"
             PROVE  disk[blk.req.sector] = IF blk.req.type = "out" THEN blk.want ELSE blk.buf
  BY Zenon DEF TrueMeansDone
<1>1. PICK k, c, n \in Nat : Underway(blk, dev, disk, env, faults, k, c, n)
  BY Zenon DEF BlkInv
<1>2. /\ blk.last_used \in Index /\ env \in Machines /\ faults.left \in Nat /\ dev.seen \in Index
  BY Zenon DEF TypeInv, BlkType
<1>3. k < IDX /\ c < IDX
  BY <1>1, <1>2, CountsFit, Zenon DEF Underway
<1>4. /\ blk.avail = Ahead(dev.seen, k) /\ blk.used = Ahead(blk.last_used, c)
      /\ k + c + (IF dev.cur = <<>> THEN 0 ELSE 1) <= n + (IF blk.busy THEN 1 ELSE 0)
      /\ n > 0 => blk.late
  BY <1>1, Zenon DEF Underway, Counted
<1>5. blk.busy /\ blk.used # blk.last_used /\ blk.status = "ok"
  BY Zenon DEF PolledOk
<1>6. c > 0
  BY <1>2, <1>3, <1>4, <1>5, AheadFacts
<1>7. k = 0 /\ dev.cur = <<>>
  <2>1. CASE blk.late
    BY <1>2, <1>3, <1>4, <2>1, AheadFacts DEF Outstanding
  <2>2. CASE ~blk.late
    BY <1>4, <1>6, <2>2
  <2> QED
    BY <2>1, <2>2, Zenon
<1>8. blk.req.type = "out" => n = 0
  BY <1>4
<1> QED
  BY <1>1, <1>5, <1>6, <1>7, <1>8, Zenon DEF Underway, Carried

(* virtio_blk.c: a block call that returns true has done what it was asked,   *)
(* for any disk, any operations on it and any faults - as long as fewer calls *)
(* time out than the 16-bit ring indices can count.                           *)
THEOREM BlockCallsAreDone == Spec => []TrueMeansDone
<1>1. Init => TypeInv /\ BlkInv
  BY TypeInit, BlkInit, Zenon
<1>2. TypeInv /\ BlkInv /\ [Next]_vars => (TypeInv /\ BlkInv)'
  BY TypeStep, BlkStep, Zenon
<1>3. TypeInv /\ BlkInv => TrueMeansDone
  BY OkIsDone, Zenon
<1> QED
  BY <1>1, <1>2, <1>3, PTL DEF Spec

(* ------------------------ the call of the file system --------------------- *)

(* A step that leaves the file system alone leaves the block call it waits    *)
(* for.                                                                       *)
LEMMA CallKept ==
  ASSUME UNCHANGED fs
  PROVE  Call' = Call
  BY Zenon DEF Call, Changed, Target

(* A request that is not finished is the one the core thread waits for; late  *)
(* answers are only possible after a time-out.                                *)
LEMMA CallingStep ==
  ASSUME TypeInv, Calling, blk.late => faults.late, [Next]_vars
  PROVE  Calling' /\ (blk.late => faults.late)'
<1>0. blk \in BlkType /\ FsOK(fs)
  BY Zenon DEF TypeInv
<1>1. CASE UNCHANGED vars \/ Aside
  <2>1. UNCHANGED <<blk, faults, fs>> /\ (blk.busy => pc' = pc)
    BY <1>1, Zenon DEF vars, blkVars, threadVars, Aside, Calling
  <2> QED
    BY <2>1, CallKept, Zenon DEF Calling
<1>2. CASE hal_block_init
  <2>1. ~blk'.busy /\ ~blk'.late
    BY <1>2, Zenon DEF hal_block_init, virtio_blk_init, BlkOff
  <2> QED
    BY <2>1, Zenon DEF Calling
<1>3. CASE block_sanity_test
  <2>1. blk'.req = [type |-> "in", sector |-> "boot"] /\ blk'.late = blk.late /\ UNCHANGED <<pc, faults>>
        /\ pc = "sanity" /\ blk'.ready
    BY <1>0, <1>3, Zenon DEF block_sanity_test, Submit, BlkType, threadVars
  <2> QED
    BY <2>1, Zenon DEF Calling
<1>4. CASE ((PolledOk \/ PolledFail) /\ Polled) \/ TimedOut
  <2>1. CASE Polled
    <3>1. ~blk'.busy /\ blk'.late = blk.late /\ UNCHANGED faults
      BY <1>0, <2>1, Zenon DEF Polled, BlkType
    <3> QED
      BY <3>1, Zenon DEF Calling
  <2>2. CASE TimedOut
    <3>1. ~blk'.busy /\ faults'.late
      BY <1>0, <2>2, FaultType, Zenon DEF TimedOut, BlkType
    <3> QED
      BY <3>1, Zenon DEF Calling
  <2> QED
    BY <1>4, <2>1, <2>2, Zenon
<1>5. CASE StartFile
  <2>1. fs.step = "idle" /\ pc = "poll" /\ UNCHANGED <<blk, faults, pc>>
    BY <1>5, Zenon DEF StartFile, StartOperation, blkVars, threadVars
  <2> QED
    BY <2>1, Zenon DEF Calling
<1>6. CASE BlockCall
  <2>1. pc = "poll" /\ fs.step # "idle" /\ UNCHANGED pc
    BY <1>6, Zenon DEF BlockCall, threadVars
  <2>2. CASE blk.ready
    <3>1. /\ UNCHANGED <<fs, faults>> /\ blk'.late = blk.late /\ blk'.want = Call[3] /\ blk'.ready
          /\ blk'.req = [type |-> Call[1], sector |-> Call[2]]
      BY <1>0, <1>6, <2>2, Zenon DEF BlockCall, Submit, BlkType
    <3> QED
      BY <2>1, <3>1, CallKept, Zenon DEF Calling
  <2>3. CASE ~blk.ready
    <3>1. UNCHANGED <<blk, faults>> /\ ~blk.busy
      BY <1>6, <2>3, Zenon DEF BlockCall, blkVars, Calling
    <3> QED
      BY <3>1, Zenon DEF Calling
  <2> QED
    BY <2>2, <2>3, Zenon
<1>7. CASE Disk
  <2>1. /\ UNCHANGED <<fs, pc>> /\ blk'.busy = blk.busy /\ blk'.req = blk.req /\ blk'.want = blk.want
        /\ blk'.late = blk.late /\ blk'.ready = blk.ready
    BY <1>0, <1>7, Zenon DEF Disk, DeviceFetches, DeviceCompletes, BlkType, threadVars
  <2>2. faults.late => faults'.late
    <3>1. CASE DeviceFetches
      BY <3>1, Zenon DEF DeviceFetches
    <3>2. CASE DeviceCompletes
      <4>1. UNCHANGED faults \/ Fault("error")
        BY <3>2, Zenon DEF DeviceCompletes
      <4> QED
        BY <4>1, FaultType, Zenon
    <3> QED
      BY <1>7, <3>1, <3>2, Zenon DEF Disk
  <2> QED
    BY <2>1, <2>2, CallKept, Zenon DEF Calling
<1>8. CASE Crash
  <2>1. ~blk'.busy /\ ~blk'.late
    BY <1>8, Zenon DEF Crash, BlkOff
  <2> QED
    BY <2>1, Zenon DEF Calling
<1> QED
  BY <1>1, <1>2, <1>3, <1>4, <1>5, <1>6, <1>7, <1>8, StepKinds, Zenon DEF SanityReturns, BlockReturns

(* --------------------------- the file system is safe ---------------------- *)

(* What replay would do with the log is right. *)
Usable(f, d) == \A t \in Meta : d[WALH] = LogHeader(t) => Good(f, t, d[WALD])

(* The version fields are all that Good depends on. *)
LEMMA GoodKept ==
  ASSUME NEW f, NEW g, g.acked = f.acked, g.begun = f.begun
  PROVE  \A t, x : Good(g, t, x) <=> Good(f, t, x)
  BY Zenon DEF Good

(* A record names one sector. *)
LEMMA HeaderFacts ==
  /\ \A t, u : LogHeader(t) = LogHeader(u) => t = u
  /\ \A t : LogHeader(t) # Clear /\ LogHeader(t).w = "WAL1" /\ LogHeader(t).target = t
  /\ Clear.w # "WAL1"
  BY Zenon DEF LogHeader, Clear

(* A sector's content has a version. *)
LEMMA VersionType ==
  ASSUME NEW x \in Val, x.w = "sector"
  PROVE  x.v \in Nat /\ \A v \in Nat : [x EXCEPT !.v = v].v = v /\ [x EXCEPT !.v = v].of = x.of
                                    /\ [x EXCEPT !.v = v].w = "sector"
<1>1. x \in [w : {"sector"}, of : Sectors, v : Nat]
  BY DEF Val, Clear
<1> QED
  BY <1>1, Zenon

(* At the steps where the file system has read nothing, only the versions and *)
(* the log count.                                                             *)
LEMMA QuietSafe ==
  ASSUME NEW f \in FsType, NEW g \in FsType, NEW d,
         Versions(f, d), Usable(f, d),
         d[WALH] = Clear \/ \E t \in Meta : d[WALH] = LogHeader(t),
         ~g.logged => d[WALH] = Clear,
         g.acked = f.acked, g.begun = f.begun, g.v >= f.v,
         g.step \in {"idle", "boot", "replay_h", "replay_c"} \/ (g.step = "read_fat" /\ g.i = 1)
  PROVE  FsSafe(g, d)
<1>1. \A t, x : Good(g, t, x) <=> Good(f, t, x)
  BY GoodKept, Zenon
<1>2. f.v \in Nat /\ g.v \in Nat /\ \A t \in Meta : f.begun[t] \in Nat
  BY Zenon DEF FsType
<1>3. Versions(g, d)
  BY <1>1, <1>2 DEF Versions
<1>4. Log(g, d)
  BY <1>1, Zenon DEF Log, Usable
<1>5. g.step \notin {"replay_d", "replay_t", "data", "read_dir"} \cup Writing
  BY Zenon DEF Writing
<1>6. g.step = "read_fat" => 1..(g.i - 1) = {}
  OBVIOUS
<1> QED
  BY <1>3, <1>4, <1>5, <1>6, Zenon DEF FsSafe, Replay, SectorsRead, WriteSteps, Writing

(* The first write of a metadata sector. *)
LEMMA BeginSafe ==
  ASSUME FsOK(fs), NEW d \in [Sectors -> Val], Versions(fs, d), Log(fs, d), fs.step \notin {"log_h", "log_d"},
         NEW k \in 1..Dir, NEW sec \in [1..Dir -> Val],
         \A j \in 1..sectorsPerFAT : Made(MetaSectors[j], sec[j]),
         k = Dir => Made(MetaSectors[Dir], sec[Dir]),
         ~Begin(k, sec).window
  PROVE  FsSafe(Begin(k, sec), d)
<1> DEFINE g == Begin(k, sec)
           u == MetaSectors[k]
<1>1. /\ fs \in FsType /\ fs.v \in Nat /\ u \in Meta
      /\ fs.begun \in [Meta -> Nat] /\ fs.acked \in [Meta -> Nat]
      /\ fs.logged \in BOOLEAN /\ fs.window \in BOOLEAN
  BY SectorFacts, Zenon DEF FsOK, FsType
<1>2. /\ g.step = IF Safe THEN "log_h" ELSE "target"
      /\ g.i = k /\ g.sec = sec /\ g.v = fs.v /\ g.kind = fs.kind /\ g.acked = fs.acked
      /\ g.begun = [fs.begun EXCEPT ![u] = fs.v]
  BY <1>1, Zenon DEF Begin, FsType
<1>3. (~Safe => ~fs.logged) /\ (g.logged <=> Safe)
  BY <1>1, Zenon DEF Begin, FsType
<1>4. \A t \in Meta : g.begun[t] = (IF t = u THEN fs.v ELSE fs.begun[t])
  BY <1>1, <1>2, Zenon
<1> HIDE DEF g
<1>5. Versions(g, d)
  <2>1. ASSUME NEW t \in Meta PROVE Good(g, t, d[t]) /\ g.acked[t] <= g.begun[t] /\ g.begun[t] <= g.v
    <3>1. Good(fs, t, d[t]) /\ fs.acked[t] <= fs.begun[t] /\ fs.begun[t] <= fs.v
      BY Zenon DEF Versions
    <3>2. fs.acked[t] \in Nat /\ fs.begun[t] \in Nat /\ d[t] \in Val
      BY <1>1, SectorFacts, Zenon
    <3>3. d[t].v \in Nat
      BY <3>1, <3>2, VersionType, Zenon DEF Good, Made
    <3> QED
      BY <1>1, <1>2, <1>4, <3>1, <3>2, <3>3 DEF Good
  <2> QED
    BY <2>1, Zenon DEF Versions
<1>6. Log(g, d)
  BY <1>2, <1>3, HeaderFacts, Zenon DEF Log
<1>7. Replay(g, d)
  BY <1>2, Zenon DEF Replay
<1>8. SectorsRead(g)
  BY <1>2, Zenon DEF SectorsRead
<1>9. WriteSteps(g, d)
  BY <1>1, <1>2, <1>3, <1>4, Zenon DEF WriteSteps, Safe, TargetOf
<1> QED
  BY <1>5, <1>6, <1>7, <1>8, <1>9, Zenon DEF FsSafe, g

(* What a metadata write puts on the disk: the sector read for it, with the   *)
(* operation's version.                                                       *)
LEMMA ChangedIs ==
  ASSUME FsOK(fs), SectorsRead(fs), fs.step \in Writing
  PROVE  /\ Target \in Meta /\ Target = TargetOf(fs)
         /\ Changed = ChangedOf(fs) /\ Made(Origin(Target), Changed) /\ Changed.v = fs.v
<1> DEFINE s == Source(fs.i)
<1>1. /\ fs.i \in 1..Dir /\ fs.v \in Nat /\ fs.sec \in [1..Dir -> Val] /\ s \in 1..Dir
  BY SourceFacts, Zenon DEF FsOK, FsType
<1>2. Made(MetaSectors[s], fs.sec[s])
  <2>1. CASE fs.i = Dir
    BY <2>1, SourceFacts, Zenon DEF SectorsRead
  <2>2. CASE fs.i # Dir
    BY <1>1, <2>2, SourceFacts, Zenon DEF SectorsRead
  <2> QED
    BY <2>1, <2>2, Zenon
<1>3. Target \in Meta /\ Target = TargetOf(fs) /\ Origin(Target) = MetaSectors[s]
  BY <1>1, SectorFacts, OriginIs, Zenon DEF Target, TargetOf
<1>4. fs.sec[s] \in Val /\ fs.sec[s].w = "sector" /\ fs.sec[s].of = MetaSectors[s]
  BY <1>1, <1>2, Zenon DEF Made
<1>5. Changed = [fs.sec[s] EXCEPT !.v = fs.v] /\ Changed = ChangedOf(fs)
  BY <1>4, Zenon DEF Changed, ChangedOf
<1> QED
  BY <1>1, <1>3, <1>4, <1>5, VersionType DEF Made

(* The sector of the present operation is good with this change in it. *)
LEMMA ChangedGood ==
  ASSUME FsOK(fs), SectorsRead(fs), fs.step \in Writing,
         fs.begun[Target] = fs.v, fs.acked[Target] <= fs.begun[Target]
  PROVE  Good(fs, Target, Changed)
<1>1. Target \in Meta /\ Made(Origin(Target), Changed) /\ Changed.v = fs.v /\ fs.v \in Nat
  BY ChangedIs, Zenon DEF FsOK, FsType
<1> QED
  BY <1>1 DEF Good

(* A write that reaches the disk before its call returns - or without the     *)
(* call ever returning true - leaves the disk safe at every step.             *)
LEMMA WriteKeeps ==
  ASSUME FsOK(fs), NEW d \in [Sectors -> Val], FsSafe(fs, d),
         fs.step \in {"replay_t", "replay_c", "data"} \cup Writing
  PROVE  FsSafe(fs, [d EXCEPT ![Call[2]] = Call[3]])
<1> DEFINE e == [d EXCEPT ![Call[2]] = Call[3]]
<1>0. /\ Versions(fs, d) /\ Log(fs, d) /\ Replay(fs, d) /\ SectorsRead(fs) /\ WriteSteps(fs, d)
  BY Zenon DEF FsSafe
<1>1. /\ WALH \in Sectors /\ WALD \in Sectors /\ "data" \in Sectors /\ Meta \subseteq Sectors
      /\ WALH \notin Meta /\ WALD \notin Meta /\ "data" \notin Meta
      /\ WALH # WALD /\ WALH # "data" /\ WALD # "data"
  BY SectorFacts, Zenon DEF WALH, WALD
<1>2. CASE fs.step = "replay_t"
  <2>1. Call[2] = fs.target /\ Call[3] = fs.log /\ fs.target \in Meta
    BY <1>2, Zenon DEF Call, FsOK
  <2>2. Good(fs, fs.target, fs.log)
    BY <1>0, <1>2, <2>1, Zenon DEF Replay, Log
  <2>3. e[WALH] = d[WALH] /\ e[WALD] = d[WALD] /\ \A t \in Meta : e[t] = IF t = fs.target THEN fs.log ELSE d[t]
    BY <1>1, <2>1, Zenon
  <2> HIDE DEF e
  <2>4. Versions(fs, e)
    BY <1>0, <2>2, <2>3, Zenon DEF Versions
  <2> QED
    BY <1>0, <1>2, <2>3, <2>4, Zenon DEF FsSafe, Log, Replay, WriteSteps, Writing, e
<1>3. CASE fs.step \in {"replay_c", "log_c"}
  <2>1. Call[2] = WALH /\ Call[3] = Clear
    BY <1>3, Zenon DEF Call
  <2>2. e[WALH] = Clear /\ \A t \in Meta : e[t] = d[t]
    BY <1>1, <2>1, Zenon
  <2> HIDE DEF e
  <2>3. Versions(fs, e)
    BY <1>0, <2>2, Zenon DEF Versions
  <2> QED
    BY <1>0, <1>3, <2>2, <2>3, HeaderFacts, Zenon DEF FsSafe, Log, Replay, WriteSteps, e
<1>4. CASE fs.step = "data"
  <2>1. Call[2] = "data"
    BY <1>4, Zenon DEF Call
  <2>2. e[WALH] = d[WALH] /\ e[WALD] = d[WALD] /\ \A t \in Meta : e[t] = d[t]
    BY <1>1, <2>1, Zenon
  <2> HIDE DEF e
  <2> QED
    BY <1>0, <1>4, <2>2, Zenon DEF FsSafe, Versions, Log, Replay, WriteSteps, e
<1>5. CASE fs.step = "log_h"
  <2>1. Call[2] = WALH /\ Call[3] = LogHeader(Target) /\ Target \in Meta /\ fs.logged
    BY <1>0, <1>5, ChangedIs, Zenon DEF Call, WriteSteps, Writing
  <2>2. e[WALH] = LogHeader(Target) /\ \A t \in Meta : e[t] = d[t]
    BY <1>1, <2>1, Zenon
  <2> HIDE DEF e
  <2> QED
    BY <1>0, <1>5, <2>1, <2>2, Zenon DEF FsSafe, Versions, Log, Replay, WriteSteps, e
<1>6. CASE fs.step = "log_d"
  <2>1. Call[2] = WALD
    BY <1>6, Zenon DEF Call
  <2>2. e[WALH] = d[WALH] /\ \A t \in Meta : e[t] = d[t]
    BY <1>1, <2>1, Zenon
  <2> HIDE DEF e
  <2> QED
    BY <1>0, <1>6, <2>2, Zenon DEF FsSafe, Versions, Log, Replay, WriteSteps, e
<1>7. CASE fs.step = "target"
  <2>1. Call[2] = Target /\ Call[3] = Changed /\ Target \in Meta /\ Target = TargetOf(fs)
    BY <1>0, <1>7, ChangedIs, Zenon DEF Call, Writing
  <2>2. Good(fs, Target, Changed)
    BY <1>0, <1>7, <2>1, ChangedGood, Zenon DEF WriteSteps, Versions, Writing
  <2>3. e[WALH] = d[WALH] /\ e[WALD] = d[WALD] /\ \A t \in Meta : e[t] = IF t = Target THEN Changed ELSE d[t]
    BY <1>1, <2>1, Zenon
  <2> HIDE DEF e
  <2>4. Versions(fs, e)
    BY <1>0, <2>2, <2>3, Zenon DEF Versions
  <2> QED
    BY <1>0, <1>7, <2>3, <2>4, Zenon DEF FsSafe, Log, Replay, WriteSteps, e
<1> QED
  BY <1>2, <1>3, <1>4, <1>5, <1>6, <1>7, Zenon DEF Writing

(* The operation is over outside the two log writes. *)
LEMMA OverSafe ==
  ASSUME FsOK(fs), NEW d, FsSafe(fs, d), fs.step \notin {"log_h", "log_d"}
  PROVE  FsSafe(Over, d) /\ FsSafe(Stopped, d)
<1>1. /\ fs \in FsType /\ Over \in FsType /\ Stopped \in FsType /\ fs.v \in Nat
      /\ Over.step = "idle" /\ Stopped.step = "idle"
  BY OverType, Zenon DEF FsOK, FsType
<1>2. /\ Over.acked = fs.acked /\ Over.begun = fs.begun /\ Over.v = fs.v /\ Over.logged = fs.logged
  BY <1>1, Zenon DEF Over, FsType
<1>3. /\ Stopped.acked = fs.acked /\ Stopped.begun = fs.begun /\ Stopped.v = fs.v
      /\ Stopped.logged = fs.logged
  BY <1>1, <1>2, Zenon DEF Stopped, FsType
<1>4. Versions(fs, d) /\ Log(fs, d) /\ Usable(fs, d)
  BY Zenon DEF FsSafe, Log, Usable
<1>5. d[WALH] = Clear \/ \E t \in Meta : d[WALH] = LogHeader(t)
  BY <1>4, Zenon DEF Log
<1>6. ~fs.logged => d[WALH] = Clear
  BY <1>4, Zenon DEF Log
<1>7. Over.v >= fs.v /\ Stopped.v >= fs.v
  BY <1>1, <1>2, <1>3
<1> QED
  BY <1>1, <1>2, <1>3, <1>4, <1>5, <1>6, <1>7, QuietSafe, Zenon

(* On to the next metadata sector: there is none, or the directory is read    *)
(* first, or the next copy of the FAT follows.                                *)
LEMMA NextSectorSafe ==
  ASSUME FsOK(fs), NEW d \in [Sectors -> Val], FsSafe(fs, d), fs.step \in {"target", "log_c"},
         ~NextSector.window
  PROVE  /\ FsSafe(NextSector, d) /\ NextSector.v = fs.v
         /\ NextSector.step \notin Writing \/ (NextSector.step = "log_h" /\ fs.i + 1 < Dir)
              \/ (NextSector.step = "target" /\ ~Safe)
         /\ NextSector.step \in Writing => (NextSector.logged <=> Safe)
         /\ \A t \in Meta : fs.begun[t] = fs.v => NextSector.begun[t] = fs.v
<1>0. Versions(fs, d) /\ Log(fs, d) /\ SectorsRead(fs) /\ fs.step \in Writing
  BY Zenon DEF FsSafe, Writing
<1>1. fs \in FsType /\ fs.i \in 1..Dir /\ fs.sec \in [1..Dir -> Val] /\ fs.v \in Nat
  BY Zenon DEF FsOK, FsType
<1>2. \A j \in 1..sectorsPerFAT : Made(MetaSectors[j], fs.sec[j])
  BY <1>0, Zenon DEF SectorsRead
<1>3. CASE fs.i + 1 < Dir
  <2> DEFINE k == fs.i + 1
             g == Begin(k, fs.sec)
  <2>1. k \in 1..Dir /\ k # Dir
    BY <1>1, <1>3, SectorFacts
  <2>2. NextSector = g
    BY <1>3, Zenon DEF NextSector
  <2>3. MetaSectors[k] \in Meta
    BY <2>1, SectorFacts, Zenon
  <2> HIDE DEF k
  <2>4. FsSafe(g, d)
    BY <1>0, <1>1, <1>2, <2>1, <2>2, BeginSafe, Zenon
  <2>5. /\ g.v = fs.v /\ g.step = (IF Safe THEN "log_h" ELSE "target") /\ g.kind = fs.kind
        /\ g.begun = [fs.begun EXCEPT ![MetaSectors[k]] = fs.v] /\ fs.begun \in [Meta -> Nat]
    BY <1>1, Zenon DEF Begin, FsType
  <2>6. g.step \in Writing
    BY <2>5, Zenon DEF Writing
  <2>7. \A t \in Meta : fs.begun[t] = fs.v => g.begun[t] = fs.v
    BY <2>3, <2>5, Zenon
  <2> HIDE DEF g
  <2>8. g.logged <=> Safe
    BY <2>4, <2>5, <2>6, Zenon DEF FsSafe, WriteSteps, Safe
  <2> QED
    BY <1>3, <2>2, <2>4, <2>5, <2>7, <2>8, Zenon
<1>4. CASE ~(fs.i + 1 < Dir) /\ fs.i < Dir
  <2> DEFINE g == Go("read_dir")
  <2>1. NextSector = g
    BY <1>4, Zenon DEF NextSector
  <2>2. /\ g.step = "read_dir" /\ g.v = fs.v /\ g.begun = fs.begun /\ g.acked = fs.acked
        /\ g.sec = fs.sec /\ g.logged = fs.logged
    BY <1>1, Zenon DEF Go, FsType
  <2> HIDE DEF g
  <2>3. \A t, x : Good(g, t, x) <=> Good(fs, t, x)
    BY <2>2, GoodKept, Zenon
  <2>4. Versions(g, d) /\ Log(g, d)
    BY <1>0, <2>2, <2>3, Zenon DEF Versions, Log
  <2>5. g.step \notin Writing
    BY <2>2, Zenon DEF Writing
  <2> QED
    BY <1>2, <2>1, <2>2, <2>4, <2>5, Zenon DEF FsSafe, Replay, SectorsRead, WriteSteps, Writing
<1>5. CASE ~(fs.i + 1 < Dir) /\ ~(fs.i < Dir)
  <2>1. NextSector = Over
    BY <1>5, Zenon DEF NextSector
  <2>2. Over.step = "idle" /\ Over.v = fs.v /\ Over.begun = fs.begun
    BY <1>1, Zenon DEF Over, FsType
  <2> QED
    BY <2>1, <2>2, OverSafe, Zenon DEF Writing
<1> QED
  BY <1>3, <1>4, <1>5, Zenon

(* The log was cleared, or may still hold a record. *)
LEMMA LoggedSafe ==
  ASSUME NEW g \in FsType, NEW d, NEW l \in BOOLEAN, FsSafe(g, d),
         ~l => d[WALH] = Clear, g.step \in Writing => (l <=> g.logged)
  PROVE  FsSafe([g EXCEPT !.logged = l], d)
<1> DEFINE h == [g EXCEPT !.logged = l]
<1>1. /\ h.step = g.step /\ h.kind = g.kind /\ h.i = g.i /\ h.v = g.v /\ h.sec = g.sec
      /\ h.target = g.target /\ h.log = g.log /\ h.begun = g.begun /\ h.acked = g.acked /\ h.logged = l
  BY Zenon DEF FsType
<1> HIDE DEF h
<1>2. \A t, x : Good(h, t, x) <=> Good(g, t, x)
  BY <1>1, GoodKept, Zenon
<1>3. Versions(h, d) /\ Log(h, d) /\ Replay(h, d) /\ SectorsRead(h)
  BY <1>1, <1>2, Zenon DEF FsSafe, Versions, Log, Replay, SectorsRead
<1>4. TargetOf(h) = TargetOf(g) /\ ChangedOf(h) = ChangedOf(g)
  BY <1>1, Zenon DEF TargetOf, ChangedOf
<1>5. WriteSteps(h, d)
  BY <1>1, <1>4, Zenon DEF FsSafe, WriteSteps
<1> QED
  BY <1>3, <1>5, Zenon DEF FsSafe, h

(* A write that is acknowledged is on the disk, and in the log if that names  *)
(* its sector.                                                                *)
LEMMA AckSafe ==
  ASSUME NEW g \in FsType, NEW d, NEW u \in Meta, FsSafe(g, d),
         d[u].v = g.v, g.begun[u] = g.v, d[WALH] = LogHeader(u) => d[WALD].v = g.v
  PROVE  FsSafe([g EXCEPT !.acked[u] = g.v], d)
<1> DEFINE h == [g EXCEPT !.acked[u] = g.v]
<1>0. g.v \in Nat /\ \A t \in Meta : g.acked[t] \in Nat /\ g.begun[t] \in Nat
  BY Zenon DEF FsType
<1>1. /\ h.step = g.step /\ h.kind = g.kind /\ h.i = g.i /\ h.v = g.v /\ h.sec = g.sec
      /\ h.target = g.target /\ h.log = g.log /\ h.begun = g.begun /\ h.logged = g.logged
      /\ \A t \in Meta : h.acked[t] = IF t = u THEN g.v ELSE g.acked[t]
  BY Zenon DEF FsType
<1> HIDE DEF h
<1>2. ASSUME NEW t \in Meta, NEW x, Good(g, t, x), t = u => x.v = g.v PROVE Good(h, t, x)
  BY <1>0, <1>1, <1>2, Zenon DEF Good
<1>3. Versions(h, d)
  <2>1. ASSUME NEW t \in Meta PROVE Good(h, t, d[t]) /\ h.acked[t] <= h.begun[t] /\ h.begun[t] <= h.v
    <3>1. Good(g, t, d[t]) /\ g.acked[t] <= g.begun[t] /\ g.begun[t] <= g.v
      BY Zenon DEF FsSafe, Versions
    <3> QED
      BY <1>0, <1>1, <1>2, <3>1, Zenon
  <2> QED
    BY <2>1, Zenon DEF Versions
<1>4. Log(h, d)
  BY <1>1, <1>2, Zenon DEF FsSafe, Log
<1>5. Replay(h, d) /\ SectorsRead(h)
  BY <1>1, Zenon DEF FsSafe, Replay, SectorsRead
<1>6. TargetOf(h) = TargetOf(g) /\ ChangedOf(h) = ChangedOf(g)
  BY <1>1, Zenon DEF TargetOf, ChangedOf
<1>7. WriteSteps(h, d)
  BY <1>1, <1>6, Zenon DEF FsSafe, WriteSteps
<1> QED
  BY <1>3, <1>4, <1>5, <1>7, Zenon DEF FsSafe, h

(* What a call that returns true has done. *)
Obeyed(ok, val, d) ==
  ok => IF Call[1] = "out" THEN d[Call[2]] = Call[3] ELSE val = d[Call[2]]

(* A step of the mount that reads or replays nothing more. *)
LEMMA MountedSafe ==
  ASSUME FsOK(fs), NEW d, FsSafe(fs, d), fs.step \notin {"log_h", "log_d"},
         NEW f \in FsType, f.i = 1, f.acked = fs.acked, f.begun = fs.begun, f.v = fs.v,
         ~f.logged => d[WALH] = Clear
  PROVE  FsSafe(Mounted(f), d)
<1> DEFINE g == Mounted(f)
<1>1. /\ g \in FsType /\ g.step \in {"replay_h", "idle", "read_fat"} /\ (g.step = "read_fat" => g.i = 1)
  <2>1. FsOK(g) /\ g.step \in {"replay_h", "idle", "read_fat"}
    BY MountedType, Zenon
  <2>2. g.step = "read_fat" => g = [f EXCEPT !.step = "read_fat"]
    BY Zenon DEF Mounted, FsType
  <2>3. [f EXCEPT !.step = "read_fat"].i = 1
    BY Zenon DEF FsType
  <2> QED
    BY <2>1, <2>2, <2>3, Zenon DEF FsOK
<1>2. g.acked = f.acked /\ g.begun = f.begun /\ g.v = f.v /\ g.logged = f.logged
  BY Zenon DEF Mounted, FsType
<1>3. fs \in FsType /\ fs.v \in Nat
  BY Zenon DEF FsOK, FsType
<1>4. Versions(fs, d) /\ Usable(fs, d) /\ (d[WALH] = Clear \/ \E t \in Meta : d[WALH] = LogHeader(t))
  BY Zenon DEF FsSafe, Log, Usable
<1> HIDE DEF g
<1>5. g.v >= fs.v /\ (~g.logged => d[WALH] = Clear) /\ g.acked = fs.acked /\ g.begun = fs.begun
  BY <1>2, <1>3
<1>6. FsSafe(g, d)
  BY <1>1, <1>3, <1>4, <1>5, QuietSafe, Zenon
<1> QED
  BY <1>6, Zenon DEF g

(* Fat16.swift, mountFat16 and walReplayIfNeeded: the mount keeps the disk    *)
(* safe whichever of its calls fail.                                          *)
LEMMA AfterMountSafe ==
  ASSUME FsOK(fs), NEW d \in [Sectors -> Val], FsSafe(fs, d), fs.step \in {"boot"} \cup Replaying,
         NEW ok \in BOOLEAN, NEW val \in Val, Obeyed(ok, val, d)
  PROVE  FsSafe(AfterMount(ok, val), d)
<1>0. /\ Versions(fs, d) /\ Log(fs, d) /\ Replay(fs, d)
      /\ fs.step \notin {"log_h", "log_d"}
  BY Zenon DEF FsSafe, Replaying
<1>1. /\ fs \in FsType /\ fs.i = 1 /\ fs.v \in Nat /\ fs.v >= fs.v /\ fs.logged \in BOOLEAN
  BY DEF FsOK, FsType
<1>2. /\ Usable(fs, d) /\ (d[WALH] = Clear \/ \E t \in Meta : d[WALH] = LogHeader(t))
      /\ ~fs.logged => d[WALH] = Clear
  BY <1>0, Zenon DEF Log, Usable
<1>3. ASSUME NEW s \in {"replay_h", "replay_c"} PROVE FsSafe(Go(s), d)
  <2>1. Go(s) \in FsType /\ Go(s).step = s
    BY <1>1, Zenon DEF Go, FsType, Steps, Replaying
  <2>2. Go(s).acked = fs.acked /\ Go(s).begun = fs.begun /\ Go(s).v = fs.v /\ Go(s).logged = fs.logged
    BY <1>1, Zenon DEF Go, FsType
  <2> QED
    BY <1>0, <1>1, <1>2, <2>1, <2>2, QuietSafe, Zenon
<1>4. CASE fs.step = "boot"
  BY <1>0, <1>3, <1>4, OverSafe, Zenon DEF AfterMount
<1>5. CASE fs.step = "replay_h"
  <2>0. ok => val = d[WALH]
    BY <1>5, Zenon DEF Obeyed, Call
  <2>1. CASE ok /\ val.w = "WAL1"
    <3> DEFINE g == [fs EXCEPT !.step = "replay_d", !.target = val.target]
    <3>1. AfterMount(ok, val) = g
      BY <1>5, <2>1, Zenon DEF AfterMount
    <3>2. d[WALH] = LogHeader(val.target)
      BY <1>2, <2>0, <2>1, HeaderFacts, Zenon
    <3>3. /\ g.step = "replay_d" /\ g.target = val.target /\ g.acked = fs.acked /\ g.begun = fs.begun
          /\ g.v = fs.v /\ g.logged = fs.logged
      BY <1>1, Zenon DEF FsType
    <3> HIDE DEF g
    <3>4. \A t, x : Good(g, t, x) <=> Good(fs, t, x)
      BY <3>3, GoodKept, Zenon
    <3>5. Versions(g, d) /\ Log(g, d)
      BY <1>0, <3>3, <3>4, Zenon DEF Versions, Log
    <3>6. Replay(g, d) /\ SectorsRead(g) /\ WriteSteps(g, d)
      BY <3>2, <3>3, Zenon DEF Replay, SectorsRead, WriteSteps, Writing
    <3> QED
      BY <3>1, <3>5, <3>6, Zenon DEF FsSafe
  <2>2. CASE ~(ok /\ val.w = "WAL1")
    <3> DEFINE f == [fs EXCEPT !.logged = @ /\ ~ok]
    <3>1. AfterMount(ok, val) = Mounted(f)
      BY <1>5, <2>2, Zenon DEF AfterMount
    <3>2. /\ f \in FsType /\ f.i = 1 /\ f.acked = fs.acked /\ f.begun = fs.begun /\ f.v = fs.v
          /\ f.logged = (fs.logged /\ ~ok)
      BY <1>1, Zenon DEF FsType
    <3>3. ok => d[WALH] = Clear
      BY <1>2, <2>0, <2>2, HeaderFacts, Zenon
    <3> HIDE DEF f
    <3>4. ~f.logged => d[WALH] = Clear
      BY <1>2, <3>2, <3>3, Zenon
    <3> QED
      BY <1>0, <3>1, <3>2, <3>4, MountedSafe, Zenon
  <2> QED
    BY <2>1, <2>2, Zenon
<1>6. CASE fs.step = "replay_d"
  <2>1. CASE ok
    <3> DEFINE g == [fs EXCEPT !.step = "replay_t", !.log = val]
    <3>1. AfterMount(ok, val) = g
      BY <1>6, <2>1, Zenon DEF AfterMount
    <3>2. val = d[WALD] /\ d[WALH] = LogHeader(fs.target)
      BY <1>0, <1>6, <2>1, Zenon DEF Obeyed, Call, Replay
    <3>3. /\ g.step = "replay_t" /\ g.log = val /\ g.target = fs.target /\ g.acked = fs.acked
          /\ g.begun = fs.begun /\ g.v = fs.v /\ g.logged = fs.logged
      BY <1>1, Zenon DEF FsType
    <3> HIDE DEF g
    <3>4. \A t, x : Good(g, t, x) <=> Good(fs, t, x)
      BY <3>3, GoodKept, Zenon
    <3>5. Versions(g, d) /\ Log(g, d)
      BY <1>0, <3>3, <3>4, Zenon DEF Versions, Log
    <3>6. Replay(g, d) /\ SectorsRead(g) /\ WriteSteps(g, d)
      BY <3>2, <3>3, Zenon DEF Replay, SectorsRead, WriteSteps, Writing
    <3> QED
      BY <3>1, <3>5, <3>6, Zenon DEF FsSafe
  <2>2. CASE ~ok
    <3> DEFINE f == [fs EXCEPT !.target = "none"]
    <3>1. AfterMount(ok, val) = Mounted(f)
      BY <1>6, <2>2, Zenon DEF AfterMount
    <3>2. /\ f \in FsType /\ f.i = 1 /\ f.acked = fs.acked /\ f.begun = fs.begun /\ f.v = fs.v
          /\ f.logged = fs.logged
      BY <1>1, Zenon DEF FsType
    <3> HIDE DEF f
    <3> QED
      BY <1>0, <1>2, <3>1, <3>2, MountedSafe, Zenon
  <2> QED
    BY <2>1, <2>2, Zenon
<1>7. CASE fs.step = "replay_t"
  <2>1. CASE ok
    <3> DEFINE g == Replayed
               u == fs.target
    <3>1. AfterMount(ok, val) = g
      BY <1>7, <2>1, Zenon DEF AfterMount
    <3>2. /\ u \in Meta /\ d[u] = fs.log /\ d[WALH] = LogHeader(u) /\ fs.log = d[WALD]
      BY <1>0, <1>7, <2>1, Zenon DEF Obeyed, Call, Replay, FsOK
    <3>3. Good(fs, u, fs.log) /\ fs.log \in Val
      BY <1>1, <1>2, <3>2, Zenon DEF Usable, FsType
    <3>4. fs.log.w = "sector" /\ fs.log.v \in Nat /\ fs.acked[u] <= fs.log.v /\ fs.acked \in [Meta -> Nat]
      BY <1>1, <3>3, VersionType, Zenon DEF Good, Made, FsType
    <3>5. /\ g.step = "replay_c" /\ g.begun = fs.begun /\ g.v = fs.v /\ g.logged = fs.logged
          /\ \A t \in Meta : g.acked[t] = IF t = u /\ fs.log.v > fs.acked[t] THEN fs.log.v ELSE fs.acked[t]
      BY <1>1, <3>4, Zenon DEF Replayed, FsType
    <3> HIDE DEF g
    <3>6. \A t \in Meta : g.acked[t] = IF t = u THEN fs.log.v ELSE fs.acked[t]
      BY <3>2, <3>4, <3>5
    <3>7. Good(g, u, fs.log)
      BY <3>2, <3>3, <3>4, <3>5, <3>6 DEF Good
    <3>8. ASSUME NEW t \in Meta
          PROVE  Good(g, t, d[t]) /\ g.acked[t] <= g.begun[t] /\ g.begun[t] <= g.v
      <4>1. Good(fs, t, d[t]) /\ fs.acked[t] <= fs.begun[t] /\ fs.begun[t] <= fs.v
        BY <1>0, Zenon DEF Versions
      <4>2. CASE t = u
        BY <3>2, <3>3, <3>5, <3>6, <3>7, <4>1, <4>2, Zenon DEF Good
      <4>3. CASE t # u
        BY <3>5, <3>6, <4>1, <4>3, Zenon DEF Good
      <4> QED
        BY <4>2, <4>3, Zenon
    <3>9. Versions(g, d)
      BY <3>8, Zenon DEF Versions
    <3>10. \A t \in Meta : d[WALH] = LogHeader(t) => Good(g, t, d[WALD])
      BY <3>2, <3>7, HeaderFacts, Zenon
    <3>11. Log(g, d)
      BY <1>2, <3>5, <3>10, Zenon DEF Log
    <3> QED
      BY <3>1, <3>5, <3>9, <3>11, Zenon DEF FsSafe, Replay, SectorsRead, WriteSteps, Writing
  <2>2. CASE ~ok
    BY <1>3, <1>7, <2>2, Zenon DEF AfterMount
  <2> QED
    BY <2>1, <2>2, Zenon
<1>8. CASE fs.step = "replay_c"
  <2> DEFINE f == [fs EXCEPT !.target = "none", !.log = Clear, !.logged = @ /\ ~ok]
  <2>1. AfterMount(ok, val) = Mounted(f)
    BY <1>8, Zenon DEF AfterMount
  <2>2. /\ f \in FsType /\ f.i = 1 /\ f.acked = fs.acked /\ f.begun = fs.begun /\ f.v = fs.v
        /\ f.logged = (fs.logged /\ ~ok)
    BY <1>1, ValFacts, Zenon DEF FsType
  <2>3. ok => d[WALH] = Clear
    BY <1>8, Zenon DEF Obeyed, Call
  <2> HIDE DEF f
  <2>4. ~f.logged => d[WALH] = Clear
    BY <1>2, <2>2, <2>3, Zenon
  <2> QED
    BY <1>0, <2>1, <2>2, <2>4, MountedSafe, Zenon
<1> QED
  BY <1>4, <1>5, <1>6, <1>7, <1>8, Zenon DEF Replaying

(* Fat16.swift, walWriteSector: whatever its four calls return, the disk is   *)
(* safe unless the write stops between the two log writes.                    *)
LEMMA AfterWriteSafe ==
  ASSUME FsOK(fs), NEW d \in [Sectors -> Val], FsSafe(fs, d), fs.step \in Writing,
         NEW ok \in BOOLEAN, NEW val \in Val, Obeyed(ok, val, d), ~AfterWrite(ok, val).window
  PROVE  FsSafe(AfterWrite(ok, val), d)
<1>0. /\ Versions(fs, d) /\ Log(fs, d) /\ SectorsRead(fs) /\ WriteSteps(fs, d)
  BY Zenon DEF FsSafe
<1>1. /\ fs \in FsType /\ fs.i \in 1..Dir /\ fs.v \in Nat
      /\ fs.logged \in BOOLEAN /\ fs.window \in BOOLEAN /\ fs.begun \in [Meta -> Nat]
  BY Zenon DEF FsOK, FsType
<1>2. /\ Target \in Meta /\ Target = TargetOf(fs) /\ Changed = ChangedOf(fs) /\ Changed.v = fs.v
  BY <1>0, ChangedIs, Zenon
<1>3. /\ fs.begun[Target] = fs.v /\ (fs.logged <=> Safe) /\ (fs.step # "target" => Safe)
  BY <1>0, <1>2, Zenon DEF WriteSteps, Safe, Writing
<1>4. Good(fs, Target, Changed)
  BY <1>0, <1>2, <1>3, ChangedGood, Zenon DEF Versions
<1>5. fs.step \in {"log_h", "log_d"} => Stopped.window
  <2>1. Over \in FsType
    BY OverType, Zenon DEF FsOK
  <2> QED
    BY <2>1, Zenon DEF Stopped, FsType
<1>6. ASSUME NEW s \in {"log_d", "target", "log_c"}
      PROVE  /\ Go(s) \in FsType /\ Go(s).step = s /\ Go(s).i = fs.i /\ Go(s).v = fs.v /\ Go(s).kind = fs.kind
             /\ Go(s).sec = fs.sec /\ Go(s).logged = fs.logged /\ Go(s).begun = fs.begun
             /\ Go(s).acked = fs.acked
             /\ \A t, x : Good(Go(s), t, x) <=> Good(fs, t, x)
             /\ Versions(Go(s), d) /\ SectorsRead(Go(s)) /\ Replay(Go(s), d)
             /\ TargetOf(Go(s)) = Target /\ ChangedOf(Go(s)) = Changed
  <2> DEFINE g == Go(s)
  <2>1. /\ g \in FsType /\ g.step = s /\ g.i = fs.i /\ g.v = fs.v /\ g.kind = fs.kind
        /\ g.sec = fs.sec /\ g.logged = fs.logged /\ g.begun = fs.begun /\ g.acked = fs.acked
    BY <1>1, Zenon DEF Go, FsType, Steps, Writing
  <2> HIDE DEF g
  <2>2. \A t, x : Good(g, t, x) <=> Good(fs, t, x)
    BY <2>1, GoodKept, Zenon
  <2>3. Versions(g, d)
    BY <1>0, <2>1, <2>2, Zenon DEF Versions
  <2>4. SectorsRead(g) /\ Replay(g, d)
    BY <1>0, <2>1, Zenon DEF SectorsRead, Replay, Writing
  <2>5. TargetOf(g) = Target /\ ChangedOf(g) = Changed
    BY <1>2, <2>1, Zenon DEF TargetOf, ChangedOf
  <2> QED
    BY <2>1, <2>2, <2>3, <2>4, <2>5, Zenon DEF g
<1>7. CASE fs.step = "log_h"
  <2>1. ok
    BY <1>5, <1>7, Zenon DEF AfterWrite
  <2>2. AfterWrite(ok, val) = Go("log_d")
    BY <1>7, <2>1, Zenon DEF AfterWrite
  <2>3. d[WALH] = LogHeader(Target)
    BY <1>7, <2>1, Zenon DEF Obeyed, Call
  <2>4. Log(Go("log_d"), d)
    BY <1>2, <1>3, <1>6, <1>7, <2>3, Zenon DEF Log
  <2>5. WriteSteps(Go("log_d"), d)
    BY <1>3, <1>6, <1>7, <2>3, Zenon DEF WriteSteps, Safe
  <2> QED
    BY <1>6, <2>2, <2>4, <2>5, Zenon DEF FsSafe
<1>8. CASE fs.step = "log_d"
  <2>1. ok
    BY <1>5, <1>8, Zenon DEF AfterWrite
  <2>2. d[WALH] = LogHeader(Target) /\ d[WALD] = Changed
    BY <1>0, <1>2, <1>8, <2>1, Zenon DEF Obeyed, Call, WriteSteps
  <2>3. Usable(fs, d)
    BY <1>2, <1>4, <2>2, HeaderFacts, Zenon DEF Usable
  <2>4. CASE fs.kind = "crash_test" /\ fs.i = Dir
    <3> DEFINE g == [Over EXCEPT !.step = "boot", !.kind = "reread"]
    <3>1. AfterWrite(ok, val) = g
      BY <1>8, <2>1, <2>4, Zenon DEF AfterWrite
    <3>2. Over \in FsType
      BY OverType, Zenon DEF FsOK
    <3>3. /\ Over.acked = fs.acked /\ Over.begun = fs.begun /\ Over.v = fs.v /\ Over.logged = fs.logged
      BY <1>1, Zenon DEF Over, FsType
    <3>4. /\ g \in FsType /\ g.step = "boot" /\ g.acked = Over.acked /\ g.begun = Over.begun
          /\ g.v = Over.v /\ g.logged = Over.logged
      BY <3>2, Zenon DEF FsType, Steps, Kinds
    <3> HIDE DEF g
    <3>5. g.logged /\ g.v >= fs.v
      BY <1>1, <1>3, <1>8, <3>3, <3>4
    <3>6. FsSafe(g, d)
      BY <1>0, <1>1, <1>2, <2>2, <2>3, <3>3, <3>4, <3>5, QuietSafe, Zenon
    <3> QED
      BY <3>1, <3>6, Zenon
  <2>5. CASE ~(fs.kind = "crash_test" /\ fs.i = Dir)
    <3>1. AfterWrite(ok, val) = Go("target")
      BY <1>8, <2>1, <2>5, Zenon DEF AfterWrite
    <3>2. Log(Go("target"), d)
      BY <1>2, <1>3, <1>6, <1>8, <2>2, <2>3, Zenon DEF Log, Usable
    <3>3. WriteSteps(Go("target"), d)
      BY <1>3, <1>6, <1>8, <2>2, Zenon DEF WriteSteps, Safe, Writing
    <3> QED
      BY <1>6, <3>1, <3>2, <3>3, Zenon DEF FsSafe
  <2> QED
    BY <2>4, <2>5, Zenon
<1>9. CASE fs.step = "target"
  <2>1. CASE ~ok
    <3>1. AfterWrite(ok, val) = Stopped
      BY <1>9, <2>1, Zenon DEF AfterWrite
    <3> QED
      BY <1>9, <3>1, OverSafe, Zenon
  <2>2. CASE ok /\ Safe
    <3> DEFINE g == Go("log_c")
    <3>1. d[Target] = Changed /\ d[WALH] = LogHeader(Target) /\ d[WALD] = Changed
      BY <1>0, <1>2, <1>9, <2>2, Zenon DEF Obeyed, Call, WriteSteps, Safe
    <3>2. Log(g, d)
      BY <1>0, <1>3, <1>6, <1>9, Zenon DEF Log
    <3>3. WriteSteps(g, d)
      BY <1>3, <1>6, <2>2, Zenon DEF WriteSteps, Safe, Writing
    <3>4. FsSafe(g, d) /\ g \in FsType /\ g.v = fs.v /\ g.begun = fs.begun
      BY <1>6, <3>2, <3>3, Zenon DEF FsSafe
    <3>5. AfterWrite(ok, val) = [fs EXCEPT !.step = "log_c", !.acked[Target] = fs.v]
      BY <1>9, <2>2, Zenon DEF AfterWrite
    <3>6. [fs EXCEPT !.step = "log_c", !.acked[Target] = fs.v] = [g EXCEPT !.acked[Target] = fs.v]
      BY <1>1, Zenon DEF Go, FsType
    <3> HIDE DEF g
    <3>7. FsSafe([g EXCEPT !.acked[Target] = g.v], d)
      BY <1>2, <1>3, <3>1, <3>4, AckSafe, Zenon
    <3> QED
      BY <3>4, <3>5, <3>6, <3>7, Zenon
  <2>3. CASE ok /\ ~Safe
    <3> DEFINE g == NextSector
    <3>1. d[Target] = Changed /\ d[WALH] = Clear
      BY <1>0, <1>3, <1>9, <2>3, Zenon DEF Obeyed, Call, Log
    <3>2. AfterWrite(ok, val) = [g EXCEPT !.acked[Target] = fs.v]
      BY <1>9, <2>3, Zenon DEF AfterWrite
    <3>3. g \in FsType
      BY NextSectorType, Zenon DEF FsOK
    <3>4. ~g.window
      <4>1. [g EXCEPT !.acked[Target] = fs.v].window = g.window
        BY <3>3, Zenon DEF FsType
      <4> QED
        BY <3>2, <4>1, Zenon
    <3>5. FsSafe(g, d) /\ g.v = fs.v /\ g.begun[Target] = fs.v
      BY <1>2, <1>3, <1>9, <3>4, NextSectorSafe, Zenon
    <3> HIDE DEF g
    <3>6. FsSafe([g EXCEPT !.acked[Target] = g.v], d)
      BY <1>2, <3>1, <3>3, <3>5, AckSafe, HeaderFacts, Zenon
    <3> QED
      BY <3>2, <3>5, <3>6, Zenon
  <2> QED
    BY <2>1, <2>2, <2>3, Zenon
<1>10. CASE fs.step = "log_c"
  <2> DEFINE g == NextSector
             l == g.logged /\ (~ok \/ fs.i + 1 < Dir)
  <2>1. AfterWrite(ok, val) = [g EXCEPT !.logged = l]
    BY <1>10, Zenon DEF AfterWrite
  <2>2. g \in FsType
    BY NextSectorType, Zenon DEF FsOK
  <2>3. ~g.window
    <3>1. [g EXCEPT !.logged = l].window = g.window
      BY <2>2, Zenon DEF FsType
    <3> QED
      BY <2>1, <3>1, Zenon
  <2>4. /\ FsSafe(g, d)
        /\ g.step \notin Writing \/ (g.step = "log_h" /\ fs.i + 1 < Dir) \/ (g.step = "target" /\ ~Safe)
    BY <1>10, <2>3, NextSectorSafe, Zenon
  <2> HIDE DEF g
  <2>5. g.step \in Writing => (l <=> g.logged)
    BY <1>3, <1>10, <2>4, Zenon
  <2>6. ok => d[WALH] = Clear
    BY <1>10, Zenon DEF Obeyed, Call
  <2>7. ~g.logged => d[WALH] = Clear
    BY <2>4, Zenon DEF FsSafe, Log
  <2>8. ~l => d[WALH] = Clear
    <3>1. CASE ok
      BY <2>6, <3>1, Zenon
    <3>2. CASE ~ok
      BY <2>7, <3>2, Zenon
    <3> QED
      BY <3>1, <3>2, Zenon
  <2>9. l \in BOOLEAN
    BY Zenon
  <2> HIDE DEF l
  <2>10. FsSafe([g EXCEPT !.logged = l], d)
    BY <2>2, <2>4, <2>5, <2>8, <2>9, LoggedSafe, Zenon
  <2> QED
    BY <2>1, <2>10, Zenon
<1> QED
  BY <1>7, <1>8, <1>9, <1>10, Zenon DEF Writing

(* Fat16.swift: whatever a block call returns, the disk is safe unless the    *)
(* operation just entered the window.                                         *)
LEMMA AfterSafe ==
  ASSUME FsOK(fs), NEW d \in [Sectors -> Val], FsSafe(fs, d), fs.step # "idle",
         NEW ok \in BOOLEAN, NEW val \in Val, Obeyed(ok, val, d), ~After(ok, val).window
  PROVE  FsSafe(After(ok, val), d)
<1>0. Versions(fs, d) /\ Log(fs, d) /\ SectorsRead(fs)
  BY Zenon DEF FsSafe
<1>1. /\ fs \in FsType /\ fs.step \in Steps /\ fs.i \in 1..Dir /\ fs.sec \in [1..Dir -> Val]
      /\ Dir \in 1..Dir /\ 1 \in 1..Dir /\ 1 # Dir /\ sectorsPerFAT \in 1..(Dir - 1) /\ Dir \in Nat
  BY SectorFacts DEF FsOK, FsType
<1>2. fs.step \notin {"log_h", "log_d"} => FsSafe(Over, d)
  BY OverSafe, Zenon
<1>3. \A k \in 1..Dir : Made(MetaSectors[Source(k)], d[MetaSectors[k]])
  BY <1>0, OriginIs, SectorFacts, Zenon DEF Versions, Good
<1>4. CASE fs.step \in {"boot"} \cup Replaying
  BY <1>4, AfterMountSafe, Zenon DEF After, Replaying
<1>5. CASE fs.step \in Writing
  <2>1. After(ok, val) = AfterWrite(ok, val)
    BY <1>5, Zenon DEF After, Writing
  <2> QED
    BY <1>5, <2>1, AfterWriteSafe, Zenon
<1>6. CASE fs.step = "read_fat"
  <2>1. CASE ~ok
    BY <1>2, <1>6, <2>1, Zenon DEF After
  <2>2. CASE ok
    <3> DEFINE s == Read(val)
    <3>1. s \in [1..Dir -> Val] /\ \A k \in 1..Dir : s[k] = IF k = fs.i THEN val ELSE fs.sec[k]
      BY <1>1, Zenon DEF Read
    <3>2. fs.i <= sectorsPerFAT /\ val = d[MetaSectors[fs.i]]
      BY <1>6, <2>2, Zenon DEF Obeyed, Call, FsOK
    <3>3. Made(MetaSectors[fs.i], val)
      BY <1>1, <1>3, <3>2, SourceFacts
    <3> HIDE DEF s
    <3>4. \A k \in 1..fs.i : Made(MetaSectors[k], s[k])
      BY <1>0, <1>1, <1>6, <3>1, <3>3 DEF SectorsRead
    <3>5. CASE fs.i < sectorsPerFAT
      <4> DEFINE g == [fs EXCEPT !.i = @ + 1, !.sec = s]
      <4>1. After(ok, val) = g
        BY <1>6, <2>2, <3>5, Zenon DEF After, s
      <4>2. /\ g.step = "read_fat" /\ g.i = fs.i + 1 /\ g.sec = s /\ g.acked = fs.acked
            /\ g.begun = fs.begun /\ g.v = fs.v /\ g.logged = fs.logged
        BY <1>1, <1>6, Zenon DEF FsType
      <4> HIDE DEF g
      <4>3. \A t, x : Good(g, t, x) <=> Good(fs, t, x)
        BY <4>2, GoodKept, Zenon
      <4>4. Versions(g, d) /\ Log(g, d)
        BY <1>0, <1>6, <4>2, <4>3, Zenon DEF Versions, Log
      <4>5. g.i - 1 = fs.i
        BY <1>1, <4>2
      <4>6. SectorsRead(g)
        BY <3>4, <4>2, <4>5, Zenon DEF SectorsRead, Writing
      <4> QED
        BY <4>1, <4>2, <4>4, <4>6, Zenon DEF FsSafe, Replay, WriteSteps, Writing
    <3>6. CASE ~(fs.i < sectorsPerFAT)
      <4>1. \A k \in 1..sectorsPerFAT : Made(MetaSectors[k], s[k])
        BY <1>1, <3>2, <3>4, <3>6
      <4>2. CASE fs.kind = "delete"
        <5>1. After(ok, val) = Begin(1, s)
          BY <1>6, <2>2, <3>6, <4>2, Zenon DEF After, s
        <5> QED
          BY <1>0, <1>1, <1>6, <3>1, <4>1, <5>1, BeginSafe, Zenon
      <4>3. CASE fs.kind # "delete"
        <5> DEFINE g == [fs EXCEPT !.step = "data", !.i = 1, !.sec = s]
        <5>1. After(ok, val) = g
          BY <1>6, <2>2, <3>6, <4>3, Zenon DEF After, s
        <5>2. /\ g.step = "data" /\ g.sec = s /\ g.acked = fs.acked
              /\ g.begun = fs.begun /\ g.v = fs.v /\ g.logged = fs.logged
          BY <1>1, Zenon DEF FsType
        <5> HIDE DEF g
        <5>3. \A t, x : Good(g, t, x) <=> Good(fs, t, x)
          BY <5>2, GoodKept, Zenon
        <5>4. Versions(g, d) /\ Log(g, d)
          BY <1>0, <1>6, <5>2, <5>3, Zenon DEF Versions, Log
        <5>5. SectorsRead(g)
          BY <4>1, <5>2, Zenon DEF SectorsRead, Writing
        <5> QED
          BY <5>1, <5>2, <5>4, <5>5, Zenon DEF FsSafe, Replay, WriteSteps, Writing
      <4> QED
        BY <4>2, <4>3, Zenon
    <3> QED
      BY <3>5, <3>6, Zenon
  <2> QED
    BY <2>1, <2>2, Zenon
<1>7. CASE fs.step = "data"
  <2>1. CASE ok
    <3>1. After(ok, val) = Begin(1, fs.sec) /\ \A k \in 1..sectorsPerFAT : Made(MetaSectors[k], fs.sec[k])
      BY <1>0, <1>7, <2>1, Zenon DEF After, SectorsRead
    <3> QED
      BY <1>0, <1>1, <1>7, <3>1, BeginSafe, Zenon
  <2> QED
    BY <1>2, <1>7, <2>1, Zenon DEF After
<1>8. CASE fs.step = "read_dir"
  <2>1. CASE ok
    <3> DEFINE s == [fs.sec EXCEPT ![Dir] = val]
    <3>1. s \in [1..Dir -> Val] /\ s[Dir] = val /\ \A k \in 1..sectorsPerFAT : s[k] = fs.sec[k]
      BY <1>1
    <3>2. After(ok, val) = Begin(Dir, s)
      BY <1>8, <2>1, Zenon DEF After
    <3>3. val = d[MetaSectors[Dir]]
      BY <1>8, <2>1, Zenon DEF Obeyed, Call
    <3>4. Made(MetaSectors[Dir], val)
      BY <1>1, <1>3, <3>3, SourceFacts, Zenon
    <3> HIDE DEF s
    <3>5. \A k \in 1..sectorsPerFAT : Made(MetaSectors[k], s[k])
      BY <1>0, <1>8, <3>1, Zenon DEF SectorsRead
    <3> QED
      BY <1>0, <1>1, <1>8, <3>1, <3>2, <3>4, <3>5, BeginSafe, Zenon
  <2> QED
    BY <1>2, <1>8, <2>1, Zenon DEF After
<1> QED
  BY <1>1, <1>4, <1>5, <1>6, <1>7, <1>8, Zenon DEF Steps

(* Once the window was entered, the ghost says so for good. *)
LEMMA WindowStays ==
  ASSUME FsOK(fs), fs.step # "idle", fs.window, NEW ok \in BOOLEAN, NEW val
  PROVE  After(ok, val).window /\ Stopped.window
<1>1. fs \in FsType /\ fs.step \in Steps
  BY Zenon DEF FsOK, FsType
<1>2. Over \in FsType /\ Over.window /\ Stopped.window
  <2>1. Over \in FsType
    BY OverType, Zenon DEF FsOK
  <2>2. Over.window
    BY <1>1, Zenon DEF Over, FsType
  <2> QED
    BY <2>1, <2>2, Zenon DEF Stopped, FsType
<1>3. \A k, sec : Begin(k, sec).window
  BY <1>1, Zenon DEF Begin, FsType
<1>4. \A s : Go(s).window
  BY <1>1, Zenon DEF Go, FsType
<1>5. NextSector \in FsType /\ NextSector.window
  BY <1>2, <1>3, <1>4, NextSectorType, Zenon DEF NextSector, FsOK
<1>6. ASSUME NEW f, DOMAIN f = DOMAIN fs, f.window PROVE Mounted(f).window
  BY <1>1, <1>6, Zenon DEF Mounted, FsType
<1>7. CASE fs.step \in Writing
  <2>1. After(ok, val) = AfterWrite(ok, val)
    BY <1>7, Zenon DEF After, Writing
  <2>2. AfterWrite(ok, val).window
    BY <1>1, <1>2, <1>4, <1>5, <1>7, Zenon DEF AfterWrite, FsType, Writing
  <2> QED
    BY <1>2, <2>1, <2>2, Zenon
<1>8. CASE fs.step \in {"boot"} \cup Replaying
  <2>1. After(ok, val) = AfterMount(ok, val)
    BY <1>8, Zenon DEF After, Replaying
  <2>2. Replayed.window
    BY <1>1, Zenon DEF Replayed, FsType
  <2>3. AfterMount(ok, val).window
    BY <1>1, <1>2, <1>4, <1>6, <1>8, <2>2, Zenon DEF AfterMount, FsType, Replaying
  <2> QED
    BY <1>2, <2>1, <2>3, Zenon
<1>9. CASE fs.step \in {"read_fat", "data", "read_dir"}
  BY <1>1, <1>2, <1>3, <1>9, Zenon DEF After, FsType
<1> QED
  BY <1>1, <1>7, <1>8, <1>9, Zenon DEF Steps

(* Power on: a fresh disk is safe. *)
LEMMA SafeInit == Init => FsInv
<1> SUFFICES ASSUME Init PROVE FsSafe(fs, disk)
  BY Zenon DEF FsInv
<1>1. /\ fs.step = "idle" /\ fs.v = 0 /\ fs.logged = FALSE
      /\ \A t \in Meta : fs.begun[t] = 0 /\ fs.acked[t] = 0
  BY Zenon DEF Init, FsInit
<1>2. disk = FreshDisk
  BY Zenon DEF Init
<1>3. disk[WALH] = Clear
  BY <1>2, SectorFacts, Zenon DEF FreshDisk
<1>4. \A t \in Meta : disk[t] = Content(Origin(t), 0)
  BY <1>2, SectorFacts, Zenon DEF FreshDisk
<1>5. Versions(fs, disk)
  <2>1. ASSUME NEW t \in Meta PROVE disk[t].w = "sector" /\ disk[t].of = Origin(t) /\ disk[t].v = 0
    <3>1. disk[t] = Content(Origin(t), 0)
      BY <1>4, Zenon
    <3>2. Content(Origin(t), 0).w = "sector" /\ Content(Origin(t), 0).of = Origin(t)
          /\ Content(Origin(t), 0).v = 0
      BY Zenon DEF Content
    <3> QED
      BY <3>1, <3>2, Zenon
  <2> QED
    BY <1>1, <2>1 DEF Versions, Good, Made
<1>6. Log(fs, disk)
  BY <1>1, <1>3, HeaderFacts, Zenon DEF Log
<1> QED
  BY <1>1, <1>5, <1>6, Zenon DEF FsSafe, Replay, SectorsRead, WriteSteps, Writing

(* The shell starts the next operation. *)
LEMMA StartSafe ==
  ASSUME FsOK(fs), NEW kind \in Kinds, NEW d, FsSafe(fs, d), StartOperation(kind)
  PROVE  FsSafe(fs', d)
<1> DEFINE g == [fs EXCEPT !.step = "boot", !.kind = kind, !.v = fs.v + 1]
<1>1. fs \in FsType /\ fs.step = "idle" /\ fs' = g
  BY Zenon DEF FsOK, StartOperation
<1>2. fs.v \in Nat /\ fs.v + 1 \in Nat /\ fs.v + 1 >= fs.v
  <2>1. fs.v \in Nat
    BY <1>1, Zenon DEF FsType
  <2> QED
    BY <2>1
<1>3. /\ g.step = "boot" /\ g.acked = fs.acked /\ g.begun = fs.begun
      /\ g.v = fs.v + 1 /\ g.logged = fs.logged /\ g \in FsType
  <2> DEFINE n == fs.v + 1
  <2>1. n \in Nat
    BY <1>2, Zenon
  <2> HIDE DEF n
  <2>2. [fs EXCEPT !.step = "boot", !.kind = kind, !.v = n] \in FsType
    BY <1>1, <2>1, Zenon DEF FsType, Steps
  <2>3. g \in FsType
    BY <2>2, Zenon DEF n
  <2> QED
    BY <1>1, <2>3, Zenon DEF FsType
<1> HIDE DEF g
<1>4. Versions(fs, d) /\ Usable(fs, d) /\ (d[WALH] = Clear \/ \E t \in Meta : d[WALH] = LogHeader(t))
      /\ (~fs.logged => d[WALH] = Clear)
  BY <1>1, Zenon DEF FsSafe, Log, Usable
<1>5. FsSafe(g, d)
  BY <1>1, <1>2, <1>3, <1>4, QuietSafe, Zenon
<1> QED
  BY <1>1, <1>5, Zenon

(* Neither a time-out nor the window is ever forgotten. *)
LEMMA GhostsStay ==
  ASSUME TypeInv, [Next]_vars
  PROVE  (faults.late => faults'.late) /\ (fs.window => fs'.window)
<1>0. FsOK(fs) /\ blk.buf \in Val /\ Clear \in Val
  BY ValFacts, Zenon DEF TypeInv, BlkType
<1>1. CASE UNCHANGED vars \/ Aside
  BY <1>1, Zenon DEF vars, blkVars, Aside
<1>2. CASE hal_block_init
  BY <1>2, Zenon DEF hal_block_init, virtio_blk_init
<1>3. CASE block_sanity_test
  BY <1>3, Zenon DEF block_sanity_test, Submit
<1>4. CASE SanityReturns
  <2>1. UNCHANGED fs /\ (UNCHANGED faults \/ Fault("timeout"))
    BY <1>4, Zenon DEF SanityReturns, Polled, TimedOut
  <2> QED
    BY <2>1, FaultType, Zenon
<1>5. CASE StartFile
  <2>1. UNCHANGED faults /\ \E kind : fs' = [fs EXCEPT !.step = "boot", !.kind = kind, !.v = @ + 1]
    BY <1>5, Zenon DEF StartFile, StartOperation, blkVars
  <2> QED
    BY <1>0, <2>1, Zenon DEF FsOK, FsType
<1>6. CASE BlockCall
  <2>1. UNCHANGED faults /\ fs.step # "idle" /\ (UNCHANGED fs \/ fs' = After(FALSE, Clear))
    BY <1>6, Zenon DEF BlockCall, Submit, blkVars
  <2> QED
    BY <1>0, <2>1, WindowStays, Zenon
<1>7. CASE BlockReturns
  <2>1. fs.step # "idle" /\ (UNCHANGED faults \/ Fault("timeout"))
    BY <1>7, Zenon DEF BlockReturns, Polled, TimedOut
  <2>2. fs' = After(TRUE, blk.buf) \/ fs' = After(FALSE, blk.buf)
    BY <1>7, Zenon DEF BlockReturns
  <2>3. fs.window => fs'.window
    BY <1>0, <2>1, <2>2, WindowStays, Zenon
  <2> QED
    BY <2>1, <2>3, FaultType, Zenon
<1>8. CASE Disk
  <2>1. UNCHANGED fs /\ (UNCHANGED faults \/ Fault("error"))
    BY <1>8, Zenon DEF Disk, DeviceFetches, DeviceCompletes
  <2> QED
    BY <2>1, FaultType, Zenon
<1>9. CASE Crash
  <2>1. Fault("crash") /\ fs' = Stopped
    BY <1>9, Zenon DEF Crash
  <2>2. Over \in FsType
    BY <1>0, OverType, Zenon DEF FsOK
  <2>3. Over.window = fs.window
    BY <1>0, Zenon DEF Over, FsOK, FsType
  <2>4. fs.window => Stopped.window
    BY <2>2, <2>3, Zenon DEF Stopped, FsType
  <2> QED
    BY <2>1, <2>4, FaultType, Zenon
<1> QED
  BY <1>1, <1>2, <1>3, <1>4, <1>5, <1>6, <1>7, <1>8, <1>9, StepKinds, Zenon

(* Every step of the machine leaves the disk safe, or the exception is on     *)
(* record.                                                                    *)
LEMMA FsStep ==
  ASSUME TypeInv, BlkInv, Calling, blk.late => faults.late, FsInv, [Next]_vars
  PROVE  FsInv'
<1> SUFFICES ASSUME ~fs'.window, ~faults'.late PROVE FsSafe(fs, disk)'
  BY Zenon DEF FsInv
<1>0. /\ FsOK(fs) /\ disk \in [Sectors -> Val] /\ blk.buf \in Val /\ Clear \in Val /\ fs \in FsType
  BY ValFacts, Zenon DEF TypeInv, BlkType, FsOK
<1>1. FsSafe(fs, disk) /\ ~blk.late
  BY GhostsStay, Zenon DEF FsInv
<1>2. CASE UNCHANGED <<fs, disk>>
  BY <1>1, <1>2, Zenon DEF FsSafe, Versions, Log, Replay, SectorsRead, WriteSteps, Good, TargetOf, ChangedOf
<1>3. CASE StartFile
  <2>1. PICK kind \in env.kinds : StartOperation(kind)
    BY <1>3, Zenon DEF StartFile
  <2>2. kind \in Kinds /\ disk' = disk
    BY <1>3, <2>1, Zenon DEF Kinds, TypeInv, StartFile, blkVars
  <2>3. FsSafe(fs', disk)
    BY <1>0, <1>1, <2>1, <2>2, StartSafe, Zenon
  <2> QED
    BY <2>2, <2>3, Zenon
<1>4. CASE BlockCall /\ ~blk.ready
  <2>1. fs' = After(FALSE, Clear) /\ disk' = disk /\ fs.step # "idle"
    BY <1>4, Zenon DEF BlockCall, blkVars
  <2>2. FsSafe(After(FALSE, Clear), disk)
    BY <1>0, <1>1, <2>1, AfterSafe, Zenon DEF Obeyed
  <2> QED
    BY <2>1, <2>2, Zenon
<1>5. CASE BlockReturns
  <2>1. disk' = disk /\ fs.step # "idle" /\ pc = "poll"
    BY <1>5, Zenon DEF BlockReturns
  <2>2. CASE fs' = After(FALSE, blk.buf)
    <3>1. FsSafe(After(FALSE, blk.buf), disk)
      BY <1>0, <1>1, <2>1, <2>2, AfterSafe, Zenon DEF Obeyed
    <3> QED
      BY <2>1, <2>2, <3>1, Zenon
  <2>3. CASE PolledOk /\ fs' = After(TRUE, blk.buf)
    <3>1. blk.req = [type |-> Call[1], sector |-> Call[2]] /\ blk.want = Call[3]
      BY <2>1, <2>3, Zenon DEF Calling, PolledOk
    <3>2. TrueMeansDone
      BY OkIsDone, Zenon
    <3>3. disk[blk.req.sector] = IF blk.req.type = "out" THEN blk.want ELSE blk.buf
      BY <1>1, <2>3, <3>2, Zenon DEF TrueMeansDone
    <3>4. Obeyed(TRUE, blk.buf, disk)
      BY <3>1, <3>3 DEF Obeyed
    <3>5. FsSafe(After(TRUE, blk.buf), disk)
      BY <1>0, <1>1, <2>1, <2>3, <3>4, AfterSafe, Zenon
    <3> QED
      BY <2>1, <2>3, <3>5, Zenon
  <2> QED
    BY <1>5, <2>2, <2>3, Zenon DEF BlockReturns
<1>6. CASE Disk
  <2>1. UNCHANGED fs
    BY <1>6, Zenon DEF Disk
  <2>2. CASE disk' # disk
    <3>1. blk.busy /\ blk.req.type = "out" /\ disk' = [disk EXCEPT ![blk.req.sector] = blk.want]
      BY <1>1, <1>6, <2>2, DiskInv, Zenon
    <3>2. blk.req = [type |-> Call[1], sector |-> Call[2]] /\ blk.want = Call[3] /\ fs.step # "idle"
      BY <3>1 DEF Calling
    <3>3. Call[1] = "out" /\ disk' = [disk EXCEPT ![Call[2]] = Call[3]]
      BY <3>1, <3>2
    <3>4. fs.step \in {"replay_t", "replay_c", "data"} \cup Writing
      <4>1. fs.step \in Steps
        BY <1>0, Zenon DEF FsType
      <4> QED
        BY <3>2, <3>3, <4>1, Zenon DEF Call, Steps, Replaying, Writing
    <3>5. FsSafe(fs, [disk EXCEPT ![Call[2]] = Call[3]])
      BY <1>0, <1>1, <3>4, WriteKeeps, Zenon
    <3>6. FsSafe(fs, disk')
      BY <3>3, <3>5, Zenon
    <3> QED
      BY <2>1, <3>6, Zenon DEF FsSafe, Versions, Log, Replay, SectorsRead, WriteSteps, Good, TargetOf, ChangedOf
  <2> QED
    BY <1>2, <2>1, <2>2, Zenon
<1>7. CASE Crash
  <2>1. fs' = Stopped /\ disk' = disk
    BY <1>7, Zenon DEF Crash
  <2>2. fs.step \notin {"log_h", "log_d"}
    <3>1. Over \in FsType
      BY <1>0, OverType, Zenon DEF FsOK
    <3>2. fs.step \in {"log_h", "log_d"} => Stopped.window
      BY <3>1, Zenon DEF Stopped, FsType
    <3> QED
      BY <2>1, <3>2, Zenon
  <2>3. FsSafe(Stopped, disk)
    BY <1>0, <1>1, <2>2, OverSafe, Zenon
  <2> QED
    BY <2>1, <2>3, Zenon
<1>8. ASSUME Next PROVE UNCHANGED <<fs, disk>> \/ StartFile \/ (BlockCall /\ ~blk.ready)
                          \/ BlockReturns \/ Disk \/ Crash
  BY <1>8, StepKinds, Zenon DEF Aside, hal_block_init, virtio_blk_init, block_sanity_test, Submit, SanityReturns,
                         BlockCall
<1> QED
  BY <1>2, <1>3, <1>4, <1>5, <1>6, <1>7, <1>8, Zenon DEF vars, blkVars

(* Fat16.swift on virtio_blk.c: over failed calls, power failures and replays *)
(* a metadata sector holds the last acknowledged version of itself or one     *)
(* begun after it - except where a write stopped between the two log writes   *)
(* (or a call timed out).  For any number of FAT sectors and copies, any      *)
(* operations and any number of faults.                                       *)
THEOREM SectorsAreWhole == Spec => []OnlyTheLogWindowTearsASector
<1> DEFINE I == TypeInv /\ BlkInv /\ Calling /\ (blk.late => faults.late) /\ FsInv
<1>1. Init => I
  <2>1. Init => Calling /\ (blk.late => faults.late)
    BY DEF Init, BlkOff, Calling
  <2> QED
    BY <2>1, TypeInit, BlkInit, SafeInit, Zenon
<1>2. I /\ [Next]_vars => I'
  BY TypeStep, BlkStep, CallingStep, FsStep, Zenon
<1>3. I => OnlyTheLogWindowTearsASector
  <2> SUFFICES ASSUME FsInv, TypeInv PROVE OnlyTheLogWindowTearsASector
    BY Zenon
  <2>1. ASSUME FsSafe(fs, disk), NEW t \in Meta
        PROVE  /\ disk[t].w = "sector" /\ disk[t].of = Origin(t)
               /\ disk[t].v >= fs.acked[t] /\ disk[t].v <= fs.begun[t]
    <3>1. Good(fs, t, disk[t])
      BY <2>1, Zenon DEF FsSafe, Versions
    <3>2. disk[t].v \in Nat /\ fs.acked[t] \in Nat
      BY <3>1, SectorFacts, VersionType, Zenon DEF TypeInv, FsOK, FsType, Good, Made
    <3> QED
      BY <3>1, <3>2, Zenon DEF Good, Made
  <2> QED
    BY <2>1, Zenon DEF FsInv, OnlyTheLogWindowTearsASector
<1> QED
  BY <1>1, <1>2, <1>3, PTL DEF Spec

(* -------------------------------- the console ----------------------------- *)

(* The members of D that s holds, by their places, each shown by its value. *)
Picked(s, D, val) == [k \in {k \in DOMAIN s : s[k] \in D} |-> val[s[k]]]

(* Before compares what two queues hold. *)
LEMMA BeforeHeld ==
  ASSUME NEW f, NEW g
  PROVE  Before(f, g) <=> \A x \in Held(f), y \in Held(g) : x < y
  BY Zenon DEF Before, Held

(* What is appended to a queue is the last of what it holds. *)
Appended(s, m, D, val) ==
  LET f == Picked(s, D, val)
      g == Picked(Append(s, m), D, val)
  IN /\ m \notin D => Rising(g) /\ Held(g) = Held(f)
     /\ m \in D /\ (\A x \in Held(f) : x < val[m]) => Rising(g) /\ Held(g) = Held(f) \cup {val[m]}

(* A queue in rising order stays so when what is appended comes after all it  *)
(* holds.                                                                     *)
LEMMA PickedAppend ==
  ASSUME NEW S, NEW D \in SUBSET S, NEW val \in [D -> Nat], NEW s \in Seq(S), NEW m \in S,
         Rising(Picked(s, D, val))
  PROVE  Appended(s, m, D, val)
<1> DEFINE f == Picked(s, D, val)
           a == Append(s, m)
           g == Picked(a, D, val)
           n == Len(s) + 1
<1>1. /\ a \in Seq(S) /\ DOMAIN s = 1..Len(s) /\ DOMAIN a = 1..n /\ n \in Nat /\ Len(s) \in Nat
      /\ a[n] = m /\ \A k \in 1..Len(s) : a[k] = s[k]
  OBVIOUS
<1> HIDE DEF a
<1>2. DOMAIN f = {k \in 1..Len(s) : s[k] \in D} /\ DOMAIN g = {k \in 1..n : a[k] \in D}
  BY <1>1, Zenon DEF Picked
<1>3. /\ \A k \in DOMAIN f : f[k] = val[s[k]] /\ f[k] \in Nat
      /\ \A k \in DOMAIN g : g[k] = val[a[k]] /\ g[k] \in Nat
  BY <1>1, Zenon DEF Picked
<1>4. \A j, k \in DOMAIN f : j < k => f[j] < f[k]
  BY Zenon DEF Rising
<1> HIDE DEF f, g
<1>5. ASSUME m \notin D
      PROVE  DOMAIN g = DOMAIN f /\ \A k \in DOMAIN f : g[k] = f[k]
  BY <1>1, <1>2, <1>3, <1>5
<1>6. ASSUME m \notin D
      PROVE  Rising(g) /\ Held(g) = Held(f)
  BY <1>4, <1>5, <1>6 DEF Rising, Held
<1>7. ASSUME m \in D, \A x \in Held(f) : x < val[m]
      PROVE  Rising(g) /\ Held(g) = Held(f) \cup {val[m]}
  <2>1. /\ DOMAIN g = DOMAIN f \cup {n} /\ g[n] = val[m] /\ \A k \in DOMAIN f : g[k] = f[k]
        /\ \A k \in DOMAIN f : k \in Nat /\ k < n
    BY <1>1, <1>2, <1>3, <1>7
  <2>2. \A k \in DOMAIN f : f[k] < val[m]
    BY <1>7, Zenon DEF Held
  <2>3. Rising(g)
    BY <1>1, <1>4, <2>1, <2>2 DEF Rising
  <2>4. Held(g) = Held(f) \cup {val[m]}
    BY <2>1, ZenonT(30) DEF Held
  <2> QED
    BY <2>3, <2>4, Zenon
<1> QED
  BY <1>6, <1>7, Zenon DEF Appended, f, g, a

(* What a queue's head stood for comes before all that is left. *)
LEMMA PickedTail ==
  ASSUME NEW S, NEW D \in SUBSET S, NEW val \in [D -> Nat], NEW s \in Seq(S), s # <<>>,
         Rising(Picked(s, D, val))
  PROVE  LET f == Picked(s, D, val)
             g == Picked(Tail(s), D, val)
         IN /\ Rising(g)
            /\ Head(s) \notin D => Held(g) = Held(f)
            /\ Head(s) \in D => /\ Held(f) = Held(g) \cup {val[Head(s)]}
                                /\ \A x \in Held(g) : val[Head(s)] < x
<1> DEFINE f == Picked(s, D, val)
           r == Tail(s)
           g == Picked(r, D, val)
<1>1. /\ r \in Seq(S) /\ DOMAIN s = 1..Len(s) /\ Len(s) \in Nat \ {0} /\ DOMAIN r = 1..(Len(s) - 1)
      /\ s[1] = Head(s) /\ \A k \in 1..(Len(s) - 1) : r[k] = s[k + 1]
  OBVIOUS
<1> HIDE DEF r
<1>2. /\ DOMAIN f = {k \in 1..Len(s) : s[k] \in D}
      /\ DOMAIN g = {k \in 1..(Len(s) - 1) : s[k + 1] \in D}
  BY <1>1, Zenon DEF Picked
<1>3. /\ \A k \in DOMAIN f : f[k] = val[s[k]]
      /\ \A k \in DOMAIN g : g[k] = val[s[k + 1]]
  BY <1>1, Zenon DEF Picked
<1>4. \A j, k \in DOMAIN f : j < k => f[j] < f[k]
  BY Zenon DEF Rising
<1> HIDE DEF f, g
<1>5. /\ \A k \in DOMAIN g : k \in Nat \ {0} /\ k + 1 \in DOMAIN f /\ g[k] = f[k + 1]
      /\ \A k \in DOMAIN f : k = 1 \/ (k - 1 \in DOMAIN g /\ f[k] = g[k - 1])
  BY <1>1, <1>2, <1>3
<1>6. Rising(g)
  BY <1>4, <1>5 DEF Rising
<1>7. ASSUME Head(s) \notin D
      PROVE  Held(g) = Held(f)
  <2>1. 1 \notin DOMAIN f
    BY <1>1, <1>2, <1>7, Zenon
  <2> QED
    BY <1>5, <2>1, Zenon DEF Held
<1>8. ASSUME Head(s) \in D
      PROVE  Held(f) = Held(g) \cup {val[Head(s)]} /\ \A x \in Held(g) : val[Head(s)] < x
  <2>1. 1 \in DOMAIN f /\ f[1] = val[Head(s)]
    BY <1>1, <1>2, <1>3, <1>8
  <2>2. \A k \in DOMAIN g : f[1] < g[k]
    BY <1>4, <1>5, <2>1
  <2>3. Held(f) = Held(g) \cup {f[1]}
    BY <1>5, <2>1 DEF Held
  <2> QED
    BY <2>1, <2>2, <2>3, Zenon DEF Held
<1> QED
  BY <1>6, <1>7, <1>8, Zenon DEF f, g, r

(* What the endpoints carry. *)
Statuses == {"OK", "NO_RIGHTS", "OUT_OF_MEMORY", "INVALID_ARG"}
Evts == {RxEvent(c) : c \in Nat} \cup {[tag |-> "QUERY_INTENTS", status |-> "OK"]}
          \cup {[tag |-> "OPEN_CONTRACT", status |-> s] : s \in Statuses}
Cmds == {ClientCmds[k] : k \in 1..Len(ClientCmds)} \cup {Write(c) : c \in Nat}

Rx == {m \in Evts : m.tag = "RX_EVENT"}
Echo == {m \in Cmds : m.tag = "WRITE" /\ m.len > 0 /\ m.ch # 0}

(* The values of the messages above are characters. *)
LEMMA MessageFacts ==
  /\ \A m \in Rx : m.ch \in Nat
  /\ \A m \in Cmds : m.tag = "WRITE" => m.ch \in Nat
<1>1. \A m \in Rx : m.ch \in Nat
  BY DEF Rx, Evts, RxEvent
<1>2. \A k \in 1..Len(ClientCmds) : ClientCmds[k].tag = "WRITE" => ClientCmds[k].ch \in Nat
  BY ClientAssumption
<1>3. \A c \in Nat : Write(c).ch = c
  BY Zenon DEF Write
<1> QED
  BY <1>1, <1>2, <1>3, Zenon DEF Cmds

(* The four kinds of queue of ConsoleInOrder. *)
LEMMA QueuesPick ==
  /\ \A s \in Seq(Evts) : RxIn(s) = Picked(s, Rx, [m \in Rx |-> m.ch])
  /\ \A s \in Seq(Cmds) : WritesIn(s) = Picked(s, Echo, [m \in Echo |-> m.ch])
  /\ \A s \in Seq(Nat) : Echoed(s) = Picked(s, Nat \ {0}, [c \in Nat \ {0} |-> c])
  /\ \A s \in Seq(Nat) : s = Picked(s, Nat, [c \in Nat |-> c])
<1>1. ASSUME NEW s \in Seq(Evts)
      PROVE  RxIn(s) = Picked(s, Rx, [m \in Rx |-> m.ch])
  <2>1. \A k \in DOMAIN s : s[k] \in Evts
    OBVIOUS
  <2>2. \A k \in DOMAIN s : s[k].tag = "RX_EVENT" <=> s[k] \in Rx
    BY <2>1, Zenon DEF Rx
  <2> QED
    BY <2>2, Zenon DEF RxIn, Picked
<1>2. ASSUME NEW s \in Seq(Cmds)
      PROVE  WritesIn(s) = Picked(s, Echo, [m \in Echo |-> m.ch])
  <2>1. \A k \in DOMAIN s : s[k] \in Cmds
    OBVIOUS
  <2>2. \A k \in DOMAIN s : (s[k].tag = "WRITE" /\ s[k].len > 0 /\ s[k].ch # 0) <=> s[k] \in Echo
    BY <2>1, Zenon DEF Echo
  <2> QED
    BY <2>2, Zenon DEF WritesIn, Picked
<1>3. ASSUME NEW s \in Seq(Nat)
      PROVE  /\ Echoed(s) = Picked(s, Nat \ {0}, [c \in Nat \ {0} |-> c])
             /\ s = Picked(s, Nat, [c \in Nat |-> c])
  <2>1. s = [k \in DOMAIN s |-> s[k]] /\ \A k \in DOMAIN s : s[k] \in Nat
    OBVIOUS
  <2>2. \A k \in DOMAIN s : s[k] # 0 <=> s[k] \in Nat \ {0}
    BY <2>1, Zenon
  <2> QED
    BY <2>1, <2>2, Zenon DEF Echoed, Picked
<1> QED
  BY <1>1, <1>2, <1>3, Zenon

(* Rising and Held of a plain queue, of the events, of the commands and of    *)
(* what was written, over an Append and over a Tail.                          *)
LEMMA PlainQueue ==
  ASSUME NEW s \in Seq(Nat), Rising(s)
  PROVE  /\ \A c \in Nat : (\A x \in Held(s) : x < c) =>
              Rising(Append(s, c)) /\ Held(Append(s, c)) = Held(s) \cup {c}
         /\ s # <<>> => /\ Rising(Tail(s)) /\ Held(s) = Held(Tail(s)) \cup {Head(s)}
                        /\ \A x \in Held(Tail(s)) : Head(s) < x
<1> DEFINE val == [c \in Nat |-> c]
<1>1. val \in [Nat -> Nat] /\ \A c \in Nat : val[c] = c
  BY Zenon
<1>2. \A t \in Seq(Nat) : t = Picked(t, Nat, val)
  BY QueuesPick, Zenon
<1> HIDE DEF val
<1>3. Rising(Picked(s, Nat, val)) /\ Nat \in SUBSET Nat
  BY <1>2, Zenon
<1>4. ASSUME NEW c \in Nat, \A x \in Held(s) : x < c
      PROVE  Rising(Append(s, c)) /\ Held(Append(s, c)) = Held(s) \cup {c}
  <2>1. Append(s, c) \in Seq(Nat)
    OBVIOUS
  <2>2. Append(s, c) = Picked(Append(s, c), Nat, val) /\ s = Picked(s, Nat, val) /\ val[c] = c
    BY <1>1, <1>2, <2>1, Zenon
  <2>3. Appended(s, c, Nat, val)
    BY <1>1, <1>3, PickedAppend, Zenon
  <2> QED
    BY <1>4, <2>2, <2>3, Zenon DEF Appended
<1>5. ASSUME s # <<>>
      PROVE  /\ Rising(Tail(s)) /\ Held(s) = Held(Tail(s)) \cup {Head(s)}
             /\ \A x \in Held(Tail(s)) : Head(s) < x
  <2>1. Tail(s) \in Seq(Nat) /\ Head(s) \in Nat
    BY <1>5
  <2>2. Tail(s) = Picked(Tail(s), Nat, val) /\ s = Picked(s, Nat, val) /\ val[Head(s)] = Head(s)
    BY <1>1, <1>2, <2>1, Zenon
  <2>3. /\ Rising(Picked(Tail(s), Nat, val))
        /\ Head(s) \notin Nat => Held(Picked(Tail(s), Nat, val)) = Held(Picked(s, Nat, val))
        /\ Head(s) \in Nat => /\ Held(Picked(s, Nat, val)) = Held(Picked(Tail(s), Nat, val)) \cup {val[Head(s)]}
                             /\ \A x \in Held(Picked(Tail(s), Nat, val)) : val[Head(s)] < x
    BY <1>1, <1>3, <1>5, PickedTail, Zenon
  <2> QED
    BY <2>1, <2>2, <2>3, Zenon
<1> QED
  BY <1>4, <1>5, Zenon

(* Of the events to core_poll. *)
LEMMA EventQueue ==
  ASSUME NEW s \in Seq(Evts), Rising(RxIn(s))
  PROVE  /\ \A m \in Evts \ Rx : Rising(RxIn(Append(s, m))) /\ Held(RxIn(Append(s, m))) = Held(RxIn(s))
         /\ \A m \in Rx : (\A x \in Held(RxIn(s)) : x < m.ch) =>
              Rising(RxIn(Append(s, m))) /\ Held(RxIn(Append(s, m))) = Held(RxIn(s)) \cup {m.ch}
         /\ s # <<>> /\ Head(s) \notin Rx => Rising(RxIn(Tail(s))) /\ Held(RxIn(Tail(s))) = Held(RxIn(s))
         /\ s # <<>> /\ Head(s) \in Rx =>
              /\ Rising(RxIn(Tail(s))) /\ Held(RxIn(s)) = Held(RxIn(Tail(s))) \cup {Head(s).ch}
              /\ \A x \in Held(RxIn(Tail(s))) : Head(s).ch < x
<1> DEFINE val == [m \in Rx |-> m.ch]
<1>1. val \in [Rx -> Nat] /\ \A m \in Rx : val[m] = m.ch
  BY MessageFacts, Zenon
<1>2. \A t \in Seq(Evts) : RxIn(t) = Picked(t, Rx, val)
  BY QueuesPick, Zenon
<1> HIDE DEF val
<1>3. Rising(Picked(s, Rx, val)) /\ Rx \in SUBSET Evts
  BY <1>2, Zenon DEF Rx
<1>4. ASSUME NEW m \in Evts
      PROVE  /\ m \notin Rx => Rising(RxIn(Append(s, m))) /\ Held(RxIn(Append(s, m))) = Held(RxIn(s))
             /\ m \in Rx /\ (\A x \in Held(RxIn(s)) : x < m.ch) =>
                  Rising(RxIn(Append(s, m))) /\ Held(RxIn(Append(s, m))) = Held(RxIn(s)) \cup {m.ch}
  <2>1. Append(s, m) \in Seq(Evts)
    OBVIOUS
  <2>2. /\ RxIn(Append(s, m)) = Picked(Append(s, m), Rx, val) /\ RxIn(s) = Picked(s, Rx, val)
        /\ m \in Rx => val[m] = m.ch
    BY <1>1, <1>2, <2>1, Zenon
  <2>3. Appended(s, m, Rx, val)
    BY <1>1, <1>3, PickedAppend, Zenon
  <2> QED
    BY <2>2, <2>3, Zenon DEF Appended
<1>5. ASSUME s # <<>>
      PROVE  /\ Rising(RxIn(Tail(s)))
             /\ Head(s) \notin Rx => Held(RxIn(Tail(s))) = Held(RxIn(s))
             /\ Head(s) \in Rx => /\ Held(RxIn(s)) = Held(RxIn(Tail(s))) \cup {Head(s).ch}
                                  /\ \A x \in Held(RxIn(Tail(s))) : Head(s).ch < x
  <2>1. Tail(s) \in Seq(Evts)
    BY <1>5
  <2>2. /\ RxIn(Tail(s)) = Picked(Tail(s), Rx, val) /\ RxIn(s) = Picked(s, Rx, val)
        /\ Head(s) \in Rx => val[Head(s)] = Head(s).ch
    BY <1>1, <1>2, <2>1, Zenon
  <2>3. /\ Rising(Picked(Tail(s), Rx, val))
        /\ Head(s) \notin Rx => Held(Picked(Tail(s), Rx, val)) = Held(Picked(s, Rx, val))
        /\ Head(s) \in Rx => /\ Held(Picked(s, Rx, val)) = Held(Picked(Tail(s), Rx, val)) \cup {val[Head(s)]}
                             /\ \A x \in Held(Picked(Tail(s), Rx, val)) : val[Head(s)] < x
    BY <1>1, <1>3, <1>5, PickedTail, Zenon
  <2> QED
    BY <2>2, <2>3, Zenon
<1> QED
  BY <1>3, <1>4, <1>5, Zenon

(* Of the commands to the UART driver. *)
LEMMA CommandQueue ==
  ASSUME NEW s \in Seq(Cmds), Rising(WritesIn(s))
  PROVE  /\ \A m \in Cmds \ Echo :
              Rising(WritesIn(Append(s, m))) /\ Held(WritesIn(Append(s, m))) = Held(WritesIn(s))
         /\ \A m \in Echo : (\A x \in Held(WritesIn(s)) : x < m.ch) =>
              Rising(WritesIn(Append(s, m))) /\ Held(WritesIn(Append(s, m))) = Held(WritesIn(s)) \cup {m.ch}
         /\ s # <<>> /\ Head(s) \notin Echo =>
              Rising(WritesIn(Tail(s))) /\ Held(WritesIn(Tail(s))) = Held(WritesIn(s))
         /\ s # <<>> /\ Head(s) \in Echo =>
              /\ Rising(WritesIn(Tail(s))) /\ Held(WritesIn(s)) = Held(WritesIn(Tail(s))) \cup {Head(s).ch}
              /\ \A x \in Held(WritesIn(Tail(s))) : Head(s).ch < x
<1> DEFINE val == [m \in Echo |-> m.ch]
<1>1. val \in [Echo -> Nat] /\ \A m \in Echo : val[m] = m.ch
  BY MessageFacts, Zenon DEF Echo
<1>2. \A t \in Seq(Cmds) : WritesIn(t) = Picked(t, Echo, val)
  BY QueuesPick, Zenon
<1> HIDE DEF val
<1>3. Rising(Picked(s, Echo, val)) /\ Echo \in SUBSET Cmds
  BY <1>2, Zenon DEF Echo
<1>4. ASSUME NEW m \in Cmds
      PROVE  /\ m \notin Echo =>
                  Rising(WritesIn(Append(s, m))) /\ Held(WritesIn(Append(s, m))) = Held(WritesIn(s))
             /\ m \in Echo /\ (\A x \in Held(WritesIn(s)) : x < m.ch) =>
                  /\ Rising(WritesIn(Append(s, m)))
                  /\ Held(WritesIn(Append(s, m))) = Held(WritesIn(s)) \cup {m.ch}
  <2>1. Append(s, m) \in Seq(Cmds)
    OBVIOUS
  <2>2. /\ WritesIn(Append(s, m)) = Picked(Append(s, m), Echo, val) /\ WritesIn(s) = Picked(s, Echo, val)
        /\ m \in Echo => val[m] = m.ch
    BY <1>1, <1>2, <2>1, Zenon
  <2>3. Appended(s, m, Echo, val)
    BY <1>1, <1>3, PickedAppend, Zenon
  <2> QED
    BY <2>2, <2>3, Zenon DEF Appended
<1>5. ASSUME s # <<>>
      PROVE  /\ Rising(WritesIn(Tail(s)))
             /\ Head(s) \notin Echo => Held(WritesIn(Tail(s))) = Held(WritesIn(s))
             /\ Head(s) \in Echo => /\ Held(WritesIn(s)) = Held(WritesIn(Tail(s))) \cup {Head(s).ch}
                                    /\ \A x \in Held(WritesIn(Tail(s))) : Head(s).ch < x
  <2>1. Tail(s) \in Seq(Cmds)
    BY <1>5
  <2>2. /\ WritesIn(Tail(s)) = Picked(Tail(s), Echo, val) /\ WritesIn(s) = Picked(s, Echo, val)
        /\ Head(s) \in Echo => val[Head(s)] = Head(s).ch
    BY <1>1, <1>2, <2>1, Zenon
  <2>3. /\ Rising(Picked(Tail(s), Echo, val))
        /\ Head(s) \notin Echo => Held(Picked(Tail(s), Echo, val)) = Held(Picked(s, Echo, val))
        /\ Head(s) \in Echo => /\ Held(Picked(s, Echo, val)) = Held(Picked(Tail(s), Echo, val)) \cup {val[Head(s)]}
                             /\ \A x \in Held(Picked(Tail(s), Echo, val)) : val[Head(s)] < x
    BY <1>1, <1>3, <1>5, PickedTail, Zenon
  <2> QED
    BY <2>2, <2>3, Zenon
<1> QED
  BY <1>3, <1>4, <1>5, Zenon

(* Of the characters the UART driver wrote. *)
LEMMA Written ==
  ASSUME NEW s \in Seq(Nat), Rising(Echoed(s))
  PROVE  /\ Rising(Echoed(Append(s, 0))) /\ Held(Echoed(Append(s, 0))) = Held(Echoed(s))
         /\ \A c \in Nat \ {0} : (\A x \in Held(Echoed(s)) : x < c) =>
              Rising(Echoed(Append(s, c))) /\ Held(Echoed(Append(s, c))) = Held(Echoed(s)) \cup {c}
<1> DEFINE val == [c \in Nat \ {0} |-> c]
<1>1. val \in [Nat \ {0} -> Nat] /\ \A c \in Nat \ {0} : val[c] = c
  BY Zenon
<1>2. \A t \in Seq(Nat) : Echoed(t) = Picked(t, Nat \ {0}, val)
  BY QueuesPick, Zenon
<1> HIDE DEF val
<1>3. Rising(Picked(s, Nat \ {0}, val)) /\ Nat \ {0} \in SUBSET Nat
  BY <1>2, Zenon
<1>4. ASSUME NEW c \in Nat
      PROVE  /\ c \notin Nat \ {0} => Rising(Echoed(Append(s, c))) /\ Held(Echoed(Append(s, c))) = Held(Echoed(s))
             /\ c \in Nat \ {0} /\ (\A x \in Held(Echoed(s)) : x < c) =>
                  Rising(Echoed(Append(s, c))) /\ Held(Echoed(Append(s, c))) = Held(Echoed(s)) \cup {c}
  <2>1. Append(s, c) \in Seq(Nat)
    OBVIOUS
  <2>2. /\ Echoed(Append(s, c)) = Picked(Append(s, c), Nat \ {0}, val) /\ Echoed(s) = Picked(s, Nat \ {0}, val)
        /\ c \in Nat \ {0} => val[c] = c
    BY <1>1, <1>2, <2>1, Zenon
  <2>3. Appended(s, c, Nat \ {0}, val)
    BY <1>1, <1>3, PickedAppend, Zenon
  <2> QED
    BY <2>2, <2>3, Zenon DEF Appended
<1> QED
  BY <1>4, Zenon

ConsoleType ==
  /\ fifo \in Seq(Nat) /\ evt \in Seq(Evts) /\ cmd \in Seq(Cmds)
  /\ con.typed \in Nat /\ con.lost \subseteq 1..con.typed
  /\ con.got \in Seq(Nat) /\ con.tx \in Seq(Nat) /\ con.sent \in Nat
  /\ con = [typed |-> con.typed, lost |-> con.lost, got |-> con.got, tx |-> con.tx, sent |-> con.sent]

(* ConsoleInOrder over what the queues hold. *)
Below(A, B) == \A x \in A, y \in B : x < y

OrderOf(G, E, F, T, W, n, lost) ==
  /\ Below(G, E) /\ Below(G, F) /\ Below(E, F)
  /\ G \cup E \cup F = (1..n) \ lost
  /\ Below(T, W) /\ T \cup W = G

Order == OrderOf(Held(con.got), Held(RxIn(evt)), Held(fifo), Held(Echoed(con.tx)), Held(WritesIn(cmd)),
                 con.typed, con.lost)

AllRise ==
  /\ Rising(con.got) /\ Rising(RxIn(evt)) /\ Rising(fifo)
  /\ Rising(Echoed(con.tx)) /\ Rising(WritesIn(cmd))

(* The property is these two. *)
LEMMA OrderIs == ConsoleInOrder <=> AllRise /\ Order
  BY BeforeHeld, Zenon DEF ConsoleInOrder, AllRise, Order, OrderOf, Below

(* Before the user types, and in a run that is not about the console, nothing *)
(* is under way: that is what a power failure finds.                          *)
NothingTyped == fifo = <<>> /\ evt = <<>> /\ cmd = <<>> /\ con.got = <<>> /\ con.tx = <<>>
                  /\ con.typed = 0 /\ con.lost = {} /\ con.sent = 0

ConsoleInv ==
  /\ ConsoleType /\ AllRise /\ Order
  /\ env.load # "console" => NothingTyped

(* A command is answered by nothing or by one message that is not a character.*)
LEMMA AnswersAre ==
  ASSUME NEW c, NEW a \in Answers(c)
  PROVE  a = <<>> \/ \E e \in Evts \ Rx : a = <<e>>
<1> DEFINE open(s) == [tag |-> "OPEN_CONTRACT", status |-> s]
           query == [tag |-> "QUERY_INTENTS", status |-> "OK"]
           sts == IF c.kind \in {"CMD", "EVT"}
                    THEN {StatusOf(st) : st \in {"CAP_OK", "CAP_ERR_DENIED", "CAP_ERR_NO_MEM", "CAP_ERR_INVALID"}}
                    ELSE {"INVALID_ARG"}
<1>1. ASSUME NEW st
      PROVE  StatusOf(st) \in Statuses
  BY Zenon DEF StatusOf, Statuses
<1>2. sts \subseteq Statuses
  BY <1>1, Zenon DEF Statuses
<1>3. query \in Evts /\ query.tag # "RX_EVENT"
  BY Zenon DEF Evts
<1>4. ASSUME NEW s \in Statuses
      PROVE  open(s) \in Evts \ Rx
  <2>1. open(s) \in Evts
    BY Zenon DEF Evts
  <2>2. open(s).tag # "RX_EVENT"
    BY Zenon
  <2> QED
    BY <2>1, <2>2, Zenon DEF Rx
<1>5. query \in Evts \ Rx
  BY <1>3, Zenon DEF Rx
<1>6. a \in {<<query>>} \/ a \in {<<open(s)>> : s \in sts} \/ a \in {<<>>}
  BY Zenon DEF Answers
<1> HIDE DEF open, query, sts
<1> QED
  BY <1>2, <1>4, <1>5, <1>6, Zenon

(* uart_driver_pump takes a command. *)
LEMMA PumpCommandStep ==
  ASSUME ConsoleType, AllRise, Order, PumpCommand
  PROVE  ConsoleType' /\ AllRise' /\ Order'
<1> DEFINE h == Head(cmd)
           w == h.tag = "WRITE" /\ h.len > 0
<1>1. /\ fifo \in Seq(Nat) /\ evt \in Seq(Evts) /\ cmd \in Seq(Cmds) /\ cmd # <<>>
      /\ con.got \in Seq(Nat) /\ con.tx \in Seq(Nat)
      /\ fifo' = fifo /\ cmd' = Tail(cmd) /\ cmd' \in Seq(Cmds) /\ h \in Cmds
  BY DEF ConsoleType, PumpCommand
<1>2. PICK a \in Answers(h) : evt' = evt \o a
  BY Zenon DEF PumpCommand
<1>3. a = <<>> \/ \E m \in Evts \ Rx : a = <<m>>
  BY AnswersAre, Zenon
<1>4. evt' = evt \/ \E m \in Evts \ Rx : evt' = Append(evt, m)
  <2>1. \A m \in Evts : evt \o <<m>> = Append(evt, m)
    BY <1>1
  <2>2. evt \o <<>> = evt
    BY <1>1
  <2> QED
    BY <1>2, <1>3, <2>1, <2>2, Zenon
<1>5. evt' \in Seq(Evts) /\ Rising(RxIn(evt')) /\ Held(RxIn(evt')) = Held(RxIn(evt))
  <2>1. CASE evt' = evt
    BY <1>1, <2>1, Zenon DEF AllRise
  <2>2. CASE \E m \in Evts \ Rx : evt' = Append(evt, m)
    BY <1>1, <2>2, EventQueue DEF AllRise
  <2> QED
    BY <1>4, <2>1, <2>2, Zenon
<1>6. w => h.ch \in Nat
  BY <1>1, MessageFacts, Zenon
<1>7. con' = IF w THEN [con EXCEPT !.tx = Append(con.tx, h.ch)] ELSE con
  BY Zenon DEF PumpCommand
<1> DEFINE t2 == Append(con.tx, h.ch)
<1>8. w => t2 \in Seq(Nat)
  BY <1>1, <1>6
<1>9. /\ con'.got = con.got /\ con'.typed = con.typed /\ con'.lost = con.lost /\ con'.sent = con.sent
      /\ con'.tx = (IF w THEN t2 ELSE con.tx)
      /\ con' = [typed |-> con.typed, lost |-> con.lost, got |-> con.got, tx |-> con'.tx, sent |-> con.sent]
  <2> HIDE DEF t2, w
  <2>1. con' = IF w THEN [con EXCEPT !.tx = t2] ELSE con
    BY <1>7, Zenon DEF t2
  <2>2. con = [typed |-> con.typed, lost |-> con.lost, got |-> con.got, tx |-> con.tx, sent |-> con.sent]
    BY Zenon DEF ConsoleType
  <2> QED
    BY <2>1, <2>2, Zenon
<1>10. ConsoleType'
  BY <1>1, <1>5, <1>8, <1>9, Zenon DEF ConsoleType
<1>11. h \in Echo <=> w /\ h.ch # 0
  BY <1>1, Zenon DEF Echo
<1>12. Rising(Echoed(con.tx)) /\ Rising(WritesIn(cmd))
  BY Zenon DEF AllRise
<1> HIDE DEF h, w, t2
<1>13. CASE h \in Echo
  <2>1. /\ Rising(WritesIn(cmd')) /\ Held(WritesIn(cmd)) = Held(WritesIn(cmd')) \cup {h.ch}
        /\ \A x \in Held(WritesIn(cmd')) : h.ch < x
    BY <1>1, <1>12, <1>13, CommandQueue, Zenon DEF h
  <2>2. \A x \in Held(Echoed(con.tx)) : x < h.ch
    BY <2>1, Zenon DEF Order, OrderOf, Below
  <2>3. h.ch \in Nat \ {0}
    BY <1>6, <1>11, <1>13, Zenon
  <2>4. Rising(Echoed(con'.tx)) /\ Held(Echoed(con'.tx)) = Held(Echoed(con.tx)) \cup {h.ch}
    BY <1>1, <1>9, <1>11, <1>12, <1>13, <2>2, <2>3, Written, Zenon DEF t2
  <2>5. AllRise'
    BY <1>1, <1>5, <1>9, <2>1, <2>4, ZenonT(30) DEF AllRise
  <2>6. Order'
    BY <1>1, <1>5, <1>9, <2>1, <2>2, <2>4, ZenonT(30) DEF Order, OrderOf, Below
  <2> QED
    BY <1>10, <2>5, <2>6, Zenon
<1>14. CASE h \notin Echo
  <2>1. Rising(WritesIn(cmd')) /\ Held(WritesIn(cmd')) = Held(WritesIn(cmd))
    BY <1>1, <1>12, <1>14, CommandQueue, Zenon DEF h
  <2>2. w => h.ch = 0
    BY <1>11, <1>14, Zenon
  <2>3. Rising(Echoed(con'.tx)) /\ Held(Echoed(con'.tx)) = Held(Echoed(con.tx))
    BY <1>1, <1>9, <1>12, <2>2, Written, Zenon DEF t2
  <2>4. AllRise'
    BY <1>1, <1>5, <1>9, <2>1, <2>3, Zenon DEF AllRise
  <2>5. Order'
    BY <1>1, <1>5, <1>9, <2>1, <2>3, Zenon DEF Order, OrderOf, Below
  <2> QED
    BY <1>10, <2>4, <2>5, Zenon
<1> QED
  BY <1>13, <1>14, Zenon

(* It takes a character from the FIFO. *)
LEMMA PumpRxStep ==
  ASSUME ConsoleType, AllRise, Order, PumpRx
  PROVE  ConsoleType' /\ AllRise' /\ Order'
<1> DEFINE c == Head(fifo)
<1>1. /\ fifo \in Seq(Nat) /\ fifo # <<>> /\ evt \in Seq(Evts) /\ c \in Nat
      /\ fifo' = Tail(fifo) /\ fifo' \in Seq(Nat) /\ cmd' = cmd /\ con' = con
      /\ evt' = Append(evt, RxEvent(c))
  BY DEF ConsoleType, PumpRx
<1>2. RxEvent(c) \in Rx /\ RxEvent(c).ch = c /\ RxEvent(c) \in Evts
  BY <1>1, Zenon DEF Rx, Evts, RxEvent
<1>3. Rising(fifo) /\ Rising(RxIn(evt))
  BY Zenon DEF AllRise
<1> HIDE DEF c
<1>4. /\ Rising(fifo') /\ Held(fifo) = Held(fifo') \cup {c} /\ \A x \in Held(fifo') : c < x
  BY <1>1, <1>3, PlainQueue, Zenon DEF c
<1>5. \A x \in Held(RxIn(evt)) : x < c
  BY <1>4, Zenon DEF Order, OrderOf, Below
<1>6. Rising(RxIn(evt')) /\ Held(RxIn(evt')) = Held(RxIn(evt)) \cup {c}
  BY <1>1, <1>2, <1>3, <1>5, EventQueue
<1>7. ConsoleType'
  BY <1>1, <1>2 DEF ConsoleType
<1>8. AllRise'
  BY <1>1, <1>4, <1>6, Zenon DEF AllRise
<1>9. Order'
  BY <1>1, <1>4, <1>5, <1>6, Zenon DEF Order, OrderOf, Below
<1> QED
  BY <1>7, <1>8, <1>9, Zenon

(* core_poll takes an event: a character is handled and its echo is sent. *)
LEMMA PollEventStep ==
  ASSUME ConsoleType, AllRise, Order, PollEvent
  PROVE  ConsoleType' /\ AllRise' /\ Order'
<1> DEFINE h == Head(evt)
<1>1. /\ evt \in Seq(Evts) /\ evt # <<>> /\ h \in Evts /\ evt' = Tail(evt) /\ evt' \in Seq(Evts) /\ fifo' = fifo
      /\ cmd \in Seq(Cmds) /\ con.got \in Seq(Nat)
  BY DEF ConsoleType, PollEvent
<1>2. Rising(RxIn(evt)) /\ Rising(con.got) /\ Rising(WritesIn(cmd))
  BY Zenon DEF AllRise
<1>3. h \in Rx <=> h.tag = "RX_EVENT"
  BY <1>1, Zenon DEF Rx
<1>4. CASE h \notin Rx
  <2>1. con' = con /\ cmd' = cmd
    BY <1>3, <1>4, Zenon DEF PollEvent
  <2> HIDE DEF h
  <2>2. Rising(RxIn(evt')) /\ Held(RxIn(evt')) = Held(RxIn(evt))
    BY <1>1, <1>2, <1>4, EventQueue, Zenon DEF h
  <2>3. ConsoleType'
    BY <1>1, <2>1, Zenon DEF ConsoleType
  <2>4. AllRise'
    BY <1>1, <2>1, <2>2, Zenon DEF AllRise
  <2>5. Order'
    BY <1>1, <2>1, <2>2, Zenon DEF Order
  <2> QED
    BY <2>3, <2>4, <2>5, Zenon
<1>5. CASE h \in Rx
  <2> DEFINE c == h.ch
             g2 == Append(con.got, c)
  <2>1. con' = [con EXCEPT !.got = g2] /\ cmd' = Append(cmd, Write(c))
    BY <1>3, <1>5, Zenon DEF PollEvent
  <2>2. c \in Nat /\ g2 \in Seq(Nat)
    BY <1>1, <1>5, MessageFacts
  <2> HIDE DEF h, c
  <2>3. /\ Rising(RxIn(evt')) /\ Held(RxIn(evt)) = Held(RxIn(evt')) \cup {c}
        /\ \A x \in Held(RxIn(evt')) : c < x
    BY <1>1, <1>2, <1>5, EventQueue, Zenon DEF h, c
  <2>4. \A x \in Held(con.got) : x < c
    BY <2>3, Zenon DEF Order, OrderOf, Below
  <2>5. Rising(g2) /\ Held(g2) = Held(con.got) \cup {c}
    BY <1>1, <1>2, <2>2, <2>4, PlainQueue, Zenon
  <2>6. c # 0
    BY <2>3 DEF Order, OrderOf
  <2>7. Write(c) \in Echo /\ Write(c).ch = c /\ Write(c) \in Cmds
    <3>1. Write(c).tag = "WRITE" /\ Write(c).len = 1 /\ Write(c).ch = c
      BY Zenon DEF Write
    <3>2. Write(c) \in Cmds
      BY <2>2, Zenon DEF Cmds
    <3> QED
      BY <2>6, <3>1, <3>2 DEF Echo
  <2>8. \A x \in Held(WritesIn(cmd)) \cup Held(Echoed(con.tx)) : x < c
    BY <2>4, Zenon DEF Order, OrderOf
  <2>9. Rising(WritesIn(cmd')) /\ Held(WritesIn(cmd')) = Held(WritesIn(cmd)) \cup {c}
    BY <1>1, <1>2, <2>1, <2>7, <2>8, CommandQueue
  <2>10. /\ con'.got = g2 /\ con'.typed = con.typed /\ con'.lost = con.lost /\ con'.sent = con.sent
         /\ con'.tx = con.tx
         /\ con' = [typed |-> con.typed, lost |-> con.lost, got |-> g2, tx |-> con.tx, sent |-> con.sent]
    <3> HIDE DEF g2
    <3>1. con = [typed |-> con.typed, lost |-> con.lost, got |-> con.got, tx |-> con.tx, sent |-> con.sent]
      BY Zenon DEF ConsoleType
    <3> QED
      BY <2>1, <3>1, Zenon
  <2> HIDE DEF g2
  <2>11. ConsoleType'
    <3>1. cmd' \in Seq(Cmds)
      BY <1>1, <2>1, <2>7
    <3> QED
      BY <1>1, <2>2, <2>10, <3>1, Zenon DEF ConsoleType
  <2>12. AllRise'
    BY <1>1, <2>3, <2>5, <2>9, <2>10, Zenon DEF AllRise
  <2>13. Order'
    <3>1. Below(Held(con.got) \cup {c}, Held(RxIn(evt'))) /\ Below(Held(con.got) \cup {c}, Held(fifo))
      BY <2>3, Zenon DEF Order, OrderOf, Below
    <3>2. Below(Held(RxIn(evt')), Held(fifo))
      BY <2>3, Zenon DEF Order, OrderOf, Below
    <3>3. Below(Held(Echoed(con.tx)), Held(WritesIn(cmd)) \cup {c})
      BY <2>8, Zenon DEF Order, OrderOf, Below
    <3>4. /\ Held(con.got) \cup {c} \cup Held(RxIn(evt')) \cup Held(fifo) = (1..con.typed) \ con.lost
          /\ Held(Echoed(con.tx)) \cup (Held(WritesIn(cmd)) \cup {c}) = Held(con.got) \cup {c}
      BY <2>3, Zenon DEF Order, OrderOf
    <3> QED
      BY <1>1, <2>5, <2>9, <2>10, <3>1, <3>2, <3>3, <3>4, Zenon DEF Order, OrderOf
  <2> QED
    BY <2>11, <2>12, <2>13, Zenon
<1> QED
  BY <1>4, <1>5, Zenon

(* The user types. *)
LEMMA TypeConsole ==
  ASSUME ConsoleType, AllRise, Order, Type
  PROVE  ConsoleType' /\ AllRise' /\ Order'
<1> DEFINE c == con.typed + 1
<1>1. /\ fifo \in Seq(Nat) /\ con.typed \in Nat /\ c \in Nat /\ cmd' = cmd /\ evt' = evt
      /\ con.lost \subseteq 1..con.typed
      /\ con = [typed |-> con.typed, lost |-> con.lost, got |-> con.got, tx |-> con.tx, sent |-> con.sent]
  BY DEF ConsoleType, Type
<1>2. Rising(fifo)
  BY Zenon DEF AllRise
<1>3. /\ \A x \in Held(con.got) \cup Held(RxIn(evt)) \cup Held(fifo) : x < c
      /\ 1..c = (1..con.typed) \cup {c} /\ c \notin 1..con.typed
  BY <1>1 DEF Order, OrderOf
<1>4. \/ fifo' = Append(fifo, c) /\ con' = [con EXCEPT !.typed = c]
      \/ fifo' = fifo /\ con' = [con EXCEPT !.typed = c, !.lost = con.lost \cup {c}]
  BY Zenon DEF Type
<1> HIDE DEF c
<1>5. CASE fifo' = Append(fifo, c) /\ con' = [con EXCEPT !.typed = c]
  <2>1. Rising(fifo') /\ Held(fifo') = Held(fifo) \cup {c} /\ fifo' \in Seq(Nat)
    BY <1>1, <1>2, <1>3, <1>5, PlainQueue
  <2>2. con' = [typed |-> c, lost |-> con.lost, got |-> con.got, tx |-> con.tx, sent |-> con.sent]
    BY <1>1, <1>5, Zenon
  <2>3. /\ con'.typed = c /\ con'.lost = con.lost /\ con'.got = con.got /\ con'.tx = con.tx
        /\ con'.sent = con.sent
    BY <2>2, Zenon
  <2>4. ConsoleType'
    BY <1>1, <1>3, <2>1, <2>2, <2>3, Zenon DEF ConsoleType
  <2>5. AllRise'
    BY <1>1, <2>1, <2>3, Zenon DEF AllRise
  <2>6. c \notin con.lost
    BY <1>1, <1>3, Zenon
  <2>7. Order'
    BY <1>1, <1>3, <2>1, <2>3, <2>6 DEF Order, OrderOf, Below
  <2> QED
    BY <2>4, <2>5, <2>7, Zenon
<1>6. CASE fifo' = fifo /\ con' = [con EXCEPT !.typed = c, !.lost = con.lost \cup {c}]
  <2>1. con' = [typed |-> c, lost |-> con.lost \cup {c}, got |-> con.got, tx |-> con.tx, sent |-> con.sent]
    BY <1>1, <1>6, Zenon
  <2>2. /\ con'.typed = c /\ con'.lost = con.lost \cup {c} /\ con'.got = con.got /\ con'.tx = con.tx
        /\ con'.sent = con.sent
    BY <2>1, Zenon
  <2>3. ConsoleType'
    BY <1>1, <1>3, <1>6, <2>1, <2>2, Zenon DEF ConsoleType
  <2>4. AllRise'
    BY <1>1, <1>6, <2>2, Zenon DEF AllRise
  <2>5. Order'
    BY <1>1, <1>3, <1>6, <2>2 DEF Order, OrderOf, Below
  <2> QED
    BY <2>3, <2>4, <2>5, Zenon
<1> QED
  BY <1>4, <1>5, <1>6, Zenon

(* Another holder of the endpoint sends a command. *)
LEMMA ClientStep ==
  ASSUME ConsoleType, AllRise, Order, ClientSends
  PROVE  ConsoleType' /\ AllRise' /\ Order'
<1> DEFINE n == con.sent + 1
           m == ClientCmds[n]
<1>1. /\ cmd \in Seq(Cmds) /\ con.sent \in Nat /\ n \in Nat /\ fifo' = fifo /\ evt' = evt
      /\ con = [typed |-> con.typed, lost |-> con.lost, got |-> con.got, tx |-> con.tx, sent |-> con.sent]
  BY DEF ConsoleType, ClientSends
<1>2. n \in 1..Len(ClientCmds) /\ cmd' = Append(cmd, m) /\ con' = [con EXCEPT !.sent = n]
  BY <1>1, ClientAssumption DEF ClientSends
<1>3. m \in Cmds \ Echo
  <2>1. m \in Cmds
    BY <1>2, Zenon DEF Cmds
  <2>2. m.tag = "WRITE" => m.ch = 0
    BY <1>2, ClientAssumption, Zenon
  <2> QED
    BY <2>1, <2>2, Zenon DEF Echo
<1> HIDE DEF n, m
<1>4. con' = [typed |-> con.typed, lost |-> con.lost, got |-> con.got, tx |-> con.tx, sent |-> n]
  BY <1>1, <1>2, Zenon
<1>5. /\ con'.typed = con.typed /\ con'.lost = con.lost /\ con'.got = con.got /\ con'.tx = con.tx
      /\ con'.sent = n
  BY <1>4, Zenon
<1>6. /\ cmd' \in Seq(Cmds) /\ Rising(WritesIn(cmd')) /\ Held(WritesIn(cmd')) = Held(WritesIn(cmd))
  BY <1>1, <1>2, <1>3, CommandQueue DEF AllRise
<1>7. ConsoleType'
  BY <1>1, <1>4, <1>5, <1>6, Zenon DEF ConsoleType
<1>8. AllRise'
  BY <1>1, <1>5, <1>6, Zenon DEF AllRise
<1>9. Order'
  BY <1>1, <1>5, <1>6, Zenon DEF Order
<1> QED
  BY <1>7, <1>8, <1>9, Zenon

(* Which steps touch the console. *)
LEMMA ConsoleKinds ==
  ASSUME Next
  PROVE  /\ env' = env
         /\ UNCHANGED consoleVars \/ PumpCommand \/ PumpRx \/ PollEvent
              \/ (env.load = "console" /\ (Type \/ ClientSends))
              \/ (env.load = "disk" /\ fifo' = <<>> /\ evt' = <<>> /\ cmd' = <<>> /\ con' = con)
<1>1. CASE hal_block_init \/ block_sanity_test \/ SanityReturns \/ hal_irq_init \/ irq_global_enable
  BY <1>1, Zenon DEF hal_block_init, block_sanity_test, SanityReturns, hal_irq_init, irq_global_enable
<1>2. CASE Pump \/ core_poll \/ Wfi
  BY <1>2, Zenon DEF Pump, core_poll, Wfi, Goto
<1>3. CASE StartFile \/ BlockCall \/ BlockReturns
  BY <1>3, Zenon DEF StartFile, BlockCall, BlockReturns
<1>4. CASE Drain \/ RunItem \/ Elapses \/ DeviceRaises \/ Disk \/ (\E i \in Items : work_item_alloc(i))
  BY <1>4, Zenon DEF Drain, RunItem, Elapses, DeviceRaises, Disk, work_item_alloc
<1>5. ASSUME NEW id \in {TIMER_PPI_IRQ, DEV_IRQ, SPURIOUS}, irq_dispatch(id)
      PROVE  UNCHANGED consoleVars /\ env' = env
  BY <1>5, Zenon DEF irq_dispatch
<1>6. CASE User \/ Crash
  BY <1>6, Zenon DEF User, Crash
<1> QED
  BY <1>1, <1>2, <1>3, <1>4, <1>5, <1>6, Zenon DEF Next, core_thread_entry

(* Every step keeps the console in order. *)
LEMMA ConsoleStep ==
  ASSUME ConsoleInv, [Next]_vars
  PROVE  ConsoleInv'
<1>0. ConsoleType /\ AllRise /\ Order /\ (env.load # "console" => NothingTyped)
  BY Zenon DEF ConsoleInv
<1>1. CASE UNCHANGED consoleVars /\ env' = env
  BY <1>0, <1>1, Zenon DEF ConsoleInv, ConsoleType, AllRise, Order, NothingTyped, consoleVars
<1>2. CASE env' = env /\ (PumpCommand \/ PumpRx \/ PollEvent)
  <2>1. env.load = "console"
    BY <1>0, <1>2, Zenon DEF NothingTyped, PumpCommand, PumpRx, PollEvent
  <2>2. ConsoleType' /\ AllRise' /\ Order'
    BY <1>0, <1>2, PumpCommandStep, PumpRxStep, PollEventStep, Zenon
  <2> QED
    BY <1>2, <2>1, <2>2, Zenon DEF ConsoleInv
<1>3. CASE env' = env /\ env.load = "console" /\ (Type \/ ClientSends)
  <2>1. ConsoleType' /\ AllRise' /\ Order'
    BY <1>0, <1>3, TypeConsole, ClientStep, Zenon
  <2> QED
    BY <1>3, <2>1, Zenon DEF ConsoleInv
<1>4. CASE env' = env /\ env.load = "disk" /\ fifo' = <<>> /\ evt' = <<>> /\ cmd' = <<>> /\ con' = con
  <2>1. NothingTyped
    BY <1>0, <1>4, Zenon
  <2>2. UNCHANGED consoleVars
    BY <1>4, <2>1, Zenon DEF NothingTyped, consoleVars
  <2> QED
    BY <1>1, <1>4, <2>2, Zenon
<1>5. UNCHANGED vars => UNCHANGED consoleVars /\ env' = env
  BY Zenon DEF vars
<1> QED
  BY <1>1, <1>2, <1>3, <1>4, <1>5, ConsoleKinds, Zenon

(* uart_driver_pump and core_poll: every character that the FIFO did not      *)
(* overrun is handled once and echoed once, both in the order typed, for any  *)
(* FIFO depth, poll limit and commands of other clients.                      *)
THEOREM ConsoleStaysInOrder == Spec => []ConsoleInOrder
<1>1. Init => ConsoleInv
  <2> SUFFICES ASSUME Init PROVE ConsoleInv
    BY Zenon
  <2>1. /\ fifo = <<>> /\ cmd = <<>> /\ evt = <<>>
        /\ con = [typed |-> 0, lost |-> {}, got |-> <<>>, tx |-> <<>>, sent |-> 0]
    BY Zenon DEF Init, ConsoleInit
  <2>2. con.typed = 0 /\ con.lost = {} /\ con.got = <<>> /\ con.tx = <<>> /\ con.sent = 0
    BY <2>1, Zenon
  <2>3. ConsoleType /\ NothingTyped
    BY <2>1, <2>2 DEF ConsoleType, NothingTyped
  <2>4. /\ DOMAIN con.got = {} /\ DOMAIN RxIn(evt) = {} /\ DOMAIN fifo = {}
        /\ DOMAIN Echoed(con.tx) = {} /\ DOMAIN WritesIn(cmd) = {}
    BY <2>1, <2>2 DEF RxIn, Echoed, WritesIn
  <2>5. AllRise
    BY <2>4, Zenon DEF AllRise, Rising
  <2>6. /\ Held(con.got) = {} /\ Held(RxIn(evt)) = {} /\ Held(fifo) = {}
        /\ Held(Echoed(con.tx)) = {} /\ Held(WritesIn(cmd)) = {}
    BY <2>4, Zenon DEF Held
  <2>7. Order
    <3>1. (1..con.typed) \ con.lost = {}
      BY <2>2
    <3>2. OrderOf({}, {}, {}, {}, {}, con.typed, con.lost)
      BY <3>1, Zenon DEF OrderOf, Below
    <3> QED
      BY <2>6, <3>2, Zenon DEF Order
  <2> QED
    BY <2>3, <2>5, <2>7, Zenon DEF ConsoleInv
<1>2. ConsoleInv /\ [Next]_vars => ConsoleInv'
  BY ConsoleStep, Zenon
<1>3. ConsoleInv => ConsoleInOrder
  BY OrderIs, Zenon DEF ConsoleInv
<1> QED
  BY <1>1, <1>2, <1>3, PTL DEF Spec
====
