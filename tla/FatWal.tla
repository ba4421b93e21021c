-------------------------------- MODULE FatWal --------------------------------
(* Changing a file in Core's FAT16 (Fat16.swift): the mount with its replay   *)
(* of the write-ahead log, the data sectors unprotected, then the metadata    *)
(* sectors one by one, through walWriteSector or (not safe) directly.         *)
(* fs.step names the block call the file system is in; a sector's content is  *)
(* the sector it was made for and a version.                                  *)
EXTENDS Integers, Sequences, FiniteSets

CONSTANTS
  MetaSectors,   \* the sectors of each copy of the FAT, then the directory sector
  sectorsPerFAT  \* sectors in one copy

VARIABLE fs

WALH == "wal_header"
WALD == "wal_data"
Content(t, v) == [w |-> "sector", of |-> t, v |-> v]
LogHeader(t) == [w |-> "WAL1", target |-> t]
Clear == [w |-> "zero"]
Meta == {MetaSectors[k] : k \in DOMAIN MetaSectors}
Dir == Len(MetaSectors)
Sectors == Meta \cup {"boot", "data", WALH, WALD}

(* The sector that is read to change the k-th: the first copy of the FAT      *)
(* stands for all.                                                            *)
Source(k) == IF k = Dir THEN Dir ELSE ((k - 1) % sectorsPerFAT) + 1
Origin(t) == MetaSectors[Source(CHOOSE k \in 1..Dir : MetaSectors[k] = t)]

ASSUME SectorsAssumption ==
  /\ MetaSectors \in Seq(Meta) /\ sectorsPerFAT \in 1..(Dir - 1)
  /\ \A j, k \in 1..Dir : MetaSectors[j] = MetaSectors[k] => j = k
  /\ Meta \cap {"boot", "data", WALH, WALD} = {}

FreshDisk ==
  [s \in Sectors |-> IF s \in {WALH, WALD} THEN Clear ELSE
                     Content(IF s \in Meta THEN Origin(s) ELSE s, 0)]

Unread == [k \in 1..Dir |-> Clear]

(* The ghosts: per metadata sector the version begun and the one acknowledged,*)
(* whether the log may hold a record, and whether an operation left the log   *)
(* in a state from which replay goes wrong.                                   *)
FsInit == fs = [step |-> "idle", kind |-> "none", i |-> 1, v |-> 0, sec |-> Unread,
                target |-> "none", log |-> Clear,
                begun |-> [t \in Meta |-> 0], acked |-> [t \in Meta |-> 0],
                logged |-> FALSE, window |-> FALSE]

Target == MetaSectors[fs.i]
Safe == fs.kind # "fast"

Read(val) == [fs.sec EXCEPT ![fs.i] = val]

(* The sector read before, with this operation's change in it. *)
Changed ==
  LET sec == fs.sec[Source(fs.i)]
  IN IF sec.w = "sector" THEN [sec EXCEPT !.v = fs.v] ELSE sec

(* The block call of each step: direction, sector and data. *)
Call ==
  CASE fs.step = "boot"     -> <<"in", "boot", Clear>>
    [] fs.step = "replay_h" -> <<"in", WALH, Clear>>
    [] fs.step = "replay_d" -> <<"in", WALD, Clear>>
    [] fs.step = "replay_t" -> <<"out", fs.target, fs.log>>
    [] fs.step = "replay_c" -> <<"out", WALH, Clear>>
    [] fs.step = "read_fat" -> <<"in", MetaSectors[fs.i], Clear>>
    [] fs.step = "data"     -> <<"out", "data", Content("data", fs.v)>>
    [] fs.step = "read_dir" -> <<"in", MetaSectors[Dir], Clear>>
    [] fs.step = "log_h"    -> <<"out", WALH, LogHeader(Target)>>
    [] fs.step = "log_d"    -> <<"out", WALD, Changed>>
    [] fs.step = "target"   -> <<"out", Target, Changed>>
    [] fs.step = "log_c"    -> <<"out", WALH, Clear>>

Go(step) == [fs EXCEPT !.step = step]

(* The operation is over, finished or given up. *)
Over == [fs EXCEPT !.step = "idle", !.kind = "none", !.i = 1, !.sec = Unread,
                   !.target = "none", !.log = Clear]

(* It stops between the two log writes (by an error or by a power failure):   *)
(* the header may name a sector whose data the log does not hold.             *)
Stopped == [Over EXCEPT !.window = @ \/ fs.step \in {"log_h", "log_d"}]

(* The first write of a metadata sector.  A write around the log while a      *)
(* record is still in it is undone by the next replay.                        *)
Begin(k, sec) ==
  [fs EXCEPT !.step = IF Safe THEN "log_h" ELSE "target", !.i = k, !.sec = sec,
             !.begun[MetaSectors[k]] = fs.v,
             !.window = @ \/ (~Safe /\ fs.logged), !.logged = @ \/ Safe]

NextSector == IF fs.i + 1 < Dir THEN Begin(fs.i + 1, fs.sec)
              ELSE IF fs.i < Dir THEN Go("read_dir") ELSE Over

(* After the mount; fat16CrashTest replays once more and reads the file back. *)
Mounted(f) ==
  CASE f.kind = "reread" -> [f EXCEPT !.step = "replay_h", !.kind = "reread2"]
    [] f.kind = "reread2" -> [f EXCEPT !.step = "idle", !.kind = "none", !.i = 1]
    [] OTHER -> [f EXCEPT !.step = "read_fat"]

(* A sector replayed from the log is as good as acknowledged. *)
Replayed ==
  [fs EXCEPT !.step = "replay_c",
             !.acked = [t \in Meta |-> IF t = fs.target /\ fs.log.w = "sector" /\ fs.log.v > @[t]
                                         THEN fs.log.v ELSE @[t]]]

(* mountFat16, with walReplayIfNeeded: failures of the replay are ignored. *)
AfterMount(ok, val) ==
  CASE fs.step = "boot"     -> IF ok THEN Go("replay_h") ELSE Over
    [] fs.step = "replay_h" -> IF ok /\ val.w = "WAL1"
                                 THEN [fs EXCEPT !.step = "replay_d", !.target = val.target]
                                 ELSE Mounted([fs EXCEPT !.logged = @ /\ ~ok])
    [] fs.step = "replay_d" -> IF ok THEN [fs EXCEPT !.step = "replay_t", !.log = val]
                                     ELSE Mounted([fs EXCEPT !.target = "none"])
    [] fs.step = "replay_t" -> IF ok THEN Replayed ELSE Go("replay_c")
    [] fs.step = "replay_c" -> Mounted([fs EXCEPT !.target = "none", !.log = Clear,
                                                  !.logged = @ /\ ~ok])

(* Mutant: the sector is not logged before it is written. *)
AfterWriteNoLog(ok, val) ==
  CASE fs.step \in {"log_h", "log_d"} -> IF ok THEN Go("target") ELSE Stopped
    [] fs.step = "target" -> IF ok THEN [fs EXCEPT !.step = "log_c", !.acked[Target] = fs.v]
                                   ELSE Stopped
    [] fs.step = "log_c"  -> NextSector

(* walWriteSector, sector after sector: only clearing the log may fail.  The  *)
(* crash test gives up the directory sector before its target is written.     *)
AfterWrite(ok, val) ==
  CASE fs.step = "log_h"  -> IF ok THEN Go("log_d") ELSE Stopped
    [] fs.step = "log_d"  -> IF ~ok THEN Stopped
                             ELSE IF fs.kind = "crash_test" /\ fs.i = Dir
                               THEN [Over EXCEPT !.step = "boot", !.kind = "reread"]
                             ELSE Go("target")
    [] fs.step = "target" -> IF ~ok THEN Stopped
                             ELSE IF Safe THEN [fs EXCEPT !.step = "log_c", !.acked[Target] = fs.v]
                             ELSE [NextSector EXCEPT !.acked[Target] = fs.v]
    [] fs.step = "log_c"  -> [NextSector EXCEPT !.logged = @ /\ (~ok \/ fs.i + 1 < Dir)]

(* fat16WriteFile and fat16DeleteFile: the reads that find the file (a failed *)
(* one ends the operation), its data, its FAT sectors, its directory sector.  *)
After(ok, val) ==
  CASE fs.step \in {"boot", "replay_h", "replay_d", "replay_t", "replay_c"} -> AfterMount(ok, val)
    [] fs.step = "read_fat" -> IF ~ok THEN Over
                               ELSE IF fs.i < sectorsPerFAT
                                 THEN [fs EXCEPT !.i = @ + 1, !.sec = Read(val)]
                               ELSE IF fs.kind = "delete" THEN Begin(1, Read(val))
                               ELSE [fs EXCEPT !.step = "data", !.i = 1, !.sec = Read(val)]
    [] fs.step = "data" -> IF ok THEN Begin(1, fs.sec) ELSE Over
    [] fs.step = "read_dir" -> IF ok THEN Begin(Dir, [fs.sec EXCEPT ![Dir] = val]) ELSE Over
    [] OTHER -> AfterWrite(ok, val)

(* The shell asks for the next operation - to write a file ("safe", "fast"),  *)
(* to "delete" one, or the "crash_test"; version fs.v is its change.          *)
StartOperation(kind) ==
  fs.step = "idle" /\ fs' = [fs EXCEPT !.step = "boot", !.kind = kind, !.v = @ + 1]
===============================================================================
