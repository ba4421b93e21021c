------------------------------ MODULE MCCoreLoop ------------------------------
(* Small machines: in the tickless and in the periodic build, with a disk     *)
(* behind a slot of another device and without a usable disk.                 *)
EXTENDS CoreLoop

Slot(id, version, ok) == [magic |-> TRUE, version |-> version, device_id |-> id,
                          features_ok |-> ok, queue_max |-> 8, pages |-> TRUE]
WithDisk == <<Slot("net", 2, TRUE), Slot("block", 1, TRUE)>>
NoDisk == <<Slot("block", 2, FALSE)>>

Quiet(load, tickless) == [slots |-> NoDisk, load |-> load, tickless |-> tickless,
                          kinds |-> {}, ops |-> 0, may |-> {}, faults |-> 0]
Files(slots, kinds, ops, may, n) ==
  [slots |-> slots, load |-> "disk", tickless |-> TRUE,
   kinds |-> kinds, ops |-> ops, may |-> may, faults |-> n]

MCMachines ==
  {Quiet("console", TRUE), Quiet("work", TRUE), Quiet("work", FALSE),
   Files(NoDisk, {"safe"}, 1, {}, 0),
   Files(WithDisk, {"safe", "fast", "delete", "crash_test"}, 2, {"error", "crash"}, 1),
   Files(WithDisk, {"safe"}, 2, {"error", "crash"}, 2),
   Files(WithDisk, {"delete"}, 1, {"timeout"}, 1)}
MCClientCmds == <<[tag |-> "OPEN_CONTRACT", len |-> 8, kind |-> "EVT"],
                  [tag |-> "QUERY_INTENTS", len |-> 0],
                  [tag |-> "WRITE", len |-> 1, ch |-> 0],
                  [tag |-> "OPEN_CONTRACT", len |-> 4]>>
MCMetaSectors == <<"fat", "copy", "dir">>
===============================================================================
