------------------------------ MODULE FileSink ------------------------------
(***************************************************************************)
(* ema::log::FileSink and LogFile (src/logger/file_sink.cpp, log_file.cpp):  *)
(* the current log is app.log, index 0; when it is full RoutingLogs renames  *)
(* every log to the index its rank gives it, counting from 1, the oldest     *)
(* first, and then either starts a new app.log or takes the oldest log back  *)
(* as the new one.                                                          *)
(*                                                                         *)
(* Each change of the directory (a write, a rename, an open) is a step, so   *)
(* the process can die between any two, and a rename or an open can fail.    *)
(* Messages are numbered in the order in which they are written; each has    *)
(* one byte and the newline that std::endl adds has one.                     *)
(***************************************************************************)
EXTENDS Naturals, Sequences, FiniteSets

CONSTANTS
  Sizes,         \* values of max_file_size; 0 is no limit
  MaxCount,      \* max_file_count is 0 .. MaxCount
  MaxMsgs,       \* model bound: messages written
  MaxFaults      \* model bound: crashes of the process and failures of a call

(* FileSinkConfig; trunc stands for Mode::Truncate.                          *)
Config == [max_file_size : Sizes, max_file_count : 0 .. MaxCount, trunc : BOOLEAN]

(* Bound of the model on the indices of logs; no behaviour reaches it.       *)
MaxIndex == MaxCount + MaxFaults + 2
Index == 0 .. MaxIndex
Msgs == 1 .. MaxMsgs

ASSUME FileSinkAssumption ==
  /\ Sizes \subseteq Nat /\ MaxCount \in Nat
  /\ MaxMsgs \in Nat /\ MaxFaults \in Nat

VARIABLES
  config,    \* _config
  dir,       \* the log directory exists
  exists,    \* the indices whose log is in the directory
  disk,      \* what each of them holds, as message numbers
  pc,        \* where the sink is
  cur_size,  \* _cur_size of the current log
  todo,      \* the logs RoutingLogs has still to rename, by index
  index,     \* the index the next of them gets
  size,      \* logs.size()
  written,   \* messages written so far
  dropped,   \* messages a truncation has removed
  faults     \* crashes and failures so far

sinkVars == <<config, dir, exists, disk, pc, cur_size, todo, index, size, written, dropped, faults>>

(***************************************************************************)
(* The sink: not initialised ("down"), with its log open ("ready"), without  *)
(* an open log, so that Log returns false ("shut"), or in RoutingLogs:       *)
(* renaming ("shift"), taking the oldest log back ("recycle"), opening the   *)
(* new log ("open").                                                        *)
(***************************************************************************)
PC == {"down", "ready", "shut", "shift", "recycle", "open"}

SinkTypeOK ==
  /\ config \in Config
  /\ dir \in BOOLEAN
  /\ exists \subseteq Index
  /\ disk \in [Index -> Seq(Msgs)]
  /\ pc \in PC
  /\ cur_size \in Nat
  /\ todo \subseteq Index
  /\ index \in Index /\ size \in Index
  /\ written \in 0 .. MaxMsgs
  /\ dropped \subseteq Msgs
  /\ faults \in 0 .. MaxFaults

SinkInit ==
  /\ config \in Config
  /\ dir \in BOOLEAN
  /\ exists = {}
  /\ disk = [i \in Index |-> <<>>]
  /\ pc = "down"
  /\ cur_size = 0
  /\ todo = {} /\ index = 0 /\ size = 0
  /\ written = 0
  /\ dropped = {}
  /\ faults = 0

-----------------------------------------------------------------------------
Elements(s) == {s[i] : i \in 1 .. Len(s)}

(* The renaming goes through the map of logs from the highest index down.    *)
Youngest(S) == CHOOSE i \in S : \A j \in S : i <= j

Oldest(S) == CHOOSE i \in S : \A j \in S : j <= i

(* Open of app.log.  The size is read back from the file, newlines included. *)
OpenLog(trunc) ==
  /\ exists' = exists \cup {0}
  /\ disk' = IF trunc THEN [disk EXCEPT ![0] = <<>>] ELSE disk
  /\ dropped' = IF trunc THEN dropped \cup Elements(disk[0]) ELSE dropped
  /\ cur_size' = 2 * Len(disk'[0])
  /\ pc' = "ready"

(* std::filesystem::rename replaces a file that is in the way.              *)
Rename(i, j) ==
  /\ exists' = (exists \ {i}) \cup {j}
  /\ disk' = [k \in Index |-> IF k = j THEN disk[i] ELSE IF k = i THEN <<>> ELSE disk[k]]

-----------------------------------------------------------------------------
(* FileSink::Init fails when it has just created the directory; the next     *)
(* one finds it.                                                            *)
InitDirectory ==
  /\ pc \in {"down", "ready", "shut"}
  /\ ~dir
  /\ dir' = TRUE
  /\ UNCHANGED <<config, exists, disk, pc, cur_size, todo, index, size, written, dropped, faults>>

InitOpen ==
  /\ pc \in {"down", "ready", "shut"}
  /\ dir
  /\ OpenLog(config.trunc)
  /\ UNCHANGED <<config, dir, todo, index, size, written, faults>>

Uninit ==
  /\ pc \in {"ready", "shut"}
  /\ pc' = "down"
  /\ UNCHANGED <<config, dir, exists, disk, cur_size, todo, index, size, written, dropped, faults>>

(* A full log: below the limit of bytes nothing happens; with one file it    *)
(* is emptied; otherwise ListLogs finds the others and the renaming begins.  *)
Full == config.max_file_size # 0 /\ cur_size + 1 >= config.max_file_size

RoutingLogs ==
  /\ pc' = "shift"
  /\ todo' = exists
  /\ index' = Cardinality(exists)
  /\ size' = Cardinality(exists)

(* A message below the level, or without an open log, changes nothing.       *)
Log ==
  LET m == written + 1
  IN /\ pc = "ready"
     /\ m <= MaxMsgs
     /\ written' = m
     /\ disk' = [disk EXCEPT ![0] = Append(@, m)]
     /\ cur_size' = cur_size + 1
     /\ \/ /\ ~Full
           /\ UNCHANGED <<pc, todo, index, size>>
        \/ /\ Full /\ config.max_file_count = 1
           /\ pc' = "open"
           /\ UNCHANGED <<todo, index, size>>
        \/ /\ Full /\ config.max_file_count # 1
           /\ RoutingLogs
     /\ UNCHANGED <<config, dir, exists, dropped, faults>>

(* RoutingLogs: one rename per log, the highest index first.  A rename whose *)
(* log has gone (i \notin exists) would be the deadlock TLC looks for.        *)
Shift ==
  LET i == Oldest(todo)
  IN /\ pc = "shift"
     /\ todo # {}
     /\ i \in exists
     /\ Rename(i, index)
     /\ todo' = todo \ {i}
     /\ index' = index - 1
     /\ UNCHANGED <<config, dir, pc, cur_size, size, written, dropped, faults>>

ShiftedLate ==
  /\ pc = "shift"
  /\ todo = {}
  /\ pc' = IF size <= config.max_file_count THEN "open" ELSE "recycle"
  /\ UNCHANGED <<config, dir, exists, disk, cur_size, todo, index, size, written, dropped, faults>>

Shifted ==
  /\ pc = "shift"
  /\ todo = {}
  /\ pc' = IF size < config.max_file_count THEN "open" ELSE "recycle"
  /\ UNCHANGED <<config, dir, exists, disk, cur_size, todo, index, size, written, dropped, faults>>

(* The log with the highest index, which the renaming gave the number of     *)
(* logs, becomes app.log again.                                             *)
RecycleYoungest ==
  /\ pc = "recycle"
  /\ Rename(1, 0)
  /\ pc' = "open"
  /\ UNCHANGED <<config, dir, cur_size, todo, index, size, written, dropped, faults>>

Recycle ==
  /\ pc = "recycle"
  /\ size \in exists
  /\ Rename(size, 0)
  /\ pc' = "open"
  /\ UNCHANGED <<config, dir, cur_size, todo, index, size, written, dropped, faults>>

Reopen ==
  /\ pc = "open"
  /\ OpenLog(TRUE)
  /\ UNCHANGED <<config, dir, todo, index, size, written, faults>>

(* A rename or an open fails: RoutingLogs, or Init, gives up, without an     *)
(* open log.                                                                *)
Fail ==
  /\ pc \in {"down", "shift", "recycle", "open"}
  /\ faults < MaxFaults
  /\ faults' = faults + 1
  /\ pc' = "shut"
  /\ UNCHANGED <<config, dir, exists, disk, cur_size, todo, index, size, written, dropped>>

(* The process dies.  What was written is in the file: std::endl flushes.    *)
Crash ==
  /\ pc # "down"
  /\ faults < MaxFaults
  /\ faults' = faults + 1
  /\ pc' = "down"
  /\ UNCHANGED <<config, dir, exists, disk, cur_size, todo, index, size, written, dropped>>

SinkNext ==
  \/ InitDirectory
  \/ InitOpen
  \/ Uninit
  \/ Log
  \/ Shift
  \/ Shifted
  \/ Recycle
  \/ Reopen
  \/ Fail
  \/ Crash

SinkSpec == SinkInit /\ [][SinkNext]_sinkVars

-----------------------------------------------------------------------------
OnDisk == UNION {Elements(disk[i]) : i \in exists}

(* Renaming never destroys a log: every message is in exactly one log, once, *)
(* or was removed by a truncation.  This survives crashes and failures in    *)
(* the middle of RoutingLogs, because they leave every index at most one     *)
(* above the rank of its log (file_sink.cpp 81-102, log_file.cpp 28-38).     *)
NothingClobbered ==
  /\ OnDisk \cup dropped = 1 .. written
  /\ OnDisk \cap dropped = {}
  /\ \A i, j \in exists : i # j => Elements(disk[i]) \cap Elements(disk[j]) = {}

(* Between rotations, and while nothing went wrong, the logs read from the    *)
(* highest index down hold the messages in the order of their writing, and   *)
(* those up to the latest without a gap unless Init truncates app.log        *)
(* (file_sink.cpp 8-16, 81-102).                                            *)
LatestInOrder ==
  (faults = 0 /\ pc \in {"ready", "down"}) =>
     /\ \A i, j \in exists : \A k \in 1 .. Len(disk[i]), l \in 1 .. Len(disk[j]) :
          (i > j \/ (i = j /\ k < l)) => disk[i][k] < disk[j][l]
     /\ ~config.trunc => \A m \in OnDisk : m .. written \subseteq OnDisk

(* With max_file_count files the latest max_file_count - 1 messages stay on   *)
(* disk whatever crashes and fails: what a rotation empties is older.  With   *)
(* a single file, or in mode Truncate, even the latest message can be gone    *)
(* at once (file_sink.cpp 14, 84, 94-101).                                   *)
LatestKept ==
  (~config.trunc /\ config.max_file_count > 1) =>
     \A m \in 1 .. written : m + config.max_file_count > written + 1 => m \in OnDisk

(* No rotation leaves more logs than max_file_count, except that each crash   *)
(* or failure can leave one more, which then stays (file_sink.cpp 94-101).    *)
CountBound ==
  Cardinality(exists) <= faults + IF config.max_file_count = 0 THEN 1 ELSE config.max_file_count
=============================================================================
