---------------------------- MODULE SnapshotExport ----------------------------
(***************************************************************************)
(* Taking a snapshot of an environment (SnapshotsService).  create_snapshot *)
(* starts an export of every table, writes their descriptions to the        *)
(* metadata file of the snapshot, and adds the snapshot to the table of     *)
(* snapshots.  The exports end in their own time; whoever lists the         *)
(* snapshots brings the metadata file and the status of those in progress   *)
(* up to date.                                                              *)
(*                                                                          *)
(* One path of the bucket is followed.  Requests run in threads: snapshots  *)
(* may be created at the path, and the snapshots listed, at the same time.  *)
(***************************************************************************)
EXTENDS Integers, Sequences, SequencesExt

CONSTANTS
    Creators,       \* requests to create a snapshot at the path
    Listers,        \* threads that list the snapshots, again and again
    ExportedTables, \* DYNAMODB_TABLES_TO_EXPORT, a sequence
    NoRow,
    MaxMishaps      \* bound: calls of AWS that fail, and crashes

VARIABLES
    export,         \* external: the exports, by creator and table
    metadata,       \* the metadata file
    snapshot,       \* the row of the table of snapshots
    creator,        \* the threads
    lister,
    caveats,        \* history: why the row may say something else
    mishaps

exportVars == <<export, metadata, snapshot, creator, lister, caveats, mishaps>>

TableNames == Range(ExportedTables)
Idle == [at |-> "idle"]

ExportStatuses == {"IN_PROGRESS", "COMPLETED", "FAILED"}
Metadata == [by : Creators, status : [TableNames -> ExportStatuses]]
SnapshotRows == [by : Creators, status : ExportStatuses]

ASSUME ExportParameters ==
    /\ ExportedTables \in Seq(TableNames) /\ ExportedTables # <<>>
    /\ NoRow \notin Metadata \cup SnapshotRows
    /\ MaxMishaps \in Nat

ExportInit ==
    /\ export = [c \in Creators |-> [t \in TableNames |-> "none"]]
    /\ metadata = NoRow /\ snapshot = NoRow
    /\ creator = [c \in Creators |-> [at |-> "idle", todo |-> ExportedTables]]
    /\ lister = [l \in Listers |-> Idle]
    /\ caveats = {} /\ mishaps = 0

Mishap == mishaps < MaxMishaps /\ mishaps' = mishaps + 1
NoMishap == UNCHANGED mishaps
Caveat(labels) == caveats' = caveats \cup labels

-----------------------------------------------------------------------------
(* An export ends (DynamoDB).                                                *)
ExportEnds(c, t) ==
    /\ export[c][t] = "IN_PROGRESS"
    /\ \/ export' = [export EXCEPT ![c][t] = "COMPLETED"] /\ NoMishap
       \/ export' = [export EXCEPT ![c][t] = "FAILED"] /\ Mishap
    /\ UNCHANGED <<metadata, snapshot, creator, lister, caveats>>

-----------------------------------------------------------------------------
(* create_snapshot *)

CreatorAt(c, at) == creator' = [creator EXCEPT ![c].at = at]

StartExport(c) ==
    /\ creator[c].at = "idle" /\ creator[c].todo # <<>>
    /\ export' = [export EXCEPT ![c][Head(creator[c].todo)] = "IN_PROGRESS"]
    /\ creator' = [creator EXCEPT ![c].todo = Tail(@),
                                  ![c].at = IF Len(creator[c].todo) = 1 THEN "metadata" ELSE @]
    /\ UNCHANGED <<metadata, snapshot, lister, caveats, mishaps>>

(* The descriptions are those of the moment the exports were started.        *)
NewMetadata(c) == [by |-> c, status |-> [t \in TableNames |-> "IN_PROGRESS"]]

WriteMetadata(c) ==
    /\ creator[c].at = "metadata"
    /\ metadata' = NewMetadata(c)
    /\ CreatorAt(c, "row")
    /\ UNCHANGED <<export, snapshot, lister, caveats, mishaps>>

CreateRow(c) ==
    /\ creator[c].at = "row"
    /\ snapshot' = [by |-> c, status |-> "IN_PROGRESS"]
    /\ CreatorAt(c, "done")
    /\ caveats' = IF metadata = NewMetadata(c) /\ \A l \in Listers : lister[l] = Idle
                  THEN {} ELSE caveats \cup {"recreated"}
    /\ UNCHANGED <<export, metadata, lister, mishaps>>

(* A ClientError of any of these calls.                                      *)
CreateFails(c) ==
    /\ creator[c].at \in {"idle", "metadata", "row"}
    /\ Mishap
    /\ CreatorAt(c, "failed")
    /\ UNCHANGED <<export, metadata, snapshot, lister, caveats>>

CreateFailedRow(c) ==
    /\ creator[c].at = "failed"
    /\ CreatorAt(c, "done")
    /\ \/ snapshot' = [by |-> c, status |-> "FAILED"] /\ Caveat({"fault"}) /\ NoMishap
       \/ Mishap /\ UNCHANGED <<snapshot, caveats>>
    /\ UNCHANGED <<export, metadata, lister>>

-----------------------------------------------------------------------------
(* list_snapshots and __update_snapshot_status *)

ListerAt(l, at) == lister' = [lister EXCEPT ![l] = [@ EXCEPT !.at = at]]
Leave(l) == lister' = [lister EXCEPT ![l] = Idle]

ListSnapshots(l) ==
    /\ lister[l] = Idle
    /\ snapshot # NoRow /\ snapshot.status = "IN_PROGRESS"
    /\ lister' = [lister EXCEPT ![l] = [at |-> "get"]]
    /\ UNCHANGED <<export, metadata, snapshot, creator, caveats, mishaps>>

GetMetadata(l) ==
    /\ lister[l].at = "get"
    /\ lister' = [lister EXCEPT ![l] = [at |-> "describe", copy |-> metadata, todo |-> ExportedTables,
                                        updated |-> FALSE]]
    /\ UNCHANGED <<export, metadata, snapshot, creator, caveats, mishaps>>

(* The loop over the tables.  A table that had failed already ends it.       *)
DescribeExport(l) ==
    /\ lister[l].at = "describe" /\ lister[l].todo # <<>>
    /\ LET t == Head(lister[l].todo)
           known == lister[l].copy.status[t]
           latest == export[lister[l].copy.by][t]
       IN  lister' = [lister EXCEPT
                ![l].todo = IF known = "FAILED" THEN <<>> ELSE Tail(@),
                ![l].copy.status[t] = IF known = "IN_PROGRESS" THEN latest ELSE @,
                ![l].updated = @ \/ known = "FAILED" \/ (known = "IN_PROGRESS" /\ latest # "IN_PROGRESS")]
    /\ UNCHANGED <<export, metadata, snapshot, creator, caveats, mishaps>>

NothingNew(l) ==
    /\ lister[l].at = "describe" /\ lister[l].todo = <<>> /\ ~lister[l].updated
    /\ Leave(l)
    /\ UNCHANGED <<export, metadata, snapshot, creator, caveats, mishaps>>

(* Mutant: the metadata file is left as it was.                              *)
PutMetadataNothing(l) ==
    /\ lister[l].at = "describe" /\ lister[l].todo = <<>> /\ lister[l].updated
    /\ ListerAt(l, "update")
    /\ UNCHANGED <<export, metadata, snapshot, creator, caveats, mishaps>>

(* The file is written as a whole; another thread may have written it since  *)
(* it was read.                                                              *)
PutMetadata(l) ==
    /\ lister[l].at = "describe" /\ lister[l].todo = <<>> /\ lister[l].updated
    /\ metadata' = lister[l].copy
    /\ ListerAt(l, "update")
    /\ Caveat((IF metadata.by # lister[l].copy.by THEN {"recreated"} ELSE {})
              \cup (IF \E t \in TableNames : metadata.status[t] = "COMPLETED"
                                             /\ lister[l].copy.status[t] = "IN_PROGRESS"
                    THEN {"lost"} ELSE {}))
    /\ UNCHANGED <<export, snapshot, creator, mishaps>>

(* The status that the tables amount to.                                     *)
Outcome(status) ==
    IF \E t \in TableNames : status[t] = "FAILED" THEN "FAILED"
    ELSE IF \A t \in TableNames : status[t] = "COMPLETED" THEN "COMPLETED"
    ELSE "IN_PROGRESS"

(* update_snapshot_status of the table refuses a status that is there        *)
(* already: a ClientError, like any other.                                   *)
UpdateStatus(l) ==
    /\ lister[l].at = "update"
    /\ LET status == Outcome(lister[l].copy.status)
           refused == status = snapshot.status
       IN  CASE status = "IN_PROGRESS" -> Leave(l) /\ UNCHANGED <<snapshot, caveats>>
             [] status # "IN_PROGRESS" /\ ~refused ->
                    /\ snapshot' = [snapshot EXCEPT !.status = status]
                    /\ Leave(l)
                    /\ Caveat(IF snapshot.by # lister[l].copy.by THEN {"recreated"} ELSE {})
             [] OTHER -> /\ ListerAt(l, "failed")
                         /\ Caveat(IF status = "COMPLETED" THEN {"raced"} ELSE {})
                         /\ UNCHANGED snapshot
    /\ UNCHANGED <<export, metadata, creator, mishaps>>

ListFails(l) ==
    /\ lister[l].at \in {"get", "describe", "update"}
    /\ Mishap
    /\ lister' = [lister EXCEPT ![l] = [at |-> "failed"]]
    /\ Caveat({"fault"})
    /\ UNCHANGED <<export, metadata, snapshot, creator>>

(* The handler of the ClientError marks the snapshot FAILED; when that fails *)
(* too the request fails.                                                    *)
MarkFailed(l) ==
    /\ lister[l].at = "failed"
    /\ Leave(l)
    /\ \/ snapshot' = [snapshot EXCEPT !.status = "FAILED"] /\ NoMishap
       \/ Mishap /\ UNCHANGED snapshot
    /\ UNCHANGED <<export, metadata, creator, caveats>>

-----------------------------------------------------------------------------
(* The cluster manager dies, and its threads with it.                        *)
CrashRequests ==
    /\ Mishap
    /\ \/ \E l \in Listers : lister[l] # Idle
       \/ \E c \in Creators : creator[c].at # "done"
    /\ lister' = [l \in Listers |-> Idle]
    /\ creator' = [c \in Creators |->
                    IF creator[c].at = "idle" /\ creator[c].todo = ExportedTables THEN creator[c]
                    ELSE [at |-> "done", todo |-> <<>>]]
    /\ Caveat(IF \E l \in Listers : lister[l].at \in {"update", "failed"} THEN {"crashed"} ELSE {})
    /\ UNCHANGED <<export, metadata, snapshot>>

ExportNext ==
    \/ \E c \in Creators, t \in TableNames : ExportEnds(c, t)
    \/ \E c \in Creators :
        StartExport(c) \/ WriteMetadata(c) \/ CreateRow(c) \/ CreateFails(c) \/ CreateFailedRow(c)
    \/ \E l \in Listers :
        \/ ListSnapshots(l) \/ GetMetadata(l) \/ DescribeExport(l) \/ NothingNew(l)
        \/ PutMetadata(l) \/ UpdateStatus(l) \/ ListFails(l) \/ MarkFailed(l)
    \/ CrashRequests

(* Nobody is at work.                                                        *)
ExportFinished ==
    /\ \A c \in Creators : creator[c].at = "done"
    /\ \A l \in Listers : lister[l] = Idle

-----------------------------------------------------------------------------
ExportTypeOK ==
    /\ export \in [Creators -> [TableNames -> ExportStatuses \cup {"none"}]]
    /\ metadata = NoRow \/ metadata \in Metadata
    /\ snapshot = NoRow \/ snapshot \in SnapshotRows
    /\ \A c \in Creators : creator[c].at \in {"idle", "metadata", "row", "failed", "done"}
    /\ \A l \in Listers : lister[l].at \in {"idle", "get", "describe", "update", "failed"}
    /\ caveats \subseteq {"fault", "raced", "recreated", "lost", "crashed"}
    /\ mishaps \in 0..MaxMishaps

(* The row of a snapshot says what became of it.  COMPLETED: every export    *)
(* has completed, and the metadata file, from which the snapshot will be     *)
(* applied, says so, unless a thread wrote an older copy of the file back    *)
(* ("lost").  FAILED: an export has failed, or a call has ("fault"), or two  *)
(* threads found the snapshot completed, and the second one took the refusal *)
(* of its update for a failure ("raced").  IN_PROGRESS: there is still       *)
(* something to be found out or about to be written, unless the thread that  *)
(* was about to died ("crashed") or could not.  None of it holds once a      *)
(* snapshot is created at the path while another is at work there.           *)
ExportStatusIsTrue ==
    snapshot # NoRow /\ "recreated" \notin caveats =>
        /\ snapshot.status = "COMPLETED" =>
            \A t \in TableNames : /\ export[snapshot.by][t] = "COMPLETED"
                                  /\ metadata.by = snapshot.by /\ "lost" \notin caveats
                                        => metadata.status[t] = "COMPLETED"
        /\ snapshot.status = "FAILED" =>
            \/ \E t \in TableNames : export[snapshot.by][t] = "FAILED"
            \/ caveats \cap {"fault", "raced"} # {}
        /\ snapshot.status = "IN_PROGRESS" /\ metadata.by = snapshot.by
           /\ Outcome(metadata.status) = "COMPLETED" =>
            \/ \E l \in Listers : lister[l].at \in {"update", "failed"}
            \/ caveats \cap {"fault", "crashed"} # {}
=============================================================================
