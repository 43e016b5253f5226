------------------------------- MODULE Snapshots -------------------------------
(***************************************************************************)
(* The snapshots of RES: an environment takes a snapshot (SnapshotExport),  *)
(* and an environment, most often another one, applies snapshots            *)
(* (ApplySnapshot).  What passes between them is the bucket: the exported   *)
(* tables, which nobody changes.  The two share no other state, so a        *)
(* behaviour follows one of them, the one `deployment` names, and the       *)
(* other stands still.                                                      *)
(***************************************************************************)
EXTENDS SnapshotExport, ApplySnapshot

VARIABLE deployment     \* the deployment that is followed: "old" or "new"

vars == <<exportVars, applyVars, deployment>>

Init ==
    /\ deployment \in {"old", "new"}
    /\ ExportInit
    /\ ApplyInit

Finished ==
    /\ CASE deployment = "old" -> ExportFinished
         [] deployment = "new" -> ApplyFinished
    /\ UNCHANGED vars

Next ==
    \/ deployment = "old" /\ ExportNext /\ UNCHANGED <<applyVars, deployment>>
    \/ deployment = "new" /\ ApplyNext /\ UNCHANGED <<exportVars, deployment>>
    \/ Finished

Spec == Init /\ [][Next]_vars

(* The type invariant of both.                                               *)
TypeOK == deployment \in {"old", "new"} /\ ExportTypeOK /\ ApplyTypeOK
=============================================================================
