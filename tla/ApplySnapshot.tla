---------------------------- MODULE ApplySnapshot -----------------------------
(***************************************************************************)
(* Applying snapshots to an environment (class ApplySnapshot and the table *)
(* mergers).  An application imports the tables of a snapshot, merges their *)
(* records into the tables of the environment, table after table, and when  *)
(* a record fails undoes what it did, in the opposite order.                *)
(*                                                                          *)
(* Applications run in threads of the cluster manager and may overlap, with *)
(* each other and with administrators and users.  Different snapshots hold  *)
(* records of the same names, and no two the same storage.  There are        *)
(* records that the environment cannot take: software stacks whose image is  *)
(* not in its region, file systems that have no provider, are of another     *)
(* scope, not in its network or onboarded already, records without a name.   *)
(*                                                                          *)
(* A row is its name, the suffix it was given because the name was taken    *)
(* (None or the application), and who made it: an application, or the       *)
(* environment, with the very content of the snapshot ("same") or other     *)
(* ("env").                                                                  *)
(***************************************************************************)
EXTENDS Integers, Sequences, FiniteSets, SequencesExt

CONSTANTS
    Applications,   \* requests to apply a snapshot
    Records,        \* the records of the snapshots, for each table in order
    WantedRole,     \* the role a snapshot gives to a user
    Accounts,       \* the users that the environment has
    Unfit,          \* the records of each application that it cannot take
    Environments,   \* the rows an environment may start with
    None,
    MaxFaults,      \* bound: calls that fail, and crashes
    MaxEvents       \* bound: acts of administrators and users

VARIABLES
    rows,           \* the profiles, projects, software stacks and file systems
    role,           \* the users: their role, and who gave it
    used,           \* rows that a virtual desktop session uses
    status,         \* the records of the applications
    app,            \* their threads
    temp,           \* the applications that have imported tables
    excuse,         \* history: the known ways in which rows were left behind
    faults, events

environmentVars == <<rows, role, used>>
applyVars == <<rows, role, used, status, app, temp, excuse, faults, events>>

(* TABLES_IN_MERGE_DEPENDENCY_ORDER *)
Tables == <<"users", "profiles", "projects", "software_stacks", "cluster_settings">>

Users == Range(Records[1]) \cap Accounts
Names == UNION {Range(Records[t]) : t \in DOMAIN Tables}
RowsOf(names) == [table : 2..5, name : names, suffix : Applications \cup {None},
                  by : Applications \cup {"env", "same"}]
Roles == [value : {"user", "admin"}, by : Applications \cup {"env", "admin"}]

ASSUME ApplyParameters ==
    /\ DOMAIN Records = DOMAIN Tables
    /\ \A t \in DOMAIN Tables : Records[t] \in Seq(Range(Records[t]))
    /\ WantedRole \in [Applications -> {"user", "admin"}]
    /\ Unfit \in [Applications -> SUBSET Names]
    /\ \A environment \in Environments :
        environment \subseteq {row \in RowsOf(Names) : row.by \notin Applications}
    /\ Applications \cap {"env", "same", "admin", None} = {}
    /\ MaxFaults \in Nat /\ MaxEvents \in Nat

NoDeltas == [t \in DOMAIN Tables |-> <<>>]
Waiting == [at |-> "none"]

ApplyInit ==
    /\ rows \in Environments
    /\ role = [u \in Users |-> [value |-> "user", by |-> "env"]]
    /\ used = {}
    /\ status = [a \in Applications |-> "none"]
    /\ app = [a \in Applications |-> Waiting]
    /\ temp = {}
    /\ excuse = [a \in Applications |-> {}]
    /\ faults = 0 /\ events = 0

Fault == faults < MaxFaults /\ faults' = faults + 1
NoFault == UNCHANGED faults
Note(a, labels) == excuse' = [excuse EXCEPT ![a] = @ \cup labels]

-----------------------------------------------------------------------------
(* initialize, and the steps before the merge.                               *)

Goto(a, at) == app' = [app EXCEPT ![a].at = at]
SetStatus(a, s) == status' = [status EXCEPT ![a] = s]

Initialize(a) ==
    /\ app[a].at = "none"
    /\ \/ NoFault /\ SetStatus(a, "IN_PROGRESS") /\ Goto(a, "import")
       \/ Fault /\ SetStatus(a, "FAILED") /\ Goto(a, "done")
    /\ UNCHANGED <<environmentVars, temp, excuse, events>>

(* What apply_snapshot_main does with an exception: no rollback.             *)
Fail(a) == SetStatus(a, "FAILED") /\ Goto(a, "cleanup")

ImportAllTables(a) ==
    /\ app[a].at = "import"
    /\ temp' = temp \cup {a}
    /\ \/ NoFault /\ Goto(a, "read") /\ UNCHANGED status
       \/ Fault /\ Fail(a)
    /\ UNCHANGED <<environmentVars, excuse, events>>

(* scan_ddb_tables and apply_data_transformations *)
ReadTables(a) ==
    /\ app[a].at = "read"
    /\ \/ /\ NoFault
          /\ app' = [app EXCEPT ![a] = [at |-> "resolve", t |-> 1, todo |-> Records[1], target |-> None,
                                        mine |-> <<>>, deltas |-> NoDeltas]]
          /\ UNCHANGED status
       \/ Fault /\ Fail(a)
    /\ UNCHANGED <<environmentVars, temp, excuse, events>>

-----------------------------------------------------------------------------
(* The merge of a record: first the record is resolved, then written.        *)

Taken(n, suffix) == \E r \in rows : r.name = n /\ r.suffix = suffix

(* Mutant: the loop goes on to write after it has passed over the record.    *)
SkipAndWrite(a) == app' = [app EXCEPT ![a].at = "write", ![a].todo = Tail(@)]

Skip(a) == app' = [app EXCEPT ![a].at = "resolve", ![a].todo = Tail(@)]

(* UsersTableMerger.merge: no user is created.                               *)
ResolveUser(a) ==
    LET u == Head(app[a].todo)
    IN  IF u \notin Users THEN Skip(a)
        ELSE IF role[u].value = WantedRole[a] THEN Skip(a)
        ELSE app' = [app EXCEPT ![a].at = "write", ![a].target = role[u]]

(* resolve_record, and what the mergers look at before: a record that is     *)
(* there already, or cannot be taken, is skipped (the image of a software    *)
(* stack is only looked at when the stack is created, and the storage of a   *)
(* file system again when it is onboarded); one whose name is taken gets     *)
(* the name with the application's id.                                        *)
ResolveRecord(a) ==
    LET n == Head(app[a].todo)
        unfit == n \in Unfit[a]
        unchanged == \E r \in rows : r.name = n /\ r.by = "same"
    IN  \/ /\ unchanged \/ (unfit /\ Tables[app[a].t] # "software_stacks")
           /\ Skip(a)
        \/ /\ ~unchanged
           /\ unfit => Tables[app[a].t] \in {"software_stacks", "cluster_settings"}
           /\ app' = [app EXCEPT ![a].at = "write", ![a].target = IF Taken(n, None) THEN a ELSE None]

Resolve(a) ==
    /\ app[a].at = "resolve" /\ app[a].todo # <<>>
    /\ IF app[a].t = 1 THEN ResolveUser(a) ELSE ResolveRecord(a)
    /\ UNCHANGED <<environmentVars, status, temp, excuse, faults, events>>

(* The merger returns the deltas, or raises and takes them along.            *)
Return(a) ==
    app' = [app EXCEPT ![a].at = "announce", ![a].deltas[app[a].t] = app[a].mine]
Raise(a) == Goto(a, "announce")

(* The mergers that let a SocaException through: that of the users, when it *)
(* looks for a user.                                                         *)
Raises(a) ==
    \/ Tables[app[a].t] \in {"software_stacks", "cluster_settings"}
    \/ Tables[app[a].t] = "users" /\ app[a].at = "resolve"

Written(a) == [table |-> app[a].t, name |-> Head(app[a].todo), suffix |-> app[a].target, by |-> a]

(* Mutant: the row is not remembered.                                        *)
CreateUnrecorded(a) ==
    /\ rows' = rows \cup {Written(a)}
    /\ Skip(a)

Create(a) ==
    /\ rows' = rows \cup {Written(a)}
    /\ app' = [app EXCEPT ![a].at = "resolve", ![a].todo = Tail(@), ![a].mine = Append(@, Written(a))]

(* UsersTableMerger.apply *)
WriteUser(a) ==
    LET u == Head(app[a].todo)
    IN  /\ role' = [role EXCEPT ![u] = [value |-> WantedRole[a], by |-> a]]
        /\ app' = [app EXCEPT ![a].at = "resolve", ![a].todo = Tail(@),
                              ![a].mine = Append(@, [user |-> u, old |-> app[a].target])]
        /\ Note(a, IF app[a].target.by \in Applications \/ role[u] # app[a].target
                   THEN {"overlap"} ELSE {})
        /\ UNCHANGED rows

(* The name was taken after it was resolved: profiles and projects say so,   *)
(* and their mergers return; file systems say so, and their merger raises;   *)
(* two software stacks may have one name.  INVALID_PARAMS of an image, and    *)
(* FILESYSTEM_ALREADY_ONBOARDED or NOT_IN_VPC, pass over the record.          *)
WriteRecord(a) ==
    LET n == Head(app[a].todo)
        table == Tables[app[a].t]
        clash == table # "software_stacks" /\ Taken(n, app[a].target)
    IN  /\ \/ clash /\ table \in {"profiles", "projects"} /\ Return(a) /\ UNCHANGED rows
           \/ clash /\ table = "cluster_settings" /\ Raise(a) /\ UNCHANGED rows
           \/ ~clash /\ n \in Unfit[a] /\ Skip(a) /\ UNCHANGED rows
           \/ ~clash /\ n \notin Unfit[a] /\ Create(a)
        /\ Note(a, IF clash /\ Raises(a) /\ app[a].mine # <<>> THEN {"escaped"} ELSE {})
        /\ UNCHANGED role

Write(a) ==
    /\ app[a].at = "write"
    /\ IF app[a].t = 1 THEN WriteUser(a) ELSE WriteRecord(a)
    /\ UNCHANGED <<used, status, temp, faults, events>>

(* A call of the merger fails, and the merger returns or raises.  The call   *)
(* may have had its effect before it failed.                                 *)
MergeFails(a) ==
    /\ app[a].at \in {"resolve", "write"} /\ app[a].todo # <<>>
    /\ Fault
    /\ \E effect \in {rows} \cup (IF app[a].at = "write" /\ app[a].t > 1
                                     /\ ~Taken(Head(app[a].todo), app[a].target)
                                     /\ Head(app[a].todo) \notin Unfit[a]
                                  THEN {rows \cup {Written(a)}} ELSE {}) :
        /\ rows' = effect
        /\ \/ /\ Return(a)
              /\ Note(a, IF effect # rows THEN {"halfway"} ELSE {})
           \/ /\ Raises(a)
              /\ Raise(a)
              /\ Note(a, (IF effect # rows THEN {"halfway"} ELSE {})
                         \cup (IF app[a].mine # <<>> THEN {"escaped"} ELSE {}))
    /\ UNCHANGED <<role, used, status, temp, events>>

(* The file systems are listed before the loop over the records, and not     *)
(* every exception there is a SocaException.                                 *)
SettingsFail(a) ==
    /\ app[a].at = "resolve" /\ Tables[app[a].t] = "cluster_settings"
    /\ app[a].todo = Records[app[a].t]
    /\ Fault
    /\ Fail(a) /\ Note(a, {"abandoned"})
    /\ UNCHANGED <<environmentVars, temp, events>>

NextTable(a) ==
    /\ app[a].at = "resolve" /\ app[a].todo = <<>>
    /\ LET t == app[a].t
       IN  app' = [app EXCEPT ![a].deltas[t] = app[a].mine, ![a].mine = <<>>,
                              ![a].at = IF t = Len(Tables) THEN "complete" ELSE @,
                              ![a].t = IF t = Len(Tables) THEN @ ELSE t + 1,
                              ![a].todo = IF t = Len(Tables) THEN @ ELSE Records[t + 1]]
    /\ UNCHANGED <<environmentVars, status, temp, excuse, faults, events>>

Complete(a) ==
    /\ app[a].at = "complete"
    /\ \/ NoFault /\ SetStatus(a, "COMPLETED") /\ Goto(a, "cleanup") /\ UNCHANGED excuse
       \/ Fault /\ Fail(a) /\ Note(a, {"abandoned"})
    /\ UNCHANGED <<environmentVars, temp, events>>

-----------------------------------------------------------------------------
(* _rollback_merged_tables *)

Announce(a) ==
    /\ app[a].at = "announce"
    /\ \/ /\ NoFault
          /\ SetStatus(a, "ROLLBACK_IN_PROGRESS")
          /\ app' = [app EXCEPT ![a].at = "rollback", ![a].t = Len(Tables)]
          /\ UNCHANGED excuse
       \/ Fault /\ Fail(a) /\ Note(a, {"abandoned"})
    /\ UNCHANGED <<environmentVars, temp, events>>

(* A project cannot be deleted while a session or a software stack uses it,  *)
(* nor a stack while a session does.  The stacks of an application use its   *)
(* projects.                                                                 *)
InUse(row) ==
    \/ row \in used
    \/ Tables[row.table] = "projects"
       /\ \E r \in rows : Tables[r.table] = "software_stacks" /\ r.by = row.by

(* offboard_filesystem deletes every setting whose key begins with the name  *)
(* of the file system.                                                       *)
Prefixed(row) == {r \in rows : r.name = row.name /\ row.suffix \in {None, r.suffix}}

Deleted(row) == IF Tables[row.table] = "cluster_settings" THEN Prefixed(row) ELSE {row}

Undo(a) ==
    /\ app[a].at = "rollback" /\ app[a].t > 0 /\ app[a].deltas[app[a].t] # <<>>
    /\ LET t == app[a].t
           delta == Head(app[a].deltas[t])
       IN  \/ /\ NoFault
              /\ t = 1
              /\ role' = [role EXCEPT ![delta.user] = delta.old]
              /\ app' = [app EXCEPT ![a].deltas[t] = Tail(@)]
              /\ excuse' = [b \in Applications |-> excuse[b] \cup
                                IF delta.old.by = b \/ (b = a /\ role[delta.user].by # a)
                                THEN {"overlap"} ELSE {}]
              /\ UNCHANGED <<rows, status>>
           \/ /\ NoFault
              /\ t > 1 /\ ~InUse(delta)
              /\ rows' = rows \ Deleted(delta)
              /\ app' = [app EXCEPT ![a].deltas[t] = Tail(@)]
              /\ excuse' = [b \in Applications |-> excuse[b] \cup
                                IF \E r \in Deleted(delta) \ {delta} : r.by = b
                                THEN {"prefix"} ELSE {}]
              /\ UNCHANGED <<role, status>>
           \/ /\ IF t > 1 /\ InUse(delta) THEN NoFault ELSE Fault
              /\ SetStatus(a, "ROLLBACK_FAILED") /\ Goto(a, "cleanup")
              /\ UNCHANGED <<rows, role, excuse>>
    /\ UNCHANGED <<used, temp, events>>

RollbackTable(a) ==
    /\ app[a].at = "rollback" /\ app[a].t > 0 /\ app[a].deltas[app[a].t] = <<>>
    /\ app' = [app EXCEPT ![a].t = @ - 1]
    /\ UNCHANGED <<environmentVars, status, temp, excuse, faults, events>>

RollbackComplete(a) ==
    /\ app[a].at = "rollback" /\ app[a].t = 0
    /\ \/ NoFault /\ SetStatus(a, "ROLLBACK_COMPLETE") /\ Goto(a, "cleanup")
       \/ Fault /\ Fail(a)
    /\ UNCHANGED <<environmentVars, temp, excuse, events>>

(* delete_imported_tables; an error is only logged.                          *)
Cleanup(a) ==
    /\ app[a].at = "cleanup"
    /\ Goto(a, "done")
    /\ \/ NoFault /\ temp' = temp \ {a} /\ UNCHANGED excuse
       \/ a \in temp /\ Fault /\ Note(a, {"undeleted"}) /\ UNCHANGED temp
    /\ UNCHANGED <<environmentVars, status, events>>

Apply(a) ==
    \/ Initialize(a) \/ ImportAllTables(a) \/ ReadTables(a)
    \/ Resolve(a) \/ Write(a) \/ MergeFails(a) \/ SettingsFail(a) \/ NextTable(a) \/ Complete(a)
    \/ Announce(a) \/ Undo(a) \/ RollbackTable(a) \/ RollbackComplete(a) \/ Cleanup(a)

-----------------------------------------------------------------------------
(* Meanwhile: an administrator changes a role, a user starts a session, and  *)
(* the cluster manager dies.  Nobody resumes an application.                 *)

Event == events < MaxEvents /\ events' = events + 1

ChangeRole(u, value) ==
    /\ Event
    /\ role[u].value # value
    /\ role' = [role EXCEPT ![u] = [value |-> value, by |-> "admin"]]
    /\ UNCHANGED <<rows, used, status, app, temp, excuse, faults>>

StartSession(row) ==
    /\ Event
    /\ row.by \in Applications /\ Tables[row.table] \in {"projects", "software_stacks"}
    /\ used' = used \cup {row}
    /\ UNCHANGED <<rows, role, status, app, temp, excuse, faults>>

Running(a) == app[a].at \notin {"none", "done", "dead"}

CrashThreads ==
    /\ \E a \in Applications : Running(a)
    /\ Fault
    /\ app' = [a \in Applications |-> IF Running(a) THEN [at |-> "dead"] ELSE app[a]]
    /\ UNCHANGED <<environmentVars, status, temp, excuse, events>>

ApplyNext ==
    \/ \E a \in Applications : Apply(a)
    \/ \E u \in Users, v \in {"user", "admin"} : ChangeRole(u, v)
    \/ \E row \in rows : StartSession(row)
    \/ CrashThreads

ApplyFinished == \A a \in Applications : app[a].at \in {"done", "dead"}

-----------------------------------------------------------------------------
Statuses == {"none", "IN_PROGRESS", "COMPLETED", "FAILED", "ROLLBACK_IN_PROGRESS", "ROLLBACK_COMPLETE",
             "ROLLBACK_FAILED"}

ApplyTypeOK ==
    /\ rows \subseteq RowsOf(Names) /\ used \subseteq RowsOf(Names)
    /\ role \in [Users -> Roles]
    /\ status \in [Applications -> Statuses]
    /\ \A a \in Applications :
        /\ app[a].at = "rollback" => app[a].t \in 0..Len(Tables)
        /\ app[a].at = "write" => app[a].todo # <<>> /\ (app[a].t = 1 => app[a].target \in Roles)
    /\ temp \subseteq Applications
    /\ excuse \in [Applications -> SUBSET {"overlap", "escaped", "halfway", "abandoned", "prefix", "undeleted"}]
    /\ faults \in 0..MaxFaults /\ events \in 0..MaxEvents

(* What an application has left in the environment.                          *)
Traces(a) == {r \in rows : r.by = a} \cup {u \in Users : role[u].by = a}

(* Every record of the snapshot that the environment can take has a row, of  *)
(* the application or of before, and none that it cannot take has one of the *)
(* application.                                                              *)
Merged(a) ==
    /\ \A t \in 2..Len(Tables) : \A i \in DOMAIN Records[t] :
        \/ Records[t][i] \in Unfit[a]
        \/ \E r \in rows : r.name = Records[t][i] /\ r.by \in {a, "same"}
    /\ \A r \in rows : r.by = a => r.name \notin Unfit[a]

(* The record of an application that has ended says what became of it: all   *)
(* of the records that fit this environment are there (the others are passed *)
(* over and only logged), or none of what it did.  The exceptions: a         *)
(* merger raised and took its deltas along ("escaped"), a call failed after  *)
(* it had had its effect, an exception went past the rollback ("abandoned"), *)
(* overlapping changes of a role were undone in the order in which they were *)
(* made, or the removal of a file system took another along ("prefix").      *)
(* Unless their deletion failed, no imported tables are left.                *)
ApplyStatusIsTrue ==
    \A a \in Applications : app[a].at = "done" =>
        /\ status[a] = "COMPLETED" /\ "prefix" \notin excuse[a] => Merged(a)
        /\ status[a] \in {"ROLLBACK_COMPLETE", "FAILED"}
           /\ excuse[a] \cap {"escaped", "halfway", "abandoned", "overlap"} = {} => Traces(a) = {}
        /\ a \in temp => "undeleted" \in excuse[a]
=============================================================================
