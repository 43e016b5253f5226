--------------------------- MODULE SessionSettings ---------------------------
(***************************************************************************)
(* The settings of one session, its schedule and its guests, under         *)
(* everything that reads and writes them at the same time:                  *)
(*                                                                          *)
(*   edit      _update_session (SessionSchedules)                           *)
(*   share     update_permission_for_sessions (SessionPermissions)          *)
(*   worker    the handlers of the session's message group; the deletion    *)
(*             of the session is here                                       *)
(*   removal   delete_sessions, of a stopped session, in the request        *)
(*   change    the other operations on the session, as far as they read its *)
(*             row and write all of it back with a new state; what they do  *)
(*             is VirtualDesktopSession's subject                           *)
(*   check     ScheduledEventHandler, every half hour                       *)
(***************************************************************************)
EXTENDS SessionPermissions, TLC

CONSTANTS
    Times,          \* the times of the checks of the day, in order
    Starts,         \* the schedules and rows a session may start with
    MaxEvents,      \* bound: requests
    MaxFaults       \* bound: crashes

ASSUME SettingsParameters ==
    /\ Times \in Seq(0..1439) /\ \A i, j \in 1..Len(Times) : i <= j => Times[i] <= Times[j]
    /\ Starts \subseteq [state : {"READY", "STOPPED"}, wish : Wishes, perms : [Guests -> Rows \cup {Gone}]]
    /\ {MaxEvents, MaxFaults} \subseteq Nat

VARIABLES change, removal, check, now, events, faults

actorVars == <<change, removal, check, now>>
bounds == <<events, faults>>
vars == <<scheduleVars, excuse, permissionVars, actorVars, bounds>>

Init ==
    /\ profile = [p \in Profiles |-> "limited"]
    /\ \E start \in Starts :
        /\ asked = start.wish
        /\ LET s == IF start.wish.type = "NO_SCHEDULE" THEN Empty ELSE Named(1, start.wish)
           IN  /\ session = [state |-> start.state, sched |-> s]
               /\ schedules = {s} \ {Empty}
        /\ perms = start.perms
        /\ granted = [g \in Guests |-> [row |-> start.perms[g], at |-> 0]]
        /\ file = IF start.state = "READY" THEN Content ELSE Gone
    /\ ids = 1
    /\ command = Gone
    /\ inbox = <<>> /\ tries = 0
    /\ pending = [session |-> 0, profile |-> <<>>]
    /\ edit = Idle /\ share = Idle /\ worker = Idle /\ change = Idle /\ removal = Idle
    /\ check = Idle
    /\ now = 0
    /\ excuse = {}
    /\ events = 0 /\ faults = 0

Event == events < MaxEvents /\ events' = events + 1 /\ UNCHANGED faults

(* Another thread has read the session's row and will write or delete it.    *)
Deleting(w) == w.at \in {"delete_schedule", "delete_rows", "delete_session"}
Overlap ==
    IF edit # Idle \/ change # Idle \/ Deleting(worker) \/ Deleting(removal)
    THEN {"overlap"} ELSE {}

-----------------------------------------------------------------------------
(* Requests.                                                                 *)

Edit(w) ==
    /\ Event
    /\ edit = Idle /\ session # Gone
    /\ EditBegin(w, Overlap)
    /\ UNCHANGED <<permissionVars, actorVars>>

Share(request) ==
    /\ Event
    /\ ShareBegin(request)
    /\ UNCHANGED <<scheduleVars, excuse, actorVars>>

UpdateProfile(p, content) ==
    /\ Event
    /\ SetProfile(p, content)
    /\ UNCHANGED <<scheduleVars, actorVars>>

(* stop, resume and deletion of a session that runs: a request reads the     *)
(* row, talks to the broker or to EC2, and writes the row.                    *)
ChangeState(to) ==
    /\ Event
    /\ change = Idle /\ session # Gone
    /\ <<session.state, to>> \in {<<"READY", "STOPPED">>, <<"STOPPED", "RESUMING">>,
                                  <<"READY", "DELETING">>}
    /\ change' = [at |-> "write", row |-> [session EXCEPT !.state = to]]
    /\ Note(Overlap)
    /\ UNCHANGED <<scheduleVars, permissionVars, removal, check, now>>

(* The handlers that set a resumed session READY.                            *)
Resumed ==
    /\ change = Idle /\ session # Gone
    /\ session.state = "RESUMING" /\ file # Gone
    /\ change' = [at |-> "write", row |-> [session EXCEPT !.state = "READY"]]
    /\ Note(Overlap)
    /\ UNCHANGED <<scheduleVars, permissionVars, removal, check, now, bounds>>

ChangeWrite ==
    /\ change.at = "write"
    /\ session' = change.row
    /\ change' = Idle
    /\ LET to == change.row.state
       IN  /\ file' = IF to \in {"STOPPED", "DELETING"} THEN Gone ELSE file
           /\ inbox' = inbox \o (CASE to = "RESUMING" -> <<"resume">>
                                   [] to = "DELETING" -> <<"delete">>
                                   [] OTHER -> <<>>)
    /\ RowWritten(change.row)
    /\ UNCHANGED <<schedules, ids, edit, asked, excuse, perms, profile, command, tries, worker,
                   share, granted, removal, check, now, bounds>>

(* The resume command runs on the host.                                      *)
CommandRuns ==
    /\ command # Gone
    /\ file' = command
    /\ command' = Gone
    /\ UNCHANGED <<scheduleVars, excuse, perms, profile, inbox, tries, worker, pending, share,
                   granted, actorVars, bounds>>

-----------------------------------------------------------------------------
(* The deletion of a session by w: its schedules, its permissions (next that *)
(* of guest g), its row.                                                     *)

(* Mutant: only the row of the session is deleted.                           *)
DeletionOfRow(s) == [at |-> "delete_session"]

DeletionOf(s) == [at |-> "delete_schedule", sched |-> s.sched]

(* Each of the three fails when what it deletes is no longer there.          *)
DeletionFails(w, g) ==
    CASE w.at = "delete_schedule" -> ~HasNoEntry(w.sched) /\ Entry(w.sched) = {}
      [] w.at = "delete_rows" -> perms[g] = Gone
      [] w.at = "delete_session" -> session = Gone

DeletionStep(w, g) ==
    \/ /\ w.at = "delete_schedule"
       /\ schedules' = IF HasNoEntry(w.sched) THEN schedules ELSE schedules \ Entry(w.sched)
       /\ UNCHANGED <<session, perms>>
    \/ /\ w.at = "delete_rows" /\ g \in w.todo
       /\ perms' = [perms EXCEPT ![g] = Gone]
       /\ UNCHANGED <<session, schedules>>
    \/ /\ w.at = "delete_session"
       /\ session' = Gone
       /\ UNCHANGED <<schedules, perms>>

(* What comes after a step that did not fail.                                *)
AfterDeletion(w, g) ==
    LET rest == IF w.at = "delete_rows" THEN w.todo \ {g} ELSE Shared
    IN  CASE w.at = "delete_session" -> Idle
          [] w.at # "delete_session" /\ rest = {} -> [at |-> "delete_session"]
          [] OTHER -> [at |-> "delete_rows", todo |-> rest]

(* The handler of "delete".                                                  *)
DeleteRead ==
    /\ Receive("delete")
    /\ IF session = Gone \/ session.state # "DELETING" THEN Handled /\ UNCHANGED excuse
       ELSE worker' = DeletionOf(session) /\ Note(Overlap) /\ UNCHANGED <<inbox, tries>>
    /\ UNCHANGED <<scheduleVars, perms, profile, file, command, pending, share, granted, actorVars, bounds>>

HandlerDeletes ==
    /\ \E g \in Guests :
        /\ DeletionStep(worker, g)
        /\ IF DeletionFails(worker, g) THEN Raised
           ELSE IF worker.at = "delete_session" THEN Handled
           ELSE worker' = AfterDeletion(worker, g) /\ UNCHANGED <<inbox, tries>>
    /\ UNCHANGED <<ids, edit, asked, excuse, profile, file, command, pending, share, granted,
                   actorVars, bounds>>

(* delete_sessions, of a stopped session.  Nobody repeats a failed request.  *)
DeleteStopped ==
    /\ Event
    /\ removal = Idle /\ session # Gone /\ session.state = "STOPPED"
    /\ removal' = DeletionOf(session)
    /\ Note(Overlap)
    /\ UNCHANGED <<scheduleVars, permissionVars, change, check, now>>

RequestDeletes ==
    /\ \E g \in Guests :
        /\ DeletionStep(removal, g)
        /\ removal' = IF DeletionFails(removal, g) THEN Idle ELSE AfterDeletion(removal, g)
        /\ Note((IF removal.at = "delete_rows" THEN Midair(FALSE) ELSE {})
                \cup (IF DeletionFails(removal, g) THEN {"undeleted"} ELSE {}))
    /\ UNCHANGED <<ids, edit, asked, profile, file, command, inbox, tries, worker, pending, share,
                   granted, change, check, now, bounds>>

-----------------------------------------------------------------------------
(* ScheduledEventHandler.  When it raises or dies it is run again, for the   *)
(* same time.                                                                *)

Tick ==
    /\ check = Idle
    /\ now < Len(Times)
    /\ now' = now + 1
    /\ check' = [at |-> "trigger", time |-> Times[now + 1]]
    /\ UNCHANGED <<scheduleVars, excuse, permissionVars, change, removal, bounds>>

(* Mutant: a permission is removed after its expiry date, not at it.         *)
CheckTriggerLate ==
    /\ check.at = "trigger"
    /\ check' = [at |-> "expire", time |-> check.time, fired |-> Triggered(check.time), hit |-> FALSE,
                 todo |-> {g \in Shared : check.time > perms[g].expiry}]
    /\ UNCHANGED <<scheduleVars, excuse, permissionVars, change, removal, now, bounds>>

CheckTrigger ==
    /\ check.at = "trigger"
    /\ check' = [at |-> "expire", time |-> check.time, fired |-> Triggered(check.time), hit |-> FALSE,
                 todo |-> {g \in Shared : check.time >= perms[g].expiry}]
    /\ UNCHANGED <<scheduleVars, excuse, permissionVars, change, removal, now, bounds>>

Again == [at |-> "trigger", time |-> check.time]

CheckExpire ==
    /\ check.at = "expire"
    /\ \E g \in check.todo :
        /\ perms' = [perms EXCEPT ![g] = Gone]
        /\ check' = IF perms[g] = Gone THEN Again
                    ELSE [check EXCEPT !.todo = @ \ {g}, !.hit = TRUE]
        /\ Note(Midair(DeletesRows(removal))
                \cup (IF perms[g] = Gone /\ check.hit THEN {"unannounced"} ELSE {}))
    /\ UNCHANGED <<scheduleVars, profile, file, command, inbox, tries, worker, pending, share,
                   granted, change, removal, now, bounds>>

CheckPublish ==
    /\ check.at = "expire" /\ check.todo = {}
    /\ IF check.hit THEN Publish("enforce") ELSE UNCHANGED inbox
    /\ check' = Idle
    /\ UNCHANGED <<scheduleVars, excuse, perms, profile, file, command, tries, worker, pending,
                   share, granted, change, removal, now, bounds>>

(* The controller dies and starts again.                                     *)
Crash ==
    /\ faults < MaxFaults
    /\ \E a \in {edit, share, worker, change, removal, check} : a # Idle
    /\ faults' = faults + 1
    /\ edit' = Idle /\ share' = Idle /\ worker' = Idle /\ change' = Idle /\ removal' = Idle
    /\ tries' = IF worker = Idle THEN tries ELSE tries + 1
    /\ check' = IF check = Idle THEN Idle ELSE Again
    /\ Note((IF edit # Idle \/ Deleting(worker) \/ Deleting(removal) THEN {"crashed"} ELSE {})
            \cup (IF share # Idle \/ (check.at = "expire" /\ check.hit) THEN {"unannounced"} ELSE {}))
    /\ UNCHANGED <<session, schedules, ids, asked, perms, profile, file, command, inbox, pending,
                   granted, now, events>>

-----------------------------------------------------------------------------
Request ==
    \/ \E w \in Wishes : Edit(w)
    \/ \E r \in Requests : Share(r)
    \/ \E p \in Profiles, c \in {"limited", "full", Gone} : UpdateProfile(p, c)
    \/ \E to \in {"STOPPED", "RESUMING", "DELETING"} : ChangeState(to)
    \/ DeleteStopped

ShareStep ==
    \/ ShareWrite(IF check.at = "trigger" THEN now - 1 ELSE now,
                  check.at = "expire" \/ DeletesRows(removal))
    \/ SharePublish

HandlerStep ==
    \/ ProfileUpdated \/ SessionUpdated
    \/ Enforce \/ UpdateRead \/ UpdateWrite \/ ResumeCommand \/ DeadLetter

Progress ==
    \/ (EditRemove \/ EditCreate) /\ UNCHANGED <<permissionVars, actorVars, bounds>>
    \/ EditSave /\ RowWritten(edit.row) /\ UNCHANGED <<perms, profile, file, command, inbox, tries,
                        worker, share, granted, actorVars, bounds>>
    \/ (ShareStep \/ HandlerStep) /\ UNCHANGED <<scheduleVars, actorVars, bounds>>
    \/ Resumed \/ ChangeWrite \/ CommandRuns
    \/ DeleteRead \/ HandlerDeletes \/ RequestDeletes
    \/ Tick \/ CheckTrigger \/ CheckExpire \/ CheckPublish

Quiet ==
    /\ inbox = <<>> /\ pending = [session |-> 0, profile |-> <<>>]
    /\ command = Gone
    /\ \A a \in {edit, share, worker, change, removal, check} : a = Idle

Finished == Quiet /\ events = MaxEvents /\ now = Len(Times) /\ UNCHANGED vars

Next == Request \/ Progress \/ Crash \/ Finished

Spec == Init /\ [][Next]_vars

-----------------------------------------------------------------------------
Files == [Guests -> {"limited", "full", Gone}]
Labels == {"custom", "overlap", "midair", "unannounced", "early", "poisoned", "recreated", "undeleted",
           "crashed"}

TypeOK ==
    /\ session = Gone \/ (/\ session.state \in {"READY", "STOPPED", "RESUMING", "DELETING"}
                          /\ session.sched.id \in 0..ids)
    /\ \A s \in schedules : s.id \in 1..ids /\ s.type # "NO_SCHEDULE"
    /\ asked \in Wishes
    /\ excuse \subseteq Labels
    /\ perms \in [Guests -> Rows \cup {Gone}]
    /\ profile \in [Profiles -> {"limited", "full", Gone}]
    /\ {file, command} \subseteq Files \cup {Gone}
    /\ inbox \in Seq({"enforce", "update", "resume", "delete"})
    /\ tries \in 0..MaxReceive
    /\ pending.session \in Nat /\ pending.profile \in Seq(Profiles)
    /\ now \in 0..Len(Times)
    /\ events \in 0..MaxEvents /\ faults \in 0..MaxFaults

(* When nothing is under way, the permission file of a running session says  *)
(* what the rows and the profiles say, whatever requests, expiries, changes  *)
(* of profiles, stops and resumes came in between.  The exceptions: a row    *)
(* was changed and the event never published, an event was given up because  *)
(* a profile was deleted, a deleted profile was created again, or the broker *)
(* was called before the DCV session existed (enforce_session_permissions);  *)
(* or two operations on the session overlapped, and a stopped session was    *)
(* called READY, a running one STOPPED, or a deleted one came back.          *)
PermissionsEnforced ==
    /\ Quiet /\ session # Gone /\ session.state = "READY" /\ ~Unreadable
    /\ excuse \cap {"unannounced", "early", "poisoned", "recreated", "overlap"} = {}
    => file = Content

(* When nothing is under way, a guest of an existing session has the row the *)
(* last request gave it, until a check after its expiry date removes it, and *)
(* has none otherwise.  The exception is a row that changed while a handler  *)
(* had read it and not yet written it (the update handler, the check).       *)
GrantsAsAsked ==
    Quiet /\ session # Gone /\ excuse \cap {"midair", "overlap", "crashed", "undeleted"} = {} =>
        \A g \in Guests :
            LET last == granted[g]
                expired == last.row # Gone /\ last.at < now /\ last.row.expiry <= Times[now]
            IN  perms[g] = IF expired THEN Gone ELSE last.row

(* When nothing is under way, the schedules table has exactly the schedule   *)
(* the last edit asked for, and the session's row names it.  The exceptions: *)
(* a custom schedule was replaced by another, two writers of the row         *)
(* overlapped, or an edit or a deletion was cut short.                       *)
ScheduleAsAsked ==
    Quiet /\ session # Gone /\ excuse \cap {"custom", "overlap", "crashed", "undeleted"} = {} =>
        /\ schedules = {session.sched} \ {Empty}
        /\ session.sched = Named(session.sched.id, asked)

(* A check triggers what the user asked for at that time, provided that the  *)
(* hours begin and end at the same minute of the hour, and do not go on      *)
(* after midnight (trigger_schedule).                                        *)
ChecksFollowSchedule ==
    [][check'.at = "expire" /\ check.at = "trigger"
       /\ session # Gone /\ session.state # "DELETING"
       /\ edit = Idle /\ ~Deleting(worker) /\ ~Deleting(removal)
       /\ excuse \cap {"custom", "overlap", "crashed", "undeleted"} = {}
       /\ SameMinutes(asked) /\ WithinDay(asked) => check'.fired = Wanted(asked, check.time)]_vars

(* A deletion fails for good only if another writer of the row, another      *)
(* change of the rows or a crash came in between: then its retry finds the   *)
(* schedule gone and raises every time (delete_schedules_for_session).       *)
DeletionFailsOnlyIfDisturbed ==
    "undeleted" \in excuse => excuse \cap {"overlap", "midair", "crashed"} # {}

(* A deleted session leaves no schedule and no permission behind, unless one *)
(* was added while it was being deleted or the deletion was cut short.       *)
NothingLeftBehind ==
    Quiet /\ session = Gone /\ excuse \cap {"overlap", "midair", "crashed"} = {} =>
        schedules = {} /\ Shared = {}
=============================================================================
