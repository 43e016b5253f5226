------------------------- MODULE SessionPermissions --------------------------
(***************************************************************************)
(* The guests of a session: rows of the session-permissions table, the     *)
(* profiles they name, and the permission file of the DCV session, which   *)
(* is what decides.  Rows and file are brought together by events of the   *)
(* session's message group, handled one at a time (EventQueue):             *)
(*                                                                          *)
(*   enforce   IDEA_SESSION_PERMISSIONS_ENFORCE: send the broker a new file *)
(*   update    IDEA_SESSION_PERMISSIONS_UPDATE: copy the session's state    *)
(*             onto the rows, each row as it was read                       *)
(*   resume    the handler that generates the command to create the DCV     *)
(*             session again                                                *)
(*   delete    VALIDATE_DCV_SESSION_DELETION: delete the session            *)
(*                                                                          *)
(* The text of the file is abstracted to the content of each guest's        *)
(* profile, and the broker (external) to the file it was given last.        *)
(***************************************************************************)
EXTENDS SessionSchedules, Sequences

CONSTANTS
    Guests, Profiles, Keep,
    Requests,       \* update_permission_for_sessions: per guest a row, Gone or Keep
    MaxReceive      \* max_receive_count of the events queue, 60

Rows == [profile : Profiles, expiry : Nat]

ASSUME PermissionParameters ==
    /\ Requests \subseteq [Guests -> Rows \cup {Gone, Keep}]
    /\ MaxReceive \in Nat \ {0}
    /\ Gone \notin [Guests -> {"limited", "full", Gone}]

VARIABLES
    perms,          \* the rows: a profile and an expiry date, or Gone
    profile,        \* the permission-profiles table: "limited", "full" or Gone
    file,           \* the permission file of the DCV session, Gone without one
    command,        \* the file in a resume command that has not run yet
    inbox,          \* the session's message group
    tries,          \* receives of its oldest event
    worker,         \* the thread that handles it
    pending,        \* events about changed rows of the session, the profile
    share,          \* the request to change permissions
    granted         \* history: the row the last request gave a guest, and when

permissionVars == <<perms, profile, file, command, inbox, tries, worker, pending, share, granted>>

Shared == {g \in Guests : perms[g] # Gone}

(* generate_permissions_for_session; a row whose profile was deleted makes   *)
(* it raise.                                                                 *)
Unreadable == \E g \in Shared : profile[perms[g].profile] = Gone
Content == [g \in Guests |-> IF perms[g] = Gone THEN Gone ELSE profile[perms[g].profile]]

Publish(e) == inbox' = Append(inbox, e)

(* A row changes between the moment a handler read the rows and the moment   *)
(* it writes them, or after they were deleted with the session.              *)
DeletesRows(w) == w.at \in {"delete_rows", "delete_session"}
Midair(reading) ==
    IF reading \/ worker.at = "update" \/ DeletesRows(worker) \/ session = Gone
    THEN {"midair"} ELSE {}

-----------------------------------------------------------------------------
(* update_permission_for_sessions: rows are written, rows are deleted, and   *)
(* the event is published at the end.                                        *)

ShareBegin(request) ==
    /\ share = Idle /\ session # Gone
    /\ share' = [at |-> "write", request |-> request, todo |-> {g \in Guests : request[g] # Keep}]
    /\ UNCHANGED <<perms, profile, file, command, inbox, tries, worker, pending, granted>>

ShareWrite(now, reading) ==
    /\ share.at = "write"
    /\ LET puts == {g \in share.todo : share.request[g] # Gone}
       IN  \E g \in (IF puts = {} THEN share.todo ELSE puts) :
              LET row == IF g \in puts THEN share.request[g] ELSE Gone
                  missing == g \notin puts /\ perms[g] = Gone
                  begun == \E h \in Guests : share.request[h] # Keep /\ h \notin share.todo
              IN  /\ perms' = [perms EXCEPT ![g] = row]
                  /\ granted' = [granted EXCEPT ![g] = [row |-> row, at |-> now]]
                  /\ share' = IF missing THEN Idle
                              ELSE [share EXCEPT !.todo = @ \ {g},
                                                 !.at = IF share.todo = {g} THEN "publish" ELSE @]
                  /\ Note(Midair(reading) \cup (IF missing /\ begun THEN {"unannounced"} ELSE {}))
    /\ UNCHANGED <<profile, file, command, inbox, tries, worker, pending>>

SharePublish ==
    /\ share.at = "publish"
    /\ share' = Idle
    /\ Publish("enforce")
    /\ UNCHANGED <<perms, profile, file, command, tries, worker, pending, granted, excuse>>

-----------------------------------------------------------------------------
(* Permission profiles.  A profile may be deleted while rows name it; nobody *)
(* is told when it is created again.                                         *)

SetProfile(p, content) ==
    /\ profile[p] # content
    /\ profile' = [profile EXCEPT ![p] = content]
    /\ pending' = [pending EXCEPT !.profile = IF profile[p] # Gone /\ content # Gone
                                              THEN Append(@, p) ELSE @]
    /\ Note(IF profile[p] = Gone /\ \E g \in Shared : perms[g].profile = p
            THEN {"recreated"} ELSE {})
    /\ UNCHANGED <<perms, file, command, inbox, tries, worker, share, granted>>

(* Mutant: the sessions that use a changed profile are not looked for.       *)
ProfileUpdatedIgnored ==
    /\ pending.profile # <<>>
    /\ pending' = [pending EXCEPT !.profile = Tail(@)]
    /\ UNCHANGED <<perms, profile, file, command, inbox, tries, worker, share, granted, excuse>>

(* _handle_permission_profile_updated *)
ProfileUpdated ==
    /\ pending.profile # <<>>
    /\ pending' = [pending EXCEPT !.profile = Tail(@)]
    /\ IF \E g \in Shared : perms[g].profile = Head(pending.profile)
       THEN Publish("enforce") ELSE UNCHANGED inbox
    /\ UNCHANGED <<perms, profile, file, command, tries, worker, share, granted, excuse>>

(* The session's row is written over another.                                *)
RowWritten(new) ==
    pending' = IF session # Gone /\ session.state # new.state
               THEN [pending EXCEPT !.session = @ + 1] ELSE pending

(* _handle_user_session_updated, of a session whose state changed.           *)
SessionUpdated ==
    /\ pending.session > 0
    /\ pending' = [pending EXCEPT !.session = @ - 1]
    /\ Publish("update")
    /\ UNCHANGED <<perms, profile, file, command, tries, worker, share, granted, excuse>>

-----------------------------------------------------------------------------
(* The session's message group.                                              *)

(* Mutant: an event is received any number of times.                         *)
ReceiveAlways(e) == worker = Idle /\ inbox # <<>> /\ Head(inbox) = e

Receive(e) == worker = Idle /\ inbox # <<>> /\ Head(inbox) = e /\ tries < MaxReceive

(* The handler returns, and the event is deleted.                            *)
HandledBy(w) == worker' = w /\ inbox' = Tail(inbox) /\ tries' = 0
Handled == HandledBy(Idle)

(* The handler raises, and the event is received again later.                *)
Raised == worker' = Idle /\ tries' = tries + 1 /\ UNCHANGED inbox

(* The enforce handler: only while the session runs or is about to.  The     *)
(* broker does nothing for a DCV session that does not exist yet, and nobody *)
(* looks at its answer.                                                      *)
Enforceable == IF session = Gone THEN FALSE ELSE session.state \in {"READY", "RESUMING"}

Enforce ==
    /\ Receive("enforce")
    /\ \/ /\ ~Enforceable
          /\ Handled
          /\ UNCHANGED <<file, excuse>>
       \/ /\ Enforceable /\ Unreadable
          /\ Raised
          /\ UNCHANGED <<file, excuse>>
       \/ /\ Enforceable /\ ~Unreadable
          /\ file' = IF file = Gone THEN Gone ELSE Content
          /\ Note(IF command # Gone THEN {"early"} ELSE {})
          /\ Handled
    /\ UNCHANGED <<perms, profile, command, pending, share, granted>>

(* The update handler reads the rows, and writes them one after the other.   *)
UpdateRead ==
    /\ Receive("update")
    /\ IF Shared = {} THEN Handled
       ELSE worker' = [at |-> "update", rows |-> perms, todo |-> Shared] /\ UNCHANGED <<inbox, tries>>
    /\ UNCHANGED <<perms, profile, file, command, pending, share, granted, excuse>>

UpdateWrite ==
    /\ worker.at = "update"
    /\ \E g \in worker.todo :
        /\ perms' = [perms EXCEPT ![g] = worker.rows[g]]
        /\ IF worker.todo = {g} THEN Handled
           ELSE worker' = [worker EXCEPT !.todo = @ \ {g}] /\ UNCHANGED <<inbox, tries>>
    /\ UNCHANGED <<profile, file, command, pending, share, granted, excuse>>

(* The resume handler, as far as permissions go.                             *)
ResumeCommand ==
    /\ Receive("resume")
    /\ IF Unreadable THEN Raised /\ UNCHANGED command
       ELSE Handled /\ command' = Content
    /\ UNCHANGED <<perms, profile, file, pending, share, granted, excuse>>

(* An event that was received too often goes to the dead letter queue.       *)
DeadLetter ==
    /\ worker = Idle /\ tries = MaxReceive
    /\ Handled
    /\ Note({IF Head(inbox) = "delete" THEN "undeleted" ELSE "poisoned"})
    /\ UNCHANGED <<perms, profile, file, command, pending, share, granted>>
=============================================================================
