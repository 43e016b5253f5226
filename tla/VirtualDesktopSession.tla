------------------------ MODULE VirtualDesktopSession ------------------------
(***************************************************************************)
(* The life of one virtual desktop session, as the virtual desktop         *)
(* controller drives it: the session's row and its host's row in DynamoDB, *)
(* the API operations of VirtualDesktopSessionUtils, and the handlers of   *)
(* the events in the session's message group of the FIFO events queue.     *)
(*                                                                         *)
(* No lock protects a session.  Every operation reads the whole row, calls *)
(* the DCV broker or EC2, writes the whole row back from what it read, and *)
(* only then publishes the event that moves the session on, so each of     *)
(* those is a step of its own here and operations interleave between them. *)
(* EC2, the DCV broker, the SSM agent and SQS are external: they are       *)
(* modelled from how the controller uses them.                             *)
(***************************************************************************)
EXTENDS Naturals, Sequences, FiniteSets

CONSTANTS
    ApiWorkers,       \* threads of the API server that serve this session's owner
    Hibernation,      \* session.hibernation_enabled, fixed when it is created
    Scheduled,        \* whether the session has a schedule
    DedupWindow,      \* TRUE: requests may come within SQS's 5 minute window
    Reorder,          \* TRUE: the standard controller queue delivers out of order,
                      \* and a command's status may outrun the row of the command
    MaxInFlight,      \* operations that may overlap (1: one at a time)
    MaxCalls,         \* API calls and schedule ticks after the creation
    MaxFaults,        \* exceptions and crashes between two steps
    MaxOutages,       \* stops and reboots of the host nobody asked for
    MaxCommands,      \* SSM commands
    SESSION_CREATION_THRESHOLD_COUNT,
    VALIDATION_REQUEST_THRESHOLD,
    SESSION_DELETED_THRESHOLD,
    RESUME_REQUEST_COUNT_THRESHOLD

Handler == "handler"
Actors == ApiWorkers \cup {Handler}

ASSUME Parameters ==
    /\ Handler \notin ApiWorkers
    /\ Hibernation \in BOOLEAN /\ Scheduled \in BOOLEAN
    /\ DedupWindow \in BOOLEAN /\ Reorder \in BOOLEAN
    /\ MaxInFlight \in Nat /\ MaxCalls \in Nat /\ MaxFaults \in Nat
    /\ MaxOutages \in Nat /\ MaxCommands \in Nat
    /\ SESSION_CREATION_THRESHOLD_COUNT \in Nat
    /\ VALIDATION_REQUEST_THRESHOLD \in Nat
    /\ SESSION_DELETED_THRESHOLD \in Nat
    /\ RESUME_REQUEST_COUNT_THRESHOLD \in Nat

VARIABLES
    row,        \* the session's row: its state and whether dcv_session_id is set
    server,     \* the state in the host's row, or "NONE" when there is no row
    counters,   \* the rows of the session counters table (0: no row)
    queue,      \* the session's message group in the FIFO events queue
    recent,     \* bodies SQS would drop as duplicates
    act,        \* what each actor is in the middle of
    ec2,        \* EC2's state of the instance
    host,       \* the operating system on the instance
    alive,      \* whether the DCV server on the host holds the session
    dcv,        \* the broker's view of the DCV session
    ssm,        \* commands: how many were sent, which run, which have a row
    notif,      \* notifications on their way through SNS to the controller queue
    budget,     \* how often the environment has acted (see the Max constants)
    asked       \* whether anybody ever asked for the session's termination

db    == <<row, server, counters>>
world == <<ec2, host, alive, dcv>>
vars  == <<row, server, counters, queue, recent, act, ec2, host, alive, dcv,
           ssm, notif, budget, asked>>

-----------------------------------------------------------------------------
(* Types *)

SessionStates == {"PROVISIONING", "CREATING", "INITIALIZING", "READY",
                  "RESUMING", "STOPPING", "STOPPED", "ERROR", "DELETING"}
Rows  == [state : SessionStates \cup {"NONE"}, dcv : BOOLEAN]
NoRow == [state |-> "NONE", dcv |-> FALSE]

\* Bodies that carry no timestamp, so that two of them are the same body.
Undated == {"VALIDATE_DELETION", "SCHEDULED_RESUME", "SCHEDULED_STOP",
            "REBOOT_COMPLETE_BY_CONTROLLER"}
EventTypes == Undated \cup
    {"HOST_READY", "REBOOT_COMPLETE", "EC2_STOPPING", "EC2_STOPPED",
     "EC2_RUNNING", "VALIDATE_CREATION", "TERMINATE", "RESUME_SUCCESS",
     "RESUME_FAILED", "RESUME_OTHER", "CPU_SUCCESS", "CPU_OTHER"}

Ops == {"idle", "create", "stop", "resume", "reboot", "terminate", "ready",
        "rebooted", "ec2_stopping", "ec2_stopped", "validate_creation",
        "validate_deletion", "resume_success", "resume_failed", "cpu"}
Pcs == {"idle", "read", "call", "write", "publish", "host", "delete", "record"}
DcvStates == {"NONE", "CREATING", "READY", "DELETING", "DELETED"}
ActorStates == [op : Ops, pc : Pcs, snap : Rows, force : BOOLEAN,
                res : DcvStates \cup {"REJECTED"}]
Idle == [op |-> "idle", pc |-> "idle", snap |-> NoRow, force |-> FALSE,
         res |-> "NONE"]

Notifications ==
    [about : {"ec2"}, status : {"stopping", "stopped", "running"}, id : {0}]
    \cup [about : {"resume", "cpu"}, status : {"Success", "Failed", "Other"},
          id : Nat]

\* An event of the session; id is the SSM command it is about, or 0.
Events == [type : EventTypes, id : Nat]
Event(t) == [type |-> t, id |-> 0]
NoEvent == [type |-> "NO_EVENT", id |-> 0]

TypeOK ==
    /\ row \in Rows
    /\ server \in {"NONE", "CREATED", "STOPPED", "HIBERNATED"}
    /\ counters \in [creation : Nat, validation : Nat, resumed : Nat]
    /\ queue \in Seq(Events)
    /\ recent \in SUBSET Undated
    /\ act \in [Actors -> ActorStates]
    /\ ec2 \in {"none", "pending", "running", "stopping", "stopped", "terminated"}
    /\ host \in {"down", "asleep", "first", "booting", "waking", "up"}
    /\ alive \in BOOLEAN
    /\ dcv \in DcvStates
    /\ ssm \in [sent : Nat, running : SUBSET [about : {"resume", "cpu"}, id : Nat],
                rows : SUBSET Nat]
    /\ notif \in Seq(Notifications)
    /\ budget \in [calls : Nat, faults : Nat, outages : Nat]
    /\ asked \in BOOLEAN

Init ==
    /\ row = NoRow /\ server = "NONE"
    /\ counters = [creation |-> 0, validation |-> 0, resumed |-> 0]
    /\ queue = <<>> /\ recent = {}
    /\ act = [a \in Actors |-> Idle]
    /\ ec2 = "none" /\ host = "down" /\ alive = FALSE /\ dcv = "NONE"
    /\ ssm = [sent |-> 0, running |-> {}, rows |-> {}]
    /\ notif = <<>>
    /\ budget = [calls |-> 0, faults |-> 0, outages |-> 0]
    /\ asked = FALSE

-----------------------------------------------------------------------------
(* Actors.  A handler that returns has its message deleted; one that raises *)
(* (do_not_delete_message_exception or any other exception) leaves it at    *)
(* the head of the session's group, to be received again.  An API call      *)
(* that fails only answers its caller.                                      *)

InFlight == {a \in Actors : act[a].op # "idle"}
CanStart(a) == act[a].op = "idle" /\ Cardinality(InFlight) < MaxInFlight

At(a, op, pc) == act[a].op = op /\ act[a].pc = pc
Goto(a, pc) == act' = [act EXCEPT ![a].pc = pc]
Begin(a, op, pc, snap, force) ==
    act' = [act EXCEPT ![a] = [op |-> op, pc |-> pc, snap |-> snap,
                               force |-> force, res |-> "NONE"]]

\* SQS drops a body it has seen in the window.
Send(q, e) ==
    /\ queue' = IF e = NoEvent \/ e.type \in recent THEN q ELSE Append(q, e)
    /\ recent' = IF DedupWindow /\ e.type \in Undated THEN recent \cup {e.type} ELSE recent

Return(a, e) ==
    /\ act' = [act EXCEPT ![a] = Idle]
    /\ Send(IF a = Handler THEN Tail(queue) ELSE queue, e)
Raise(a) ==
    /\ act' = [act EXCEPT ![a] = Idle]
    /\ UNCHANGED <<queue, recent>>
Stay == UNCHANGED <<queue, recent>>

\* VirtualDesktopSessionDB.update: an unconditional write of the whole row,
\* which creates the row when it is gone and fails on the missing old row after.
Update(r) == row' = r
UpdateRaises == row.state = "NONE"

Moved(a, s) == [act[a].snap EXCEPT !.state = s]

Fault == budget' = [budget EXCEPT !.faults = @ + 1] /\ budget.faults < MaxFaults
Call  == budget' = [budget EXCEPT !.calls = @ + 1] /\ budget.calls < MaxCalls

Notify(s) == notif' = Append(notif, [about |-> "ec2", status |-> s, id |-> 0])

-----------------------------------------------------------------------------
(* EC2 and the DCV broker, as the controller's calls change them *)

\* terminate_dcv_hosts: the instance goes, then the host's row; deleting a row
\* that is not there raises (TerminateRaises) after the instance has gone.
TerminateHost ==
    /\ ec2' = "terminated" /\ host' = "down" /\ alive' = FALSE
    /\ server' = "NONE"
    /\ UNCHANGED dcv
TerminateRaises == server = "NONE"

\* stop_or_hibernate_servers: EC2 refuses to stop what is starting or gone.
StopRefused == ec2 \in {"none", "pending", "terminated"}

\* Mutant of StopHost: saves a state the host's row never has.
StopHostSavesStopping ==
    /\ IF ec2 = "running"
       THEN /\ ec2' = "stopping" /\ Notify("stopping") /\ alive' = FALSE
            /\ host' = IF Hibernation THEN "asleep" ELSE "down"
       ELSE UNCHANGED <<ec2, notif, alive, host>>
    /\ server' = IF server = "NONE" THEN "NONE" ELSE "STOPPING"
    /\ UNCHANGED dcv

StopHost ==
    /\ IF ec2 = "running"
       THEN /\ ec2' = "stopping" /\ Notify("stopping") /\ alive' = FALSE
            /\ host' = IF Hibernation THEN "asleep" ELSE "down"
       ELSE UNCHANGED <<ec2, notif, alive, host>>
    /\ server' = IF server = "NONE" THEN "NONE"
                 ELSE IF Hibernation THEN "HIBERNATED" ELSE "STOPPED"
    /\ UNCHANGED dcv
StopRaises == server = "NONE"

\* start_dcv_hosts: a no-op on an instance that runs, a ClientError on one that
\* is still stopping or gone.
StartRefused == ec2 \in {"none", "stopping", "terminated"}
StartHost ==
    /\ IF ec2 = "stopped"
       THEN /\ ec2' = "pending"
            /\ host' = IF host = "asleep" THEN "waking" ELSE "booting"
       ELSE UNCHANGED <<ec2, host>>
    /\ UNCHANGED <<alive, dcv>>

\* DCVBrokerClient.delete_sessions: a session the broker does not know counts
\* as deleted; an unforced request is refused while a client is connected.
BrokerForgot == dcv \in {"NONE", "DELETED"}
DeleteDcvSession ==
    /\ dcv' = IF BrokerForgot THEN dcv ELSE "DELETING"
    /\ UNCHANGED <<ec2, host, alive>>

-----------------------------------------------------------------------------
(* API operations (VirtualDesktopSessionUtils).  stop_sessions,             *)
(* resume_sessions and terminate_sessions also run inside event handlers.   *)
(* A call that its own checks reject changes nothing and is left out.       *)

CreateProvision(a) ==
    /\ CanStart(a) /\ ec2 = "none"
    /\ Begin(a, "create", "write", NoRow, FALSE)
    /\ ec2' = "pending" /\ host' = "first" /\ server' = "CREATED"
    /\ Stay
    /\ UNCHANGED <<row, counters, alive, dcv, ssm, notif, budget, asked>>

CreateWrite(a) ==
    /\ At(a, "create", "write")
    /\ row' = [state |-> "PROVISIONING", dcv |-> FALSE]
    /\ Return(a, NoEvent)
    /\ UNCHANGED <<server, counters, world, ssm, notif, budget, asked>>

StopStart(a, force) ==
    Begin(a, "stop", IF row.dcv THEN "call" ELSE "write", row, force)

ApiStop(a, force) ==
    /\ CanStart(a) /\ Call /\ row.state = "READY"
    /\ StopStart(a, force)
    /\ Stay /\ UNCHANGED <<db, world, ssm, notif, asked>>

\* stop_sessions called by a handler: it reads the row again.
StopRead(a) ==
    /\ At(a, "stop", "read")
    /\ IF row.state = "READY" THEN StopStart(a, FALSE) /\ Stay ELSE Raise(a)
    /\ UNCHANGED <<db, world, ssm, notif, budget, asked>>

BrokerDelete(a) ==
    /\ At(a, "stop", "call") \/ At(a, "terminate", "call")
    /\ \/ Goto(a, "write") /\ DeleteDcvSession /\ Stay
       \/ ~act[a].force /\ Raise(a) /\ UNCHANGED world
    /\ UNCHANGED <<db, ssm, notif, budget, asked>>

\* A READY row without a dcv_session_id has nothing to validate: its host is
\* stopped at once.
StopWrite(a) ==
    /\ At(a, "stop", "write")
    /\ Update(Moved(a, "STOPPING"))
    /\ IF act[a].snap.dcv \/ UpdateRaises \/ StopRefused
       THEN /\ IF act[a].snap.dcv /\ ~UpdateRaises THEN Goto(a, "publish") /\ Stay
               ELSE Raise(a)
            /\ UNCHANGED <<server, world, notif>>
       ELSE StopHost /\ IF StopRaises THEN Raise(a) ELSE Return(a, NoEvent)
    /\ UNCHANGED <<counters, ssm, budget, asked>>

\* Mutant of PublishDeletion: a termination is not published.
PublishDeletionOfStopOnly(a) ==
    /\ At(a, "stop", "publish") \/ At(a, "terminate", "publish")
    /\ Return(a, IF act[a].op = "stop" THEN Event("VALIDATE_DELETION") ELSE NoEvent)
    /\ UNCHANGED <<db, world, ssm, notif, budget, asked>>

PublishDeletion(a) ==
    /\ At(a, "stop", "publish") \/ At(a, "terminate", "publish")
    /\ Return(a, Event("VALIDATE_DELETION"))
    /\ UNCHANGED <<db, world, ssm, notif, budget, asked>>

ResumeStart(a) == Begin(a, "resume", "call", row, FALSE)

ApiResume(a) ==
    /\ CanStart(a) /\ Call /\ row.state = "STOPPED"
    /\ ResumeStart(a)
    /\ Stay /\ UNCHANGED <<db, world, ssm, notif, asked>>

ResumeRead(a) ==
    /\ At(a, "resume", "read")
    /\ IF row.state = "STOPPED" THEN ResumeStart(a) /\ Stay ELSE Raise(a)
    /\ UNCHANGED <<db, world, ssm, notif, budget, asked>>

ResumeHost(a) ==
    /\ At(a, "resume", "call")
    /\ IF StartRefused THEN Raise(a) /\ UNCHANGED world
       ELSE Goto(a, "write") /\ Stay /\ StartHost
    /\ UNCHANGED <<db, ssm, notif, budget, asked>>

ResumeWrite(a) ==
    /\ At(a, "resume", "write")
    /\ Update(Moved(a, "RESUMING"))
    /\ IF UpdateRaises THEN Raise(a) ELSE Return(a, NoEvent)
    /\ UNCHANGED <<server, counters, world, ssm, notif, budget, asked>>

ApiReboot(a, force) ==
    /\ CanStart(a) /\ Call /\ row.state \in {"READY", "ERROR"}
    /\ Begin(a, "reboot", "write", row, force)
    /\ Stay /\ UNCHANGED <<db, world, ssm, notif, asked>>

RebootWrite(a) ==
    /\ At(a, "reboot", "write")
    /\ Update(Moved(a, "RESUMING"))
    /\ IF UpdateRaises THEN Raise(a) ELSE Goto(a, "host") /\ Stay
    /\ UNCHANGED <<server, counters, world, ssm, notif, budget, asked>>

\* EC2 reboots only what runs; a reboot raises no state change notification.
RebootHost(a) ==
    /\ At(a, "reboot", "host")
    /\ IF ec2 = "running"
       THEN host' = "booting" /\ alive' = FALSE /\ UNCHANGED <<ec2, dcv>>
       ELSE UNCHANGED world
    /\ Return(a, NoEvent)
    /\ UNCHANGED <<db, ssm, notif, budget, asked>>

\* Mutant of TerminateStart: a stopped session loses its row only.
TerminateStartKeepsHost(a, force) ==
    Begin(a, "terminate",
          IF ~row.dcv \/ row.state = "STOPPED" THEN "delete" ELSE "call", row, force)

TerminateStart(a, force) ==
    Begin(a, "terminate",
          IF ~row.dcv \/ row.state = "STOPPED" THEN "host" ELSE "call", row, force)

ApiTerminate(a, force) ==
    /\ CanStart(a) /\ Call /\ row.state # "NONE"
    /\ TerminateStart(a, force)
    /\ asked' = TRUE
    /\ Stay /\ UNCHANGED <<db, world, ssm, notif>>

TerminateRead(a) ==
    /\ At(a, "terminate", "read")
    /\ IF row.state # "NONE" THEN TerminateStart(a, act[a].force) /\ Stay ELSE Raise(a)
    /\ UNCHANGED <<db, world, ssm, notif, budget, asked>>

TerminateWrite(a) ==
    /\ At(a, "terminate", "write")
    /\ Update(Moved(a, "DELETING"))
    /\ IF UpdateRaises THEN Raise(a) ELSE Goto(a, "publish") /\ Stay
    /\ UNCHANGED <<server, counters, world, ssm, notif, budget, asked>>

\* Mutant of TerminateStoppedHost: the row is left behind.
TerminateStoppedHostKeepsRow(a) ==
    /\ At(a, "terminate", "host")
    /\ TerminateHost
    /\ IF TerminateRaises THEN Raise(a) ELSE Return(a, NoEvent)
    /\ UNCHANGED <<row, counters, ssm, notif, budget, asked>>

\* The stopped path: host first, row afterwards.
TerminateStoppedHost(a) ==
    /\ At(a, "terminate", "host")
    /\ TerminateHost
    /\ IF TerminateRaises THEN Raise(a) ELSE Goto(a, "delete") /\ Stay
    /\ UNCHANGED <<row, counters, ssm, notif, budget, asked>>

TerminateDelete(a) ==
    /\ At(a, "terminate", "delete")
    /\ row' = NoRow
    /\ IF row.state = "NONE" THEN Raise(a) ELSE Return(a, NoEvent)
    /\ UNCHANGED <<server, counters, world, ssm, notif, budget, asked>>

-----------------------------------------------------------------------------
(* Event handlers.  poll_and_process_queue receives one message at a time,  *)
(* and SQS gives no second message of a group before the first is deleted   *)
(* or visible again, so the group has one handler at a time.                *)

Receives(t) == CanStart(Handler) /\ queue # <<>> /\ Head(queue).type = t
Run(op, pc) == Begin(Handler, op, pc, row, FALSE) /\ Stay
Ignore == Return(Handler, NoEvent)
Outside == UNCHANGED <<world, ssm, notif, budget, asked>>

\* Mutant of HandleHostReady: a creation is never tried again.
HandleHostReadyOnce ==
    /\ Receives("HOST_READY")
    /\ IF row.state = "PROVISIONING" THEN Run("ready", "call") ELSE Ignore
    /\ UNCHANGED db /\ Outside

(* DCVHostReadyEventHandler *)
HandleHostReady ==
    /\ Receives("HOST_READY")
    /\ IF row.state \in {"PROVISIONING", "CREATING"} THEN Run("ready", "call") ELSE Ignore
    /\ UNCHANGED db /\ Outside

ReadyCreate ==
    /\ At(Handler, "ready", "call")
    /\ \/ /\ act' = [act EXCEPT ![Handler].pc = "write", ![Handler].res = "CREATING"]
          /\ dcv' = "CREATING"
       \/ /\ act' = [act EXCEPT ![Handler].pc = "write", ![Handler].res = "REJECTED"]
          /\ UNCHANGED dcv
    /\ Stay /\ UNCHANGED <<db, ec2, host, alive, ssm, notif, budget, asked>>

ReadyWrite ==
    LET snap == act[Handler].snap
        tried == counters.creation
    IN
    /\ At(Handler, "ready", "write")
    /\ CASE act[Handler].res = "CREATING" ->
              /\ Update([state |-> "INITIALIZING", dcv |-> TRUE])
              /\ IF UpdateRaises THEN Raise(Handler) ELSE Goto(Handler, "publish") /\ Stay
              /\ UNCHANGED counters
         [] act[Handler].res # "CREATING" /\ tried < SESSION_CREATION_THRESHOLD_COUNT ->
              /\ counters' = [counters EXCEPT !.creation = @ + 1]
              /\ IF snap.state = "CREATING" THEN UNCHANGED row
                 ELSE Update(Moved(Handler, "CREATING"))
              /\ Raise(Handler)
         [] OTHER ->
              /\ Update([state |-> "ERROR", dcv |-> FALSE])
              /\ IF UpdateRaises THEN Raise(Handler) ELSE Ignore
              /\ UNCHANGED counters
    /\ UNCHANGED server /\ Outside

ReadyPublish ==
    /\ At(Handler, "ready", "publish")
    /\ Return(Handler, Event("VALIDATE_CREATION"))
    /\ counters' = [counters EXCEPT !.creation = 0]
    /\ UNCHANGED <<row, server>> /\ Outside

\* Mutant of HandleRebootComplete: RESUMING is left out.
HandleRebootCompleteUnasked ==
    /\ Receives("REBOOT_COMPLETE")
    /\ IF row.state \in {"READY", "ERROR", "STOPPED"}
       THEN Run("rebooted", IF row.state = "READY" THEN "call" ELSE "host")
       ELSE Ignore
    /\ UNCHANGED db /\ Outside

(* DCVHostRebootCompleteEventHandler *)
HandleRebootComplete ==
    /\ Receives("REBOOT_COMPLETE")
    /\ IF row.state \in {"RESUMING", "READY", "ERROR", "STOPPED"}
       THEN Run("rebooted", IF row.state = "READY" THEN "call" ELSE "host")
       ELSE Ignore
    /\ UNCHANGED db /\ Outside

\* The copy the controller itself sends for a hibernated host: its SenderId is
\* the controller's, so the message is deleted unread.
HandleRebootCompleteByController ==
    /\ Receives("REBOOT_COMPLETE_BY_CONTROLLER")
    /\ Ignore
    /\ UNCHANGED db /\ Outside

RebootedDescribe ==
    /\ At(Handler, "rebooted", "call")
    /\ CASE dcv = "CREATING" -> Ignore /\ UNCHANGED counters
         [] dcv = "READY" /\ counters.resumed < RESUME_REQUEST_COUNT_THRESHOLD ->
              Raise(Handler) /\ counters' = [counters EXCEPT !.resumed = @ + 1]
         [] dcv = "READY" /\ counters.resumed >= RESUME_REQUEST_COUNT_THRESHOLD ->
              Ignore /\ counters' = [counters EXCEPT !.resumed = 0]
         [] OTHER -> Goto(Handler, "host") /\ Stay /\ UNCHANGED counters
    /\ UNCHANGED <<row, server>> /\ Outside

\* SSM accepts a command only for an instance whose agent is up.
SendCommand(about) ==
    /\ ssm.sent < MaxCommands
    /\ ssm' = [ssm EXCEPT !.sent = @ + 1,
                          !.running = @ \cup {[about |-> about, id |-> ssm.sent + 1]}]
\* The command's row, written after the command was sent.
RecordCommand == ssm' = [ssm EXCEPT !.rows = @ \cup {ssm.sent}]

RebootedResume ==
    /\ At(Handler, "rebooted", "host")
    /\ IF host = "up" THEN SendCommand("resume") /\ Goto(Handler, "record") /\ Stay
       ELSE UNCHANGED ssm /\ Raise(Handler)
    /\ UNCHANGED <<db, world, notif, budget, asked>>

\* resume_session has already set RESUMING in memory, so the handler's own write
\* of RESUMING never happens and the row keeps its state.
RebootedRecord ==
    /\ At(Handler, "rebooted", "record")
    /\ RecordCommand
    /\ IF server = "NONE" THEN Raise(Handler) /\ UNCHANGED server
       ELSE Ignore /\ server' = "CREATED"
    /\ UNCHANGED <<row, counters, world, notif, budget, asked>>

(* EC2StateChangeEventHandler *)
StopIgnored  == {"NONE", "STOPPED", "DELETING", "ERROR"}
StopIsError  == {"PROVISIONING", "CREATING", "INITIALIZING", "RESUMING"}

HandleEc2Stopping ==
    /\ Receives("EC2_STOPPING")
    /\ IF row.state \in StopIgnored THEN Ignore ELSE Run("ec2_stopping", "write")
    /\ UNCHANGED db /\ Outside

HandleEc2Stopped ==
    /\ Receives("EC2_STOPPED")
    /\ IF row.state \in StopIgnored THEN Ignore ELSE Run("ec2_stopped", "write")
    /\ UNCHANGED db /\ Outside

Ec2StopWrite ==
    LET stopped == act[Handler].op = "ec2_stopped"
        error   == act[Handler].snap.state \in StopIsError
    IN
    /\ At(Handler, "ec2_stopping", "write") \/ At(Handler, "ec2_stopped", "write")
    /\ IF ~error /\ server = "NONE"
       THEN Raise(Handler) /\ UNCHANGED <<row, server>>
       ELSE /\ Update(Moved(Handler, IF error THEN "ERROR"
                                     ELSE IF stopped THEN "STOPPED" ELSE "STOPPING"))
            /\ server' = IF stopped /\ ~error THEN "STOPPED" ELSE server
            /\ IF UpdateRaises THEN Raise(Handler) ELSE Ignore
    /\ UNCHANGED counters /\ Outside

HandleEc2Running ==
    /\ Receives("EC2_RUNNING")
    /\ LET e == IF Hibernation /\ row.state = "RESUMING"
                THEN Event("REBOOT_COMPLETE_BY_CONTROLLER") ELSE NoEvent
       IN IF row.state = "NONE" \/ server # "NONE"
          THEN Return(Handler, e)
          ELSE act' = [act EXCEPT ![Handler] = Idle] /\ Send(queue, e)
    /\ server' = IF row.state = "NONE" \/ server = "NONE" THEN server ELSE "CREATED"
    /\ UNCHANGED <<row, counters>> /\ Outside

\* Mutant of HandleValidateCreation: the counter starts again at every attempt.
HandleValidateCreationForgets ==
    /\ Receives("VALIDATE_CREATION")
    /\ IF row.state \in {"NONE", "DELETING"} THEN Ignore ELSE Run("validate_creation", "call")
    /\ counters' = [counters EXCEPT !.validation = 0]
    /\ UNCHANGED <<row, server>> /\ Outside

(* ValidateDCVSessionCreationEventHandler *)
HandleValidateCreation ==
    /\ Receives("VALIDATE_CREATION")
    /\ IF row.state \in {"NONE", "DELETING"} THEN Ignore ELSE Run("validate_creation", "call")
    /\ counters' = IF row.state = "DELETING" THEN [counters EXCEPT !.validation = 0] ELSE counters
    /\ UNCHANGED <<row, server>> /\ Outside

Described(a) == IF act[a].snap.dcv THEN dcv ELSE "NONE"

ValidateCreationDescribe ==
    /\ At(Handler, "validate_creation", "call")
    /\ act' = [act EXCEPT ![Handler].pc = "write", ![Handler].res = Described(Handler)]
    /\ Stay /\ UNCHANGED db /\ Outside

\* The attempts to validate the DCV session have run out.
Exhausted(res, n) ==
    n > VALIDATION_REQUEST_THRESHOLD \/ (res = "DELETED" /\ n > SESSION_DELETED_THRESHOLD)

\* Mutant of ValidationOutcome: READY when the attempts run out.
ForgivingOutcome(res, state, n) ==
    CASE res = "READY" \/ Exhausted(res, n) -> "READY"
      [] OTHER -> IF state = "STOPPING" THEN "IGNORE" ELSE "RETRY"

\* What a validation concludes from the broker's answer, the state the row had
\* and the number of validations before it.
ValidationOutcome(res, state, n) ==
    CASE res = "READY" -> "READY"
      [] res # "READY" /\ Exhausted(res, n) -> "ERROR"
      [] OTHER -> IF state = "STOPPING" THEN "IGNORE" ELSE "RETRY"

ValidateCreationWrite ==
    LET snap    == act[Handler].snap
        outcome == ValidationOutcome(act[Handler].res, snap.state, counters.validation)
    IN
    /\ At(Handler, "validate_creation", "write")
    /\ CASE outcome = "READY" ->
              /\ Update(Moved(Handler, "READY"))
              /\ IF UpdateRaises THEN Raise(Handler) /\ UNCHANGED counters
                 ELSE Ignore /\ counters' = [counters EXCEPT !.validation = 0]
         [] outcome = "ERROR" ->
              /\ Update(Moved(Handler, "ERROR"))
              /\ IF UpdateRaises THEN Raise(Handler) ELSE Ignore
              /\ UNCHANGED counters
         [] outcome = "IGNORE" -> Ignore /\ UNCHANGED <<row, counters>>
         [] outcome = "RETRY" ->
              /\ IF snap.state = "INITIALIZING" THEN UNCHANGED row
                 ELSE Update(Moved(Handler, "INITIALIZING"))
              /\ counters' = IF snap.state # "INITIALIZING" /\ UpdateRaises THEN counters
                             ELSE [counters EXCEPT !.validation = @ + 1]
              /\ Raise(Handler)
    /\ UNCHANGED server /\ Outside

\* Mutant of HandleValidateDeletion: STOPPING is left out.
HandleValidateDeletionOnly ==
    /\ Receives("VALIDATE_DELETION")
    /\ IF row.state = "DELETING" THEN Run("validate_deletion", "call") ELSE Ignore
    /\ UNCHANGED db /\ Outside

(* ValidateDCVSessionDeletionEventHandler *)
HandleValidateDeletion ==
    /\ Receives("VALIDATE_DELETION")
    /\ IF row.state \in {"STOPPING", "DELETING"} THEN Run("validate_deletion", "call") ELSE Ignore
    /\ UNCHANGED db /\ Outside

ValidateDeletionDescribe ==
    /\ At(Handler, "validate_deletion", "call")
    /\ IF Described(Handler) \in {"NONE", "DELETED"}
       THEN Goto(Handler, IF act[Handler].snap.state = "DELETING" THEN "delete" ELSE "host") /\ Stay
       ELSE Raise(Handler)
    /\ UNCHANGED db /\ Outside

\* _continue_delete_session: row first, host afterwards.
ContinueDelete ==
    /\ At(Handler, "validate_deletion", "delete")
    /\ row' = NoRow
    /\ IF row.state = "NONE" THEN Raise(Handler) ELSE Goto(Handler, "host") /\ Stay
    /\ UNCHANGED <<server, counters>> /\ Outside

\* Mutant of ContinueDeleteHost: a stop goes the way of a deletion.
ContinueDeleteAnyHost ==
    /\ At(Handler, "validate_deletion", "host")
    /\ TerminateHost
    /\ IF TerminateRaises THEN Raise(Handler) ELSE Ignore
    /\ UNCHANGED <<row, counters, ssm, notif, budget, asked>>

ContinueDeleteHost ==
    /\ At(Handler, "validate_deletion", "host") /\ act[Handler].snap.state = "DELETING"
    /\ TerminateHost
    /\ IF TerminateRaises THEN Raise(Handler) ELSE Ignore
    /\ UNCHANGED <<row, counters, ssm, notif, budget, asked>>

\* _continue_stop_session
ContinueStop ==
    /\ At(Handler, "validate_deletion", "host") /\ act[Handler].snap.state = "STOPPING"
    /\ IF StopRefused THEN Raise(Handler) /\ UNCHANGED <<server, world, notif>>
       ELSE StopHost /\ IF StopRaises THEN Raise(Handler) ELSE Ignore
    /\ UNCHANGED <<row, counters, ssm, budget, asked>>

(* Scheduled and forced operations *)
HandleScheduledResume ==
    /\ Receives("SCHEDULED_RESUME")
    /\ IF row.state \in {"STOPPED", "ERROR"} THEN Run("resume", "read") ELSE Ignore
    /\ UNCHANGED db /\ Outside

HandleScheduledStop ==
    /\ Receives("SCHEDULED_STOP")
    /\ IF row.state # "READY" THEN Ignore /\ UNCHANGED ssm
       ELSE IF host = "up" THEN SendCommand("cpu") /\ Run("cpu", "record")
       ELSE Raise(Handler) /\ UNCHANGED ssm
    /\ UNCHANGED <<db, world, notif, budget, asked>>

CpuRecord ==
    /\ At(Handler, "cpu", "record")
    /\ RecordCommand /\ Ignore
    /\ UNCHANGED <<db, world, notif, budget, asked>>

\* The command's output says whether the CPU is below the threshold.
HandleCpuSuccess ==
    /\ Receives("CPU_SUCCESS")
    /\ Run("stop", "read") \/ Ignore
    /\ UNCHANGED db /\ Outside

HandleCpuOther ==
    /\ Receives("CPU_OTHER")
    /\ Ignore
    /\ UNCHANGED db /\ Outside

HandleTerminate ==
    /\ Receives("TERMINATE")
    /\ Begin(Handler, "terminate", "read", NoRow, TRUE) /\ Stay
    /\ UNCHANGED db /\ Outside

\* Mutant of HandleResumeSuccess: the session may be gone.
HandleResumeSuccessUnchecked ==
    /\ Receives("RESUME_SUCCESS")
    /\ Run("resume_success", "publish")
    /\ UNCHANGED db /\ Outside

(* IDEAResumeSessionCommandProgressEventHandler: it looks at neither the    *)
(* state the row is in nor the age of the command, and publishes before it  *)
(* writes.                                                                  *)
HandleResumeSuccess ==
    /\ Receives("RESUME_SUCCESS")
    /\ IF row.state = "NONE" THEN Raise(Handler) ELSE Run("resume_success", "publish")
    /\ UNCHANGED db /\ Outside

ResumeSuccessPublish ==
    /\ At(Handler, "resume_success", "publish")
    /\ Goto(Handler, "write") /\ Send(queue, Event("VALIDATE_CREATION"))
    /\ ssm' = [ssm EXCEPT !.rows = @ \ {Head(queue).id}]
    /\ UNCHANGED <<db, world, notif, budget, asked>>

HandleResumeFailed ==
    /\ Receives("RESUME_FAILED")
    /\ IF row.state = "NONE" THEN Raise(Handler) ELSE Run("resume_failed", "write")
    /\ UNCHANGED db /\ Outside

HandleResumeOther ==
    /\ Receives("RESUME_OTHER")
    /\ Ignore
    /\ UNCHANGED db /\ Outside

ResumeStatusWrite ==
    /\ At(Handler, "resume_success", "write") \/ At(Handler, "resume_failed", "write")
    /\ Update(Moved(Handler, IF act[Handler].op = "resume_success" THEN "INITIALIZING" ELSE "ERROR"))
    /\ IF UpdateRaises THEN Raise(Handler) ELSE Ignore
    /\ UNCHANGED <<server, counters>> /\ Outside

-----------------------------------------------------------------------------
(* What happens around the controller *)

\* An exception or a crash between two steps: an API call is lost, a handler's
\* message is received again.
Fail(a) ==
    /\ act[a].op # "idle" /\ Fault
    /\ Raise(a)
    /\ UNCHANGED <<db, world, ssm, notif, asked>>

\* ControllerQueueMonitorService: notifications of EC2 and SSM become events of
\* the session, unless the row that says whose they are is missing.
EventType(n) ==
    CASE n.about = "ec2" /\ n.status = "stopping" -> "EC2_STOPPING"
      [] n.about = "ec2" /\ n.status = "stopped"  -> "EC2_STOPPED"
      [] n.about = "ec2" /\ n.status = "running"  -> "EC2_RUNNING"
      [] n.about = "resume" /\ n.status = "Success" -> "RESUME_SUCCESS"
      [] n.about = "resume" /\ n.status = "Failed"  -> "RESUME_FAILED"
      [] n.about = "resume" /\ n.status = "Other"   -> "RESUME_OTHER"
      [] n.about = "cpu" /\ n.status = "Success"    -> "CPU_SUCCESS"
      [] OTHER -> "CPU_OTHER"

Known(n) == IF n.about = "ec2" THEN server # "NONE" ELSE n.id \in ssm.rows

\* In order, a notification finds the row of its command already written.
Arrives(i) ==
    \/ Reorder
    \/ i = 1 /\ (notif[i].about = "ec2" \/ act[Handler].pc # "record")

Route(i) ==
    /\ i \in 1 .. Len(notif) /\ Arrives(i)
    /\ notif' = SubSeq(notif, 1, i - 1) \o SubSeq(notif, i + 1, Len(notif))
    /\ Send(queue, IF Known(notif[i])
                   THEN [type |-> EventType(notif[i]), id |-> notif[i].id] ELSE NoEvent)
    /\ UNCHANGED <<db, act, world, ssm, budget, asked>>

Ec2Settles ==
    /\ \/ ec2 = "pending"  /\ ec2' = "running" /\ Notify("running")
       \/ ec2 = "stopping" /\ ec2' = "stopped" /\ Notify("stopped")
    /\ UNCHANGED <<db, queue, recent, act, host, alive, dcv, ssm, budget, asked>>

\* The host's boot scripts announce the first boot and every later one; waking
\* from hibernation runs no boot script.
HostUp ==
    /\ ec2 = "running" /\ host \in {"first", "booting", "waking"}
    /\ host' = "up"
    /\ Send(queue, CASE host = "first"   -> Event("HOST_READY")
                     [] host = "booting" -> Event("REBOOT_COMPLETE")
                     [] host = "waking"  -> NoEvent)
    /\ UNCHANGED <<db, act, ec2, alive, dcv, ssm, notif, budget, asked>>

\* Somebody shuts the host down or reboots it from inside.
Outage ==
    /\ ec2 = "running" /\ budget.outages < MaxOutages
    /\ budget' = [budget EXCEPT !.outages = @ + 1]
    /\ alive' = FALSE
    /\ \/ ec2' = "stopping" /\ host' = "down" /\ Notify("stopping")
       \/ host = "up" /\ host' = "booting" /\ UNCHANGED <<ec2, notif>>
    /\ UNCHANGED <<db, queue, recent, act, dcv, ssm, asked>>

\* The broker carries out a request it accepted.
BrokerWorks ==
    /\ \/ dcv = "CREATING" /\ host = "up" /\ dcv' = "READY" /\ alive' = TRUE /\ UNCHANGED budget
       \/ dcv = "CREATING" /\ dcv' = "DELETED" /\ UNCHANGED alive
          /\ IF host = "up" THEN Fault ELSE UNCHANGED budget
       \/ dcv = "DELETING" /\ dcv' = "DELETED" /\ alive' = FALSE /\ UNCHANGED budget
    /\ UNCHANGED <<db, queue, recent, act, ec2, host, ssm, notif, asked>>

\* The broker notices what happened on the host.
BrokerNotices ==
    /\ dcv \in {"READY", "DELETED"} /\ dcv' = IF alive THEN "READY" ELSE "DELETED"
    /\ dcv' # dcv
    /\ UNCHANGED <<db, queue, recent, act, ec2, host, alive, ssm, notif, budget, asked>>

\* A command ends; a resume command that succeeds leaves a DCV session behind.
CommandEnds(c) ==
    /\ c \in ssm.running
    /\ ssm' = [ssm EXCEPT !.running = @ \ {c}]
    /\ \E status \in {"Success", "Failed", "Other"} :
          /\ IF status = "Success" THEN host = "up" /\ UNCHANGED budget
             ELSE IF host = "up" THEN Fault ELSE status = "Failed" /\ UNCHANGED budget
          /\ notif' = Append(notif, [about |-> c.about, status |-> status, id |-> c.id])
          /\ alive' = (alive \/ (c.about = "resume" /\ status = "Success"))
    /\ UNCHANGED <<db, queue, recent, act, ec2, host, dcv, asked>>

\* ScheduledEventHandler and VirtualDesktopScheduleUtils.trigger_schedule.
TriggerSchedule ==
    /\ Scheduled /\ Call /\ row.state # "NONE"
    /\ \E t \in {"SCHEDULED_RESUME", "SCHEDULED_STOP"} : Send(queue, Event(t))
    /\ UNCHANGED <<db, act, world, ssm, notif, asked>>

\* UserDisabledEventHandler, for one of the user's sessions.
UserDisabled ==
    /\ Call /\ row.state # "NONE"
    /\ Send(queue, Event("TERMINATE"))
    /\ asked' = TRUE
    /\ UNCHANGED <<db, act, world, ssm, notif>>

DedupExpires ==
    /\ recent # {} /\ recent' = {}
    /\ UNCHANGED <<db, queue, act, world, ssm, notif, budget, asked>>

-----------------------------------------------------------------------------

Request(a) ==
    \/ CreateProvision(a) \/ ApiResume(a)
    \/ \E force \in BOOLEAN :
          ApiStop(a, force) \/ ApiReboot(a, force) \/ ApiTerminate(a, force)

Step(a) ==
    \/ CreateWrite(a)
    \/ StopRead(a) \/ BrokerDelete(a) \/ StopWrite(a) \/ PublishDeletion(a)
    \/ ResumeRead(a) \/ ResumeHost(a) \/ ResumeWrite(a)
    \/ RebootWrite(a) \/ RebootHost(a)
    \/ TerminateRead(a) \/ TerminateWrite(a)
    \/ TerminateStoppedHost(a) \/ TerminateDelete(a)

Handle ==
    \/ HandleHostReady \/ ReadyCreate \/ ReadyWrite \/ ReadyPublish
    \/ HandleRebootComplete \/ HandleRebootCompleteByController
    \/ RebootedDescribe \/ RebootedResume \/ RebootedRecord
    \/ HandleEc2Stopping \/ HandleEc2Stopped \/ Ec2StopWrite \/ HandleEc2Running
    \/ HandleValidateCreation \/ ValidateCreationDescribe \/ ValidateCreationWrite
    \/ HandleValidateDeletion \/ ValidateDeletionDescribe
    \/ ContinueDelete \/ ContinueDeleteHost \/ ContinueStop
    \/ HandleScheduledResume \/ HandleScheduledStop \/ CpuRecord
    \/ HandleCpuSuccess \/ HandleCpuOther \/ HandleTerminate
    \/ HandleResumeSuccess \/ ResumeSuccessPublish \/ HandleResumeFailed
    \/ HandleResumeOther \/ ResumeStatusWrite

Routes == \E i \in 1 .. Len(notif) : Route(i)
Commands == \E c \in ssm.running : CommandEnds(c)
Environment ==
    \/ Routes \/ Ec2Settles \/ HostUp \/ BrokerWorks \/ BrokerNotices \/ Commands

Next ==
    \/ \E a \in ApiWorkers : Request(a)
    \/ \E a \in Actors : Step(a) \/ Fail(a)
    \/ Handle
    \/ Environment
    \/ Outage \/ TriggerSchedule \/ UserDisabled \/ DedupExpires

Spec == Init /\ [][Next]_vars

\* What never stops: the handler thread's loop, API calls once started, SNS and
\* the controller queue monitor's loop, EC2, the host's boot, the broker, SSM.
\* Nobody has to make a request.
Fairness ==
    /\ WF_vars(Handle \/ Step(Handler))
    /\ \A a \in ApiWorkers : WF_vars(Step(a))
    /\ WF_vars(Routes) /\ WF_vars(Ec2Settles) /\ WF_vars(HostUp)
    /\ WF_vars(BrokerWorks) /\ WF_vars(BrokerNotices) /\ WF_vars(Commands)

FairSpec == Spec /\ Fairness

-----------------------------------------------------------------------------
(* Properties *)

Queued(t) == \E i \in DOMAIN queue : queue[i].type = t
Coming(about, statuses) ==
    \E i \in DOMAIN notif : notif[i].about = about /\ notif[i].status \in statuses
Doing(op, pc) == \E a \in Actors : At(a, op, pc)

\* An instance goes down, or the news of it are on their way to the handler.
GoingDown ==
    \/ ec2 = "stopping" \/ Coming("ec2", {"stopping", "stopped"})
    \/ Queued("EC2_STOPPING") \/ Queued("EC2_STOPPED")

\* Nobody is doing anything and nothing is on its way.
Quiet ==
    /\ InFlight = {} /\ queue = <<>> /\ notif = <<>> /\ ssm.running = {}
    /\ ec2 \notin {"pending", "stopping"} /\ host \in {"up", "down", "asleep"}
    /\ dcv \in {"NONE", "READY", "DELETED"} /\ (dcv = "READY" <=> alive)

Settled == {"NONE", "READY", "STOPPED", "ERROR"}

\* Whatever overlaps, fails or arrives out of order, the controller releases
\* the instance only after somebody asked for the session's termination: a
\* stop never becomes a termination (terminate_sessions 248-255 and
\* _continue_delete_session 36-42 are the only calls of terminate_dcv_hosts).
HardwareReleasedOnlyIfAsked == ec2 = "terminated" => asked

\* As long as no operation failed half way, a session whose row is gone, with
\* nobody in the middle of an operation, has no instance left, although one
\* path deletes the row before the host and the other after it.
NoLeakedHost ==
    budget.faults = 0 /\ row.state = "NONE" /\ InFlight = {}
        => ec2 \in {"none", "terminated"}

\* Without overlapping operations a row never shows a desktop whose host was
\* released or never existed, and the host's row exists with it.
NoZombieRow ==
    row.state # "NONE" /\ InFlight = {}
        => server # "NONE" /\ ec2 \notin {"none", "terminated"}

\* Without overlapping operations update, which creates the row it does not
\* find, never brings back a session that was deleted.
NoResurrection ==
    [][row.state = "NONE" /\ row'.state # "NONE" => row'.state = "PROVISIONING"]_vars

\* A session being deleted always has the event in the queue that will finish
\* it, or the terminate_sessions that is about to publish it: there is no
\* sweep that would find it otherwise.
DeletionIsDriven ==
    row.state = "DELETING" => Queued("VALIDATE_DELETION") \/ Doing("terminate", "publish")

\* The same for a session that is being stopped: its host's shutdown, or the
\* event that will shut it down, is on its way.
StopIsDriven ==
    row.state = "STOPPING" =>
        \/ Queued("VALIDATE_DELETION") \/ Doing("stop", "publish")
        \/ ec2 = "stopping" \/ Coming("ec2", {"stopped"}) \/ Queued("EC2_STOPPED")

\* The same for a session that is being created: the host's first boot, the
\* HOST_READY event or the validation of the DCV session is on its way.
CreationIsDriven ==
    /\ row.state = "INITIALIZING" =>
          Queued("VALIDATE_CREATION") \/ At(Handler, "ready", "publish")
    /\ row.state \in {"PROVISIONING", "CREATING"} =>
          \/ host = "first" \/ Queued("HOST_READY") \/ GoingDown
          \/ Doing("terminate", "delete")

\* The same for a session that is being resumed or rebooted: the boot, the
\* event that announces it, the resume command or its status is on its way.
ResumeIsDriven ==
    row.state = "RESUMING" =>
        \/ ec2 = "pending" \/ host = "booting" \/ Queued("REBOOT_COMPLETE")
        \/ (\E c \in ssm.running : c.about = "resume")
        \/ Coming("resume", {"Success", "Failed"})
        \/ Queued("RESUME_SUCCESS") \/ Queued("RESUME_FAILED") \/ Queued("VALIDATE_CREATION")
        \/ GoingDown \/ Doing("reboot", "host") \/ Doing("terminate", "delete")

\* When everything has come to rest the row tells the truth: READY means a
\* running instance whose DCV session exists, STOPPED a stopped instance, and
\* the host's row agrees.
QuietStateMatchesHost ==
    Quiet =>
        /\ row.state = "READY" => ec2 = "running" /\ alive /\ server = "CREATED"
        /\ row.state = "STOPPED" => ec2 = "stopped" /\ server \in {"STOPPED", "HIBERNATED"}

\* Every session comes to rest, or its termination begins: provisioning,
\* validation, stopping and resuming end, validation because its counter runs
\* out.  (A termination may wait for ever: the broker may answer that it does
\* not know a DCV session which a resume command has just brought back, and the
\* deletion is not requested a second time.)
SessionSettles == row.state \notin Settled ~> row.state \in Settled \cup {"DELETING"}

\* "Terminate: Terminate your session. Attention, this will release the
\* hardware and your session will be gone" (my-virtual-desktop-sessions.md):
\* a session in DELETING stays there until it is gone.
DeletionIsFinal == [][row.state = "DELETING" => row'.state \in {"DELETING", "NONE"}]_vars

\* The same promise of the same page: nothing is left to happen and the
\* session is still DELETING.
TerminationFinishes == Quiet => row.state # "DELETING"

\* "Hibernate: ... Processes will automatically be resumed when you restart
\* your session" (my-virtual-desktop-sessions.md): a restarted session does
\* not stay RESUMING when nothing is left to happen.
RestartResumes == Quiet => row.state # "RESUMING"
=============================================================================
