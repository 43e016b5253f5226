--------------------- MODULE VirtualDesktopSession_proofs ---------------------
(***************************************************************************)
(* What holds of VirtualDesktopSession for every number of API threads,    *)
(* every bound and every threshold, whatever overlaps, fails, is dropped   *)
(* as a duplicate or arrives out of order.                                 *)
(***************************************************************************)
EXTENDS VirtualDesktopSession, SequenceTheorems, TLAPS

-----------------------------------------------------------------------------
(* The inductive invariant *)

\* The handler works on the message at the head of the group.
Held == act[Handler].op # "idle" => queue # <<>>

\* No terminate_sessions is under way, nobody holds a snapshot of a DELETING
\* row, and no TERMINATE event waits.
OtherEvents == [type : EventTypes \ {"TERMINATE"}, id : Nat]
NoTermination ==
    /\ \A a \in Actors : act[a].op # "terminate" /\ act[a].snap.state # "DELETING"
    /\ queue \in Seq(OtherEvents)

\* The actors and the queue, and what they may be up to before anybody asks
\* for the termination.
Control ==
    /\ act \in [Actors -> ActorStates]
    /\ queue \in Seq(Events)
    /\ recent \in SUBSET Undated
    /\ Held
    /\ asked \/ NoTermination

\* The rest of the state.
Commanded == [sent : Nat, running : SUBSET [about : {"resume", "cpu"}, id : Nat],
              rows : SUBSET Nat]
Budgets == [calls : Nat, faults : Nat, outages : Nat]
Counts == [creation : Nat, validation : Nat, resumed : Nat]
Data ==
    /\ row \in Rows
    /\ server \in {"NONE", "CREATED", "STOPPED", "HIBERNATED"}
    /\ counters \in Counts
    /\ ec2 \in {"none", "pending", "running", "stopping", "stopped", "terminated"}
    /\ host \in {"down", "asleep", "first", "booting", "waking", "up"}
    /\ alive \in BOOLEAN
    /\ dcv \in DcvStates
    /\ ssm \in Commanded
    /\ notif \in Seq(Notifications)
    /\ budget \in Budgets
    /\ asked \in BOOLEAN

\* Before anybody asks for the termination the row is not DELETING and the
\* instance is not terminated.
Guarded == asked \/ (row.state # "DELETING" /\ ec2 # "terminated")

\* While create_session has not written the row, nobody has read one: whoever
\* is in the middle of something is about to read and find nothing.
Fresh ==
    /\ row.state = "NONE"
    /\ \A b \in Actors : act[b].op \in {"idle", "create"} \/ act[b].pc = "read"
FreshInv ==
    /\ ec2 = "none" => Fresh /\ \A a \in Actors : act[a].op # "create"
    /\ \A a \in Actors : act[a].op = "create" =>
          Fresh /\ act[a].pc = "write" /\ \A b \in Actors : act[b].op = "create" => a = b

\* terminate_sessions deletes a row only after it released the host, and the
\* validation handler only when the row it read is DELETING.
ReleasedInv ==
    /\ \A a \in Actors : At(a, "terminate", "delete") => ec2 = "terminated"
    /\ At(Handler, "validate_deletion", "delete") => act[Handler].snap.state = "DELETING"

\* A row that is missing has not been written yet, or is followed by its host.
DeletesHost == At(Handler, "validate_deletion", "host") /\ act[Handler].snap.state = "DELETING"
LeakInv ==
    budget.faults = 0 /\ row.state = "NONE" =>
        \/ ec2 \in {"none", "terminated"}
        \/ \E a \in Actors : act[a].op = "create"
        \/ DeletesHost

IInv == Control /\ Data /\ Guarded /\ FreshInv /\ ReleasedInv /\ LeakInv

-----------------------------------------------------------------------------
(* Facts about the parts the actions are made of *)

\* The event handler is an actor, and so is every API thread.
LEMMA HandlerIsActor == Handler \in Actors
  BY DEF Actors, Handler

\* An API thread is an actor and is not the event handler's thread.
LEMMA ApiIsActor == \A a \in ApiWorkers : a \in Actors /\ a # Handler
  BY Parameters DEF Actors

\* An actor that does nothing has a state of the right type.
LEMMA IdleTyped == Idle \in ActorStates
  BY DEF Idle, ActorStates, NoRow, Rows, Ops, Pcs, DcvStates

\* The absence of a row has the type of a row.
LEMMA NoRowTyped == NoRow \in Rows /\ NoRow.state = "NONE"
  BY DEF NoRow, Rows

\* An operation that was started because of a row writes that row back with
\* another state.
LEMMA MovedTyped ==
  ASSUME Control, NEW a \in Actors, NEW s \in SessionStates
  PROVE  Moved(a, s) \in Rows /\ Moved(a, s).state = s
  <1>1. act[a].snap \in Rows
    BY DEF Control, ActorStates
  <1>2. QED
    BY <1>1 DEF Moved, Rows

\* Every event but TERMINATE is one of the events that may wait before anybody
\* asks for the termination.
LEMMA EventPublished == \A t \in EventTypes \ {"TERMINATE"} : Event(t) \in OtherEvents
  BY DEF Event, OtherEvents

\* Those events are events.
LEMMA OtherEventsAreEvents == OtherEvents \subseteq Events
  BY DEF OtherEvents, Events

\* Before anybody asks, nobody acts on a termination.
LEMMA SnapNotDeleting ==
  ASSUME Control, ~asked, NEW a \in Actors
  PROVE  act[a].op # "terminate" /\ act[a].snap.state # "DELETING"
  BY DEF Control, NoTermination

\* A request is counted and is no fault.
LEMMA CallTyped ==
  ASSUME Data, Call
  PROVE  budget' \in Budgets /\ budget'.faults = budget.faults
  BY DEF Data, Call, Budgets

\* A fault is counted.
LEMMA FaultTyped ==
  ASSUME Data, Fault
  PROVE  budget' \in Budgets /\ budget'.faults # 0
  BY DEF Data, Fault, Budgets

\* A notification of EC2 joins the others.
LEMMA NotifyTyped ==
  ASSUME Data, NEW s \in {"stopping", "stopped", "running"}, Notify(s)
  PROVE  notif' \in Seq(Notifications)
  <1> DEFINE n == [about |-> "ec2", status |-> s, id |-> 0]
  <1>1. n \in Notifications
    BY DEF Notifications
  <1>2. notif' = Append(notif, n)
    BY DEF Notify
  <1> HIDE DEF n
  <1>3. QED
    BY <1>1, <1>2, AppendProperties DEF Data

\* Sending a command keeps the record of the commands well formed.
LEMMA SendCommandTyped ==
  ASSUME Data, NEW about \in {"resume", "cpu"}, SendCommand(about)
  PROVE  ssm' \in Commanded
  <1> DEFINE c == [about |-> about, id |-> ssm.sent + 1]
  <1>1. ssm \in Commanded
    BY DEF Data
  <1>2. ssm.sent + 1 \in Nat /\ c \in [about : {"resume", "cpu"}, id : Nat]
    BY <1>1 DEF Commanded
  <1>3. ssm' = [ssm EXCEPT !.sent = ssm.sent + 1, !.running = ssm.running \cup {c}]
    BY DEF SendCommand
  <1> HIDE DEF c
  <1>4. QED
    BY <1>1, <1>2, <1>3 DEF Commanded

\* So does recording one.
LEMMA RecordCommandTyped ==
  ASSUME Data, RecordCommand
  PROVE  ssm' \in Commanded
  BY DEF Data, RecordCommand, Commanded

\* Stopping the host changes the host and its row within their types.
LEMMA StopHostTyped ==
  ASSUME Data, StopHost
  PROVE  /\ server' \in {"NONE", "CREATED", "STOPPED", "HIBERNATED"}
         /\ ec2' \in {ec2, "stopping"} /\ (ec2' = "stopping" \/ ec2' = ec2)
         /\ host' \in {host, "asleep", "down"} /\ alive' \in BOOLEAN /\ dcv' = dcv
         /\ notif' \in Seq(Notifications)
  <1>1. notif' \in Seq(Notifications)
    BY NotifyTyped DEF Data, StopHost
  <1>2. QED
    BY <1>1 DEF Data, StopHost

-----------------------------------------------------------------------------
(* The actors and the queue *)

\* SQS adds the event or drops it; the queue does not lose anything.
LEMMA SendKeeps ==
  ASSUME NEW S, NEW q \in Seq(S), NEW e, e = NoEvent \/ e \in S, Send(q, e)
  PROVE  queue' \in Seq(S) /\ (q # <<>> => queue' # <<>>)
  <1>1. CASE queue' = q
    BY <1>1
  <1>2. CASE queue' = Append(q, e) /\ e \in S
    BY <1>2, AppendProperties
  <1>3. QED
    BY <1>1, <1>2 DEF Send

\* SQS remembers only bodies that carry no timestamp.
LEMMA SendRemembers ==
  ASSUME recent \in SUBSET Undated, NEW q, NEW e, Send(q, e)
  PROVE  recent' \in SUBSET Undated
  BY DEF Send

\* An operation that raises leaves its message where it is.
LEMMA RaiseControl ==
  ASSUME Control, asked => asked', NEW a \in Actors, Raise(a)
  PROVE  Control'
  <1>1. act' = [act EXCEPT ![a] = Idle] /\ UNCHANGED <<queue, recent>>
    BY DEF Raise
  <1>2. act' \in [Actors -> ActorStates]
    BY <1>1, IdleTyped DEF Control
  <1>3. Held'
    BY <1>1, HandlerIsActor DEF Control, Held, Idle
  <1>4. (asked \/ NoTermination)'
    BY <1>1 DEF Control, NoTermination, Idle, NoRow
  <1>5. QED
    BY <1>1, <1>2, <1>3, <1>4 DEF Control

\* An operation that returns has its message deleted, and may publish any
\* event but TERMINATE.
LEMMA ReturnControl ==
  ASSUME Control, asked => asked', NEW a \in Actors, act[a].op # "idle" \/ queue # <<>>,
         NEW e, e = NoEvent \/ e \in OtherEvents, Return(a, e)
  PROVE  Control'
  <1> DEFINE q == IF a = Handler THEN Tail(queue) ELSE queue
  <1>1. act' = [act EXCEPT ![a] = Idle] /\ Send(q, e)
    BY DEF Return
  <1>2. act' \in [Actors -> ActorStates]
    BY <1>1, IdleTyped DEF Control
  <1>3. queue # <<>> \/ a # Handler
    BY DEF Control, Held
  <1>4. \A S : queue \in Seq(S) => q \in Seq(S)
    BY <1>3, HeadTailProperties
  <1>5. queue' \in Seq(Events) /\ recent' \in SUBSET Undated
    <2>1. q \in Seq(Events) /\ (e = NoEvent \/ e \in Events)
      BY <1>4, OtherEventsAreEvents DEF Control
    <2> HIDE DEF q
    <2>2. QED
      BY <1>1, <2>1, SendKeeps, SendRemembers DEF Control
  <1>6. Held'
    <2>1. CASE a = Handler
      BY <1>1, <2>1, HandlerIsActor DEF Control, Held, Idle
    <2>2. CASE a # Handler
      <3>1. act'[Handler] = act[Handler]
        BY <1>1, <2>2, HandlerIsActor DEF Control
      <3>2. Send(queue, e) /\ queue \in Seq(Events) /\ (e = NoEvent \/ e \in Events)
        BY <1>1, <2>2, OtherEventsAreEvents DEF Control
      <3>3. queue # <<>> => queue' # <<>>
        BY <3>2, SendKeeps
      <3>4. QED
        BY <3>1, <3>3 DEF Control, Held
    <2>3. QED
      BY <2>1, <2>2
  <1>7. (asked \/ NoTermination)'
    <2>1. SUFFICES ASSUME ~asked
                   PROVE  NoTermination'
      OBVIOUS
    <2>2. NoTermination
      BY <2>1 DEF Control
    <2>3. \A b \in Actors : act'[b].op # "terminate" /\ act'[b].snap.state # "DELETING"
      BY <1>1, <2>2 DEF Control, NoTermination, Idle, NoRow
    <2>4. queue' \in Seq(OtherEvents)
      <3>1. q \in Seq(OtherEvents)
        BY <1>4, <2>2 DEF NoTermination
      <3> HIDE DEF q
      <3>2. QED
        BY <1>1, <3>1, SendKeeps
    <2>5. QED
      BY <2>3, <2>4 DEF NoTermination
  <1>8. QED
    BY <1>2, <1>5, <1>6, <1>7 DEF Control

\* An operation begins or goes on.
LEMMA MoveControl ==
  ASSUME Control, asked => asked', NEW a \in Actors, NEW s \in ActorStates,
         act' = [act EXCEPT ![a] = s], Stay,
         a = Handler => queue # <<>>,
         asked' \/ (s.op # "terminate" /\ s.snap.state # "DELETING")
  PROVE  Control'
  <1>1. act' \in [Actors -> ActorStates]
    BY DEF Control
  <1>2. Held'
    <2>1. CASE a = Handler
      BY <2>1 DEF Control, Held, Stay
    <2>2. CASE a # Handler
      BY <2>2, HandlerIsActor DEF Control, Held, Stay
    <2>3. QED
      BY <2>1, <2>2
  <1>3. (asked \/ NoTermination)'
    BY DEF Control, NoTermination, Stay
  <1>4. QED
    BY <1>1, <1>2, <1>3 DEF Control, Stay

\* An operation begins, with the row it read.
LEMMA BeginControl ==
  ASSUME Control, asked => asked', NEW a \in Actors, a = Handler => queue # <<>>,
         NEW op \in Ops, NEW pc \in Pcs, NEW snap \in Rows, NEW force \in BOOLEAN,
         Begin(a, op, pc, snap, force), Stay,
         asked' \/ (op # "terminate" /\ snap.state # "DELETING")
  PROVE  Control'
  <1> DEFINE s == [op |-> op, pc |-> pc, snap |-> snap, force |-> force, res |-> "NONE"]
  <1>1. s \in ActorStates
    BY DEF ActorStates, DcvStates
  <1>2. act' = [act EXCEPT ![a] = s]
    BY DEF Begin
  <1>3. s.op = op /\ s.snap = snap
    OBVIOUS
  <1> HIDE DEF s
  <1>4. QED
    BY <1>1, <1>2, <1>3, MoveControl

\* An operation goes on.
LEMMA GotoControl ==
  ASSUME Control, asked => asked', NEW a \in Actors, act[a].op # "idle",
         NEW pc \in Pcs, Goto(a, pc), Stay
  PROVE  Control'
  <1> DEFINE s == [act[a] EXCEPT !.pc = pc]
  <1>1. act[a] \in ActorStates
    BY DEF Control
  <1>2. s \in ActorStates /\ s.op = act[a].op /\ s.snap = act[a].snap
    BY <1>1 DEF ActorStates
  <1>3. act' = [act EXCEPT ![a] = s]
    BY DEF Goto
  <1> HIDE DEF s
  <1>4. asked' \/ (s.op # "terminate" /\ s.snap.state # "DELETING")
    BY <1>2 DEF Control, NoTermination
  <1>5. a = Handler => queue # <<>>
    BY DEF Control, Held
  <1>6. QED
    BY <1>2, <1>3, <1>4, <1>5, MoveControl

\* The actors and the queue are left alone.
LEMMA StayControl ==
  ASSUME Control, asked => asked', UNCHANGED act, UNCHANGED queue, recent' \in {recent, {}}
  PROVE  Control'
  BY DEF Control, Held, NoTermination

\* An event comes from outside.
LEMMA SendControl ==
  ASSUME Control, asked => asked', UNCHANGED act, NEW e, e = NoEvent \/ e \in Events,
         asked' \/ e = NoEvent \/ e \in OtherEvents, Send(queue, e)
  PROVE  Control'
  <1>1. queue' \in Seq(Events) /\ recent' \in SUBSET Undated /\ (queue # <<>> => queue' # <<>>)
    BY SendKeeps, SendRemembers DEF Control
  <1>2. Held'
    BY <1>1 DEF Control, Held
  <1>3. (asked \/ NoTermination)'
    BY SendKeeps DEF Control, NoTermination
  <1>4. QED
    BY <1>1, <1>2, <1>3 DEF Control

-----------------------------------------------------------------------------
(* What the handlers with several outcomes do, one outcome or another *)

\* The validation of a creation leaves the row alone, or writes it back READY,
\* ERROR or INITIALIZING.
LEMMA ValidateCreationWriteEffect ==
  ASSUME Control, Data, ValidateCreationWrite
  PROVE  /\ At(Handler, "validate_creation", "write")
         /\ row' = row \/ (row' \in Rows /\ row'.state \in {"READY", "ERROR", "INITIALIZING"})
         /\ counters' \in Counts
         /\ Raise(Handler) \/ Ignore
         /\ UNCHANGED server /\ Outside
  <1> DEFINE snap == act[Handler].snap
             outcome == ValidationOutcome(act[Handler].res, snap.state, counters.validation)
  <1>1. outcome \in {"READY", "ERROR", "IGNORE", "RETRY"}
    BY DEF ValidationOutcome
  <1>2. \A s \in {"READY", "ERROR", "INITIALIZING"} : Moved(Handler, s) \in Rows /\ Moved(Handler, s).state = s
    BY MovedTyped, HandlerIsActor DEF SessionStates
  <1>3. /\ counters \in Counts
        /\ [counters EXCEPT !.validation = 0] \in Counts
        /\ [counters EXCEPT !.validation = counters.validation + 1] \in Counts
    BY DEF Data, Counts
  <1>4. At(Handler, "validate_creation", "write") /\ UNCHANGED server /\ Outside
    BY DEF ValidateCreationWrite
  <1> HIDE DEF outcome
  <1>5. CASE outcome = "READY"
    BY <1>2, <1>3, <1>4, <1>5 DEF ValidateCreationWrite, outcome, Update
  <1>6. CASE outcome = "ERROR"
    BY <1>2, <1>3, <1>4, <1>6 DEF ValidateCreationWrite, outcome, Update
  <1>7. CASE outcome = "IGNORE"
    BY <1>3, <1>4, <1>7 DEF ValidateCreationWrite, outcome
  <1>8. CASE outcome = "RETRY"
    BY <1>2, <1>3, <1>4, <1>8 DEF ValidateCreationWrite, outcome, Update
  <1>9. QED
    BY <1>1, <1>5, <1>6, <1>7, <1>8

\* The creation of the DCV session leaves the row alone, or writes it back
\* INITIALIZING, CREATING or ERROR.
LEMMA ReadyWriteEffect ==
  ASSUME Control, Data, ReadyWrite
  PROVE  /\ At(Handler, "ready", "write")
         /\ row' = row \/ (row' \in Rows /\ row'.state \in {"INITIALIZING", "CREATING", "ERROR"})
         /\ counters' \in Counts
         /\ Raise(Handler) \/ Ignore \/ (Goto(Handler, "publish") /\ Stay)
         /\ UNCHANGED server /\ Outside
  <1>1. Moved(Handler, "CREATING") \in Rows /\ Moved(Handler, "CREATING").state = "CREATING"
    BY MovedTyped, HandlerIsActor DEF SessionStates
  <1>2. /\ [state |-> "INITIALIZING", dcv |-> TRUE] \in Rows
        /\ [state |-> "ERROR", dcv |-> FALSE] \in Rows
    BY DEF Rows, SessionStates
  <1>3. counters \in Counts /\ [counters EXCEPT !.creation = counters.creation + 1] \in Counts
    BY DEF Data, Counts
  <1>4. At(Handler, "ready", "write") /\ UNCHANGED server /\ Outside
    BY DEF ReadyWrite
  <1>5. CASE act[Handler].res = "CREATING"
    <2>1. /\ row' = [state |-> "INITIALIZING", dcv |-> TRUE] /\ UNCHANGED counters
          /\ Raise(Handler) \/ (Goto(Handler, "publish") /\ Stay)
      BY <1>5 DEF ReadyWrite, Update
    <2>2. QED
      BY <1>2, <1>3, <1>4, <2>1
  <1>6. CASE act[Handler].res # "CREATING" /\ counters.creation < SESSION_CREATION_THRESHOLD_COUNT
    BY <1>1, <1>3, <1>4, <1>6 DEF ReadyWrite, Update
  <1>7. CASE act[Handler].res # "CREATING" /\ ~(counters.creation < SESSION_CREATION_THRESHOLD_COUNT)
    <2>1. row' = [state |-> "ERROR", dcv |-> FALSE] /\ UNCHANGED counters /\ (Raise(Handler) \/ Ignore)
      BY <1>7 DEF ReadyWrite, Update
    <2>2. QED
      BY <1>2, <1>3, <1>4, <2>1
  <1>8. QED
    BY <1>5, <1>6, <1>7

\* The handler of a reboot goes on, gives up or tries again.
LEMMA RebootedDescribeEffect ==
  ASSUME Control, Data, RebootedDescribe
  PROVE  /\ At(Handler, "rebooted", "call")
         /\ counters' \in Counts
         /\ Raise(Handler) \/ Ignore \/ (Goto(Handler, "host") /\ Stay)
         /\ UNCHANGED <<row, server>> /\ Outside
  <1>1. /\ counters \in Counts
        /\ [counters EXCEPT !.resumed = 0] \in Counts
        /\ [counters EXCEPT !.resumed = counters.resumed + 1] \in Counts
    BY DEF Data, Counts
  <1>2. CASE dcv = "CREATING"
    BY <1>1, <1>2 DEF RebootedDescribe
  <1>3. CASE dcv = "READY" /\ counters.resumed < RESUME_REQUEST_COUNT_THRESHOLD
    BY <1>1, <1>3 DEF RebootedDescribe
  <1>4. CASE dcv = "READY" /\ ~(counters.resumed < RESUME_REQUEST_COUNT_THRESHOLD)
    <2>1. counters.resumed >= RESUME_REQUEST_COUNT_THRESHOLD
      BY <1>4, Parameters DEF Data, Counts
    <2>2. QED
      BY <1>1, <1>4, <2>1 DEF RebootedDescribe
  <1>5. CASE dcv \notin {"CREATING", "READY"}
    BY <1>1, <1>5 DEF RebootedDescribe
  <1>6. QED
    BY <1>2, <1>3, <1>4, <1>5

-----------------------------------------------------------------------------
(* Every step keeps the invariant *)

\* The actors stay well typed, the handler's message stays where it is until the
\* handler is done, and nobody begins a termination before somebody asks.
LEMMA ControlStep ==
  ASSUME Control, Data, Guarded, Next
  PROVE  Control'
  <1>1. ASSUME NEW a \in ApiWorkers, Request(a)
        PROVE  Control'
    <2>1. CASE CreateProvision(a)
      <3>1. NoRow \in Rows /\ NoRow.state # "DELETING"
        BY NoRowTyped
      <3>2. Begin(a, "create", "write", NoRow, FALSE) /\ Stay /\ UNCHANGED asked
        BY <2>1 DEF CreateProvision
      <3> QED
        BY <3>1, <3>2, ApiIsActor, BeginControl DEF Ops, Pcs
    <2>2. CASE ApiResume(a)
      BY <2>2, BeginControl, ApiIsActor
         DEF ApiResume, CanStart, ResumeStart, Guarded, Data, Ops, Pcs, EventTypes, Undated
    <2>3. ASSUME NEW force \in BOOLEAN,
                 ApiStop(a, force) \/ ApiReboot(a, force) \/ ApiTerminate(a, force)
          PROVE  Control'
      BY <2>3, BeginControl, ApiIsActor
         DEF ApiStop, ApiReboot, ApiTerminate, CanStart, StopStart, TerminateStart,
             Guarded, Data, Ops, Pcs, EventTypes, Undated
    <2> QED
      BY <1>1, <2>1, <2>2, <2>3 DEF Request
  <1>2. ASSUME NEW a \in Actors, Step(a) \/ Fail(a)
        PROVE  Control'
    <2>1. CASE CreateWrite(a) \/ RebootHost(a)
      BY <2>1, ReturnControl, HandlerIsActor
         DEF CreateWrite, RebootHost, At, Guarded, Data, Ops, Pcs, EventTypes, Undated
    <2>2. CASE StopRead(a)
      <3>1. CASE row.state = "READY"
        <4>1. \E pc \in Pcs : Begin(a, "stop", pc, row, FALSE)
          BY <2>2, <3>1 DEF StopRead, StopStart, Pcs
        <4>2. Stay /\ UNCHANGED asked /\ act[a].op # "idle"
          BY <2>2, <3>1 DEF StopRead, At
        <4> QED
          BY <3>1, <4>1, <4>2, BeginControl DEF Ops, Data, Control, Held
      <3>2. CASE row.state # "READY"
        BY <2>2, <3>2, RaiseControl DEF StopRead
      <3> QED
        BY <3>1, <3>2
    <2>3. CASE BrokerDelete(a) \/ ResumeHost(a) \/ RebootWrite(a) \/ TerminateWrite(a)
               \/ TerminateStoppedHost(a)
      BY <2>3, GotoControl, RaiseControl, HandlerIsActor
         DEF BrokerDelete, ResumeHost, RebootWrite, TerminateWrite, TerminateStoppedHost,
             At, Guarded, Data, Ops, Pcs, EventTypes, Undated
    <2>4. CASE StopWrite(a)
      BY <2>4, GotoControl, ReturnControl, RaiseControl, HandlerIsActor
         DEF StopWrite, At, Guarded, Data, Ops, Pcs, EventTypes, Undated
    <2>5. CASE PublishDeletion(a)
      BY <2>5, ReturnControl, EventPublished, HandlerIsActor
         DEF PublishDeletion, At, Guarded, Data, Ops, Pcs, EventTypes, Undated
    <2>6. CASE ResumeRead(a)
      <3>1. CASE row.state = "STOPPED"
        <4>1. Begin(a, "resume", "call", row, FALSE) /\ Stay /\ UNCHANGED asked /\ act[a].op # "idle"
          BY <2>6, <3>1 DEF ResumeRead, ResumeStart, At
        <4> QED
          BY <3>1, <4>1, BeginControl DEF Ops, Pcs, Data, Control, Held
      <3>2. CASE row.state # "STOPPED"
        BY <2>6, <3>2, RaiseControl DEF ResumeRead
      <3> QED
        BY <3>1, <3>2
    <2>7. CASE ResumeWrite(a) \/ TerminateDelete(a)
      BY <2>7, ReturnControl, RaiseControl, HandlerIsActor
         DEF ResumeWrite, TerminateDelete, At, Guarded, Data, Ops, Pcs, EventTypes, Undated
    <2>8. CASE TerminateRead(a)
      <3>1. act[a].op = "terminate" /\ act[a].force \in BOOLEAN /\ UNCHANGED asked
        BY <2>8 DEF TerminateRead, At, Control, ActorStates
      <3>2. asked
        BY <3>1 DEF Control, NoTermination
      <3>3. CASE row.state # "NONE"
        <4>1. \E pc \in Pcs : Begin(a, "terminate", pc, row, act[a].force)
          BY <2>8, <3>3 DEF TerminateRead, TerminateStart, Pcs
        <4>2. Stay
          BY <2>8, <3>3 DEF TerminateRead
        <4> QED
          BY <3>1, <3>2, <4>1, <4>2, BeginControl DEF Ops, Data, Control, Held
      <3>4. CASE row.state = "NONE"
        BY <2>8, <3>1, <3>4, RaiseControl DEF TerminateRead
      <3> QED
        BY <3>3, <3>4
    <2>9. CASE Fail(a)
      BY <2>9, RaiseControl, HandlerIsActor
         DEF Fail, Guarded, Data, Ops, Pcs, EventTypes, Undated
    <2> QED
      BY <1>2, <2>1, <2>2, <2>3, <2>4, <2>5, <2>6, <2>7, <2>8, <2>9 DEF Step
  <1>3. CASE Handle
    <2>1. CASE HandleHostReady \/ HandleRebootComplete \/ HandleEc2Stopping
               \/ HandleEc2Stopped \/ HandleValidateCreation \/ HandleValidateDeletion
               \/ HandleScheduledResume \/ HandleCpuSuccess
      BY <2>1, BeginControl, ReturnControl, HandlerIsActor
         DEF HandleHostReady, HandleRebootComplete, HandleEc2Stopping, HandleEc2Stopped,
             HandleValidateCreation, HandleValidateDeletion, HandleScheduledResume,
             HandleCpuSuccess, Run, Ignore, Outside, Receives, CanStart, Guarded, Data,
             Ops, Pcs, EventTypes, Undated
    <2>2. CASE ReadyCreate
      <3>1. act[Handler] \in ActorStates /\ act[Handler].op = "ready" /\ Stay /\ UNCHANGED asked
        BY <2>2, HandlerIsActor DEF ReadyCreate, At, Control
      <3>2. PICK r \in {"CREATING", "REJECTED"} :
               act' = [act EXCEPT ![Handler] = [act[Handler] EXCEPT !.pc = "write", !.res = r]]
        BY <2>2 DEF ReadyCreate
      <3> DEFINE s == [act[Handler] EXCEPT !.pc = "write", !.res = r]
      <3>3. s \in ActorStates /\ s.op = act[Handler].op /\ s.snap = act[Handler].snap
        BY <3>1 DEF ActorStates, Pcs, DcvStates
      <3> HIDE DEF s
      <3> QED
        BY <3>1, <3>2, <3>3, HandlerIsActor, MoveControl, SnapNotDeleting DEF s, Control,
           Held
    <2>3. CASE ReadyWrite
      <3>1. act[Handler].op # "idle" /\ UNCHANGED asked
        BY <2>3, ReadyWriteEffect DEF At, Outside
      <3>2. Raise(Handler) \/ Return(Handler, NoEvent) \/ (Goto(Handler, "publish") /\ Stay)
        BY <2>3, ReadyWriteEffect DEF Ignore
      <3> QED
        BY <3>1, <3>2, HandlerIsActor, RaiseControl, ReturnControl, GotoControl DEF Pcs
    <2>4. CASE ReadyPublish
      BY <2>4, ReturnControl, EventPublished, HandlerIsActor
         DEF ReadyPublish, Outside, At, Guarded, Data, Ops, Pcs, EventTypes, Undated
    <2>5. CASE HandleRebootCompleteByController \/ CpuRecord \/ HandleCpuOther
               \/ HandleResumeOther
      BY <2>5, ReturnControl, HandlerIsActor
         DEF HandleRebootCompleteByController, CpuRecord, HandleCpuOther,
             HandleResumeOther, Ignore, Outside, Receives, CanStart, At, Guarded, Data,
             Ops, Pcs, EventTypes, Undated
    <2>6. CASE RebootedDescribe
      <3>1. act[Handler].op # "idle" /\ UNCHANGED asked
        BY <2>6, RebootedDescribeEffect DEF At, Outside
      <3>2. Raise(Handler) \/ Return(Handler, NoEvent) \/ (Goto(Handler, "host") /\ Stay)
        BY <2>6, RebootedDescribeEffect DEF Ignore
      <3> QED
        BY <3>1, <3>2, HandlerIsActor, RaiseControl, ReturnControl, GotoControl DEF Pcs
    <2>7. CASE RebootedResume \/ ValidateDeletionDescribe \/ ContinueDelete
      BY <2>7, GotoControl, RaiseControl, HandlerIsActor
         DEF RebootedResume, ValidateDeletionDescribe, ContinueDelete, Outside, At,
             Guarded, Data, Ops, Pcs, EventTypes, Undated
    <2>8. CASE RebootedRecord \/ Ec2StopWrite \/ ContinueDeleteHost \/ ContinueStop
               \/ ResumeStatusWrite
      BY <2>8, ReturnControl, RaiseControl, HandlerIsActor
         DEF RebootedRecord, Ec2StopWrite, ContinueDeleteHost, ContinueStop,
             ResumeStatusWrite, Ignore, Outside, At, Guarded, Data, Ops, Pcs, EventTypes,
             Undated
    <2>9. CASE HandleEc2Running
      <3> DEFINE e == IF Hibernation /\ row.state = "RESUMING"
                     THEN Event("REBOOT_COMPLETE_BY_CONTROLLER") ELSE NoEvent
      <3>1. e = NoEvent \/ e \in OtherEvents
        BY EventPublished DEF EventTypes, Undated
      <3>2. queue # <<>> /\ UNCHANGED asked
        BY <2>9 DEF HandleEc2Running, Receives, Outside
      <3>3. \/ Return(Handler, e)
            \/ act' = [act EXCEPT ![Handler] = Idle] /\ Send(queue, e)
        BY <2>9 DEF HandleEc2Running
      <3> HIDE DEF e
      <3>4. CASE Return(Handler, e)
        BY <3>1, <3>2, <3>4, HandlerIsActor, ReturnControl
      <3>5. CASE act' = [act EXCEPT ![Handler] = Idle] /\ Send(queue, e)
        <4>1. e = NoEvent \/ e \in Events
          BY <3>1, OtherEventsAreEvents
        <4>2. queue' \in Seq(Events) /\ recent' \in SUBSET Undated
          BY <3>5, <4>1, SendKeeps, SendRemembers DEF Control
        <4>3. act' \in [Actors -> ActorStates] /\ act'[Handler].op = "idle"
          BY <3>5, HandlerIsActor, IdleTyped DEF Control, Idle
        <4>4. (asked \/ NoTermination)'
          <5>1. SUFFICES ASSUME NoTermination
                         PROVE  NoTermination'
            BY <3>2 DEF Control
          <5>2. queue' \in Seq(OtherEvents)
            BY <3>1, <3>5, <5>1, SendKeeps DEF NoTermination
          <5>3. \A b \in Actors : act'[b].op # "terminate" /\ act'[b].snap.state # "DELETING"
            BY <3>5, <5>1 DEF NoTermination, Control, Idle, NoRow
          <5> QED
            BY <5>2, <5>3 DEF NoTermination
        <4> QED
          BY <4>2, <4>3, <4>4 DEF Control, Held
      <3> QED
        BY <3>3, <3>4, <3>5
    <2>10. CASE ValidateCreationDescribe
      <3>1. /\ act[Handler] \in ActorStates /\ act[Handler].op = "validate_creation"
            /\ Stay /\ UNCHANGED asked
        BY <2>10, HandlerIsActor DEF ValidateCreationDescribe, At, Control, Outside
      <3>2. Described(Handler) \in DcvStates
        BY DEF Described, Data, DcvStates
      <3> DEFINE s == [act[Handler] EXCEPT !.pc = "write", !.res = Described(Handler)]
      <3>3. act' = [act EXCEPT ![Handler] = s]
        BY <2>10 DEF ValidateCreationDescribe
      <3>4. s \in ActorStates /\ s.op = act[Handler].op /\ s.snap = act[Handler].snap
        BY <3>1, <3>2 DEF ActorStates, Pcs
      <3> HIDE DEF s
      <3> QED
        BY <3>1, <3>3, <3>4, HandlerIsActor, MoveControl, SnapNotDeleting DEF Control, Held
    <2>11. CASE ValidateCreationWrite
      <3>1. act[Handler].op # "idle" /\ UNCHANGED asked
        BY <2>11, ValidateCreationWriteEffect DEF At, Outside
      <3>2. Raise(Handler) \/ Return(Handler, NoEvent)
        BY <2>11, ValidateCreationWriteEffect DEF Ignore
      <3> QED
        BY <3>1, <3>2, HandlerIsActor, RaiseControl, ReturnControl
    <2>12. CASE HandleScheduledStop
      BY <2>12, BeginControl, ReturnControl, RaiseControl, HandlerIsActor
         DEF HandleScheduledStop, Run, Ignore, Receives, CanStart, Guarded, Data, Ops, Pcs,
             EventTypes, Undated
    <2>13. CASE HandleTerminate
      <3>1. queue \in Seq(Events) /\ queue # <<>> /\ Head(queue).type = "TERMINATE"
        BY <2>13 DEF HandleTerminate, Receives, Control
      <3>2. asked
        <4>1. SUFFICES ASSUME queue \in Seq(OtherEvents)
                       PROVE  FALSE
          BY DEF Control, NoTermination
        <4>2. Head(queue) \in OtherEvents
          BY <3>1, <4>1, HeadTailProperties
        <4> QED
          BY <3>1, <4>2 DEF OtherEvents
      <3>3. /\ Begin(Handler, "terminate", "read", NoRow, TRUE) /\ Stay /\ UNCHANGED asked
        BY <2>13 DEF HandleTerminate, Outside
      <3> QED
        BY <3>1, <3>2, <3>3, HandlerIsActor, NoRowTyped, BeginControl DEF Ops, Pcs
    <2>14. CASE HandleResumeSuccess \/ HandleResumeFailed
      BY <2>14, BeginControl, RaiseControl, HandlerIsActor
         DEF HandleResumeSuccess, HandleResumeFailed, Run, Outside, Receives, CanStart,
             Guarded, Data, Ops, Pcs, EventTypes, Undated
    <2>15. CASE ResumeSuccessPublish
      <3> DEFINE e == Event("VALIDATE_CREATION")
      <3>1. e \in OtherEvents /\ e \in Events
        BY EventPublished, OtherEventsAreEvents DEF EventTypes
      <3>2. /\ act[Handler].op # "idle" /\ Goto(Handler, "write") /\ Send(queue, e)
            /\ UNCHANGED asked
        BY <2>15 DEF ResumeSuccessPublish, At
      <3> HIDE DEF e
      <3>3. queue' \in Seq(Events) /\ recent' \in SUBSET Undated /\ queue' # <<>>
        BY <3>1, <3>2, SendKeeps, SendRemembers DEF Control, Held
      <3>4. act' \in [Actors -> ActorStates]
        BY <3>2, HandlerIsActor DEF Control, Goto, ActorStates, Pcs
      <3>5. (asked \/ NoTermination)'
        <4>1. SUFFICES ASSUME NoTermination
                       PROVE  NoTermination'
          BY <3>2 DEF Control
        <4>2. queue' \in Seq(OtherEvents)
          BY <3>1, <3>2, <4>1, SendKeeps DEF NoTermination
        <4>3. \A b \in Actors : act'[b].op # "terminate" /\ act'[b].snap.state # "DELETING"
          BY <3>2, <4>1 DEF NoTermination, Control, Goto, ActorStates
        <4> QED
          BY <4>2, <4>3 DEF NoTermination
      <3> QED
        BY <3>3, <3>4, <3>5 DEF Control, Held
    <2> QED
      BY <1>3, <2>1, <2>2, <2>3, <2>4, <2>5, <2>6, <2>7, <2>8, <2>9, <2>10, <2>11, <2>12,
         <2>13, <2>14, <2>15
         DEF Handle
  <1>4. CASE Environment
    <2>1. CASE Routes
      <3>1. PICK i \in 1 .. Len(notif) : Route(i)
        BY <2>1 DEF Routes
      <3> DEFINE e == IF Known(notif[i]) THEN [type |-> EventType(notif[i]), id |-> notif[i].id]
                      ELSE NoEvent
      <3>2. notif[i] \in Notifications
        BY DEF Data
      <3>3. notif[i].id \in Nat
        BY <3>2 DEF Notifications
      <3>4. EventType(notif[i]) \in EventTypes \ {"TERMINATE"}
        BY DEF EventType, EventTypes
      <3>5. e = NoEvent \/ e \in OtherEvents
        BY <3>3, <3>4 DEF OtherEvents
      <3>6. UNCHANGED act /\ UNCHANGED asked /\ Send(queue, e)
        BY <3>1 DEF Route
      <3> HIDE DEF e
      <3> QED
        BY <3>5, <3>6, OtherEventsAreEvents, SendControl
    <2>2. CASE Ec2Settles
      BY <2>2, StayControl DEF Ec2Settles
    <2>3. CASE HostUp
      <3>1. PICK e : Send(queue, e) /\ (e = NoEvent \/ e \in OtherEvents)
        <4>1. Event("HOST_READY") \in OtherEvents /\ Event("REBOOT_COMPLETE") \in OtherEvents
          BY EventPublished DEF EventTypes
        <4>2. host \in {"first", "booting", "waking"}
          BY <2>3 DEF HostUp
        <4>3. CASE host = "first"
          BY <2>3, <4>1, <4>3 DEF HostUp
        <4>4. CASE host = "booting"
          BY <2>3, <4>1, <4>4 DEF HostUp
        <4>5. CASE host = "waking"
          BY <2>3, <4>5 DEF HostUp
        <4> QED
          BY <4>2, <4>3, <4>4, <4>5
      <3>2. UNCHANGED act /\ UNCHANGED asked
        BY <2>3 DEF HostUp
      <3> QED
        BY <3>1, <3>2, OtherEventsAreEvents, SendControl
    <2>4. CASE BrokerWorks
      BY <2>4, StayControl DEF BrokerWorks
    <2>5. CASE BrokerNotices
      BY <2>5, StayControl DEF BrokerNotices
    <2>6. CASE Commands
      BY <2>6, StayControl DEF Commands, CommandEnds
    <2> QED
      BY <1>4, <2>1, <2>2, <2>3, <2>4, <2>5, <2>6 DEF Environment
  <1>5. CASE Outage \/ TriggerSchedule \/ UserDisabled \/ DedupExpires
    <2>1. CASE Outage
      BY <2>1, StayControl DEF Outage
    <2>2. CASE TriggerSchedule
      <3>1. PICK t \in {"SCHEDULED_RESUME", "SCHEDULED_STOP"} : Send(queue, Event(t))
        BY <2>2 DEF TriggerSchedule
      <3>2. Event(t) \in OtherEvents
        BY EventPublished DEF EventTypes, Undated
      <3>3. UNCHANGED act /\ UNCHANGED asked
        BY <2>2 DEF TriggerSchedule
      <3> QED
        BY <3>1, <3>2, <3>3, OtherEventsAreEvents, SendControl
    <2>3. CASE UserDisabled
      <3>1. Event("TERMINATE") \in Events
        BY DEF Event, Events, EventTypes
      <3>2. Send(queue, Event("TERMINATE")) /\ UNCHANGED act /\ asked'
        BY <2>3 DEF UserDisabled
      <3> QED
        BY <3>1, <3>2, SendControl
    <2>4. CASE DedupExpires
      BY <2>4, StayControl DEF DedupExpires
    <2> QED
      BY <1>5, <2>1, <2>2, <2>3, <2>4
  <1> QED
    BY <1>1, <1>2, <1>3, <1>4, <1>5 DEF Next

\* The rows, the host, the broker and the commands stay well typed.
LEMMA DataStep ==
  ASSUME Control, Data, Next
  PROVE  Data'
  <1>1. ASSUME NEW a \in ApiWorkers, Request(a)
        PROVE  Data'
    <2>1. CASE CreateProvision(a)
      BY <2>1, NoRowTyped, ApiIsActor DEF CreateProvision, Data, SessionStates, DcvStates
    <2>2. CASE ApiResume(a)
      BY <2>2, CallTyped, ApiIsActor
         DEF ApiResume, ResumeStart, db, world, Data, SessionStates, DcvStates
    <2>3. ASSUME NEW force \in BOOLEAN,
                 ApiStop(a, force) \/ ApiReboot(a, force) \/ ApiTerminate(a, force)
          PROVE  Data'
      BY <2>3, CallTyped, ApiIsActor
         DEF ApiStop, ApiReboot, ApiTerminate, StopStart, TerminateStart, db, world, Data,
             SessionStates, DcvStates
    <2> QED
      BY <1>1, <2>1, <2>2, <2>3 DEF Request
  <1>2. ASSUME NEW a \in Actors, Step(a) \/ Fail(a)
        PROVE  Data'
    <2>1. CASE CreateWrite(a)
      <3>1. [state |-> "PROVISIONING", dcv |-> FALSE] \in Rows
        BY DEF Rows, SessionStates
      <3> QED
        BY <2>1, <3>1 DEF CreateWrite, world, Data
    <2>2. CASE StopRead(a) \/ BrokerDelete(a) \/ PublishDeletion(a) \/ ResumeRead(a)
               \/ ResumeHost(a) \/ RebootHost(a) \/ TerminateRead(a)
               \/ TerminateStoppedHost(a)
      BY <2>2, NoRowTyped, HandlerIsActor
         DEF StopRead, BrokerDelete, PublishDeletion, ResumeRead, ResumeHost, RebootHost,
             TerminateRead, TerminateStoppedHost, StopStart, ResumeStart, TerminateStart,
             db, world, TerminateHost, StartHost, DeleteDcvSession, Data, SessionStates,
             DcvStates
    <2>3. CASE StopWrite(a)
      BY <2>3, MovedTyped, StopHostTyped, NotifyTyped, NoRowTyped, HandlerIsActor
         DEF StopWrite, Update, world, Data, SessionStates, DcvStates
    <2>4. CASE ResumeWrite(a) \/ RebootWrite(a) \/ TerminateWrite(a)
      BY <2>4, MovedTyped, NoRowTyped, HandlerIsActor
         DEF ResumeWrite, RebootWrite, TerminateWrite, Update, world, Data, SessionStates,
             DcvStates
    <2>5. CASE TerminateDelete(a)
      BY <2>5, NoRowTyped, HandlerIsActor
         DEF TerminateDelete, world, Data, SessionStates, DcvStates
    <2>6. CASE Fail(a)
      BY <2>6, FaultTyped, NoRowTyped, HandlerIsActor
         DEF Fail, db, world, Data, SessionStates, DcvStates
    <2> QED
      BY <1>2, <2>1, <2>2, <2>3, <2>4, <2>5, <2>6 DEF Step
  <1>3. CASE Handle
    <2>1. CASE HandleHostReady \/ HandleRebootComplete \/ HandleRebootCompleteByController
               \/ HandleEc2Stopping \/ HandleEc2Stopped \/ HandleEc2Running
               \/ HandleValidateDeletion \/ ValidateDeletionDescribe
      BY <2>1, NoRowTyped, HandlerIsActor
         DEF HandleHostReady, HandleRebootComplete, HandleRebootCompleteByController,
             HandleEc2Stopping, HandleEc2Stopped, HandleEc2Running, HandleValidateDeletion,
             ValidateDeletionDescribe, Run, Ignore, Outside, db, world, Data,
             SessionStates, DcvStates
    <2>2. CASE ReadyCreate \/ ValidateCreationDescribe
      BY <2>2, HandlerIsActor
         DEF ReadyCreate, ValidateCreationDescribe, Outside, db, world, Data,
             SessionStates, DcvStates
    <2>3. CASE ReadyWrite
      BY <2>3, ReadyWriteEffect DEF Outside, world, Data
    <2>4. CASE ReadyPublish
      <3>1. [counters EXCEPT !.creation = 0] \in Counts
        BY DEF Data, Counts
      <3> QED
        BY <2>4, <3>1 DEF ReadyPublish, Outside, world, Data
    <2>5. CASE RebootedDescribe
      BY <2>5, RebootedDescribeEffect DEF Outside, world, Data
    <2>6. CASE RebootedResume \/ HandleScheduledStop
      BY <2>6, SendCommandTyped, NoRowTyped, HandlerIsActor
         DEF RebootedResume, HandleScheduledStop, Run, Ignore, db, world, Data,
             SessionStates, DcvStates
    <2>7. CASE RebootedRecord \/ CpuRecord
      BY <2>7, RecordCommandTyped, NoRowTyped, HandlerIsActor
         DEF RebootedRecord, CpuRecord, Ignore, db, world, Data, SessionStates, DcvStates
    <2>8. CASE Ec2StopWrite \/ ResumeStatusWrite
      BY <2>8, MovedTyped, NoRowTyped, HandlerIsActor
         DEF Ec2StopWrite, ResumeStatusWrite, Ignore, Outside, Update, world, Data,
             SessionStates, DcvStates
    <2>9. CASE HandleValidateCreation
      <3>1. [counters EXCEPT !.validation = 0] \in Counts
        BY DEF Data, Counts
      <3> QED
        BY <2>9, <3>1 DEF HandleValidateCreation, Outside, world, Data
    <2>10. CASE ValidateCreationWrite
      BY <2>10, ValidateCreationWriteEffect DEF Outside, world, Data
    <2>11. CASE ContinueDelete \/ ContinueDeleteHost \/ HandleScheduledResume
               \/ HandleCpuSuccess \/ HandleCpuOther \/ HandleTerminate
               \/ HandleResumeSuccess \/ HandleResumeFailed
      BY <2>11, NoRowTyped, HandlerIsActor
         DEF ContinueDelete, ContinueDeleteHost, HandleScheduledResume, HandleCpuSuccess,
             HandleCpuOther, HandleTerminate, HandleResumeSuccess, HandleResumeFailed, Run,
             Ignore, Outside, db, world, TerminateHost, Data, SessionStates, DcvStates
    <2>12. CASE ContinueStop
      BY <2>12, StopHostTyped, NotifyTyped, NoRowTyped, HandlerIsActor
         DEF ContinueStop, Ignore, world, Data, SessionStates, DcvStates
    <2>13. CASE ResumeSuccessPublish
      <3>1. [ssm EXCEPT !.rows = ssm.rows \ {Head(queue).id}] \in Commanded
        BY DEF Data, Commanded
      <3> QED
        BY <2>13, <3>1 DEF ResumeSuccessPublish, db, world, Data
    <2>14. CASE HandleResumeOther
      BY <2>14, NoRowTyped, HandlerIsActor
         DEF HandleResumeOther, Ignore, Outside, db, world, Data, SessionStates, DcvStates
    <2> QED
      BY <1>3, <2>1, <2>2, <2>3, <2>4, <2>5, <2>6, <2>7, <2>8, <2>9, <2>10, <2>11, <2>12,
         <2>13, <2>14
         DEF Handle
  <1>4. CASE Environment
    <2>1. CASE Routes
      <3>1. PICK i \in 1 .. Len(notif) : Route(i)
        BY <2>1 DEF Routes
      <3>2. notif' \in Seq(Notifications)
        BY <3>1, SubSeqProperties, ConcatProperties DEF Route, Data
      <3> QED
        BY <3>1, <3>2 DEF Route, db, world, Data
    <2>2. CASE Ec2Settles
      BY <2>2, NotifyTyped DEF Ec2Settles, db, Data, SessionStates, DcvStates
    <2>3. CASE HostUp \/ BrokerNotices
      BY <2>3 DEF HostUp, BrokerNotices, db, Data, SessionStates, DcvStates
    <2>4. CASE BrokerWorks
      BY <2>4, FaultTyped DEF BrokerWorks, db, Data, SessionStates, DcvStates
    <2>5. CASE Commands
      <3>1. PICK c \in ssm.running : CommandEnds(c)
        BY <2>5 DEF Commands
      <3>2. c.about \in {"resume", "cpu"} /\ c.id \in Nat
        BY DEF Data, Commanded
      <3>3. [ssm EXCEPT !.running = ssm.running \ {c}] \in Commanded
        BY DEF Data, Commanded
      <3>4. PICK status \in {"Success", "Failed", "Other"} :
               /\ Fault \/ UNCHANGED budget
               /\ notif' = Append(notif, [about |-> c.about, status |-> status, id |-> c.id])
               /\ alive' = (alive \/ (c.about = "resume" /\ status = "Success"))
        BY <3>1 DEF CommandEnds
      <3>5. [about |-> c.about, status |-> status, id |-> c.id] \in Notifications
        BY <3>2 DEF Notifications
      <3>6. notif' \in Seq(Notifications)
        BY <3>4, <3>5, AppendProperties DEF Data
      <3>7. budget' \in Budgets
        BY <3>4, FaultTyped DEF Data
      <3>8. alive' \in BOOLEAN
        BY <3>4
      <3> QED
        BY <3>1, <3>3, <3>6, <3>7, <3>8 DEF CommandEnds, db, Data
    <2> QED
      BY <1>4, <2>1, <2>2, <2>3, <2>4, <2>5 DEF Environment
  <1>5. CASE Outage \/ TriggerSchedule \/ UserDisabled \/ DedupExpires
    <2>1. CASE Outage
      <3>1. budget' \in Budgets
        BY <2>1 DEF Outage, Data, Budgets
      <3>2. CASE Notify("stopping")
        <4>1. notif' \in Seq(Notifications)
          BY <3>2, NotifyTyped
        <4> QED
          BY <2>1, <3>1, <4>1 DEF Outage, db, Data
      <3>3. CASE UNCHANGED notif
        BY <2>1, <3>1, <3>3 DEF Outage, db, Data
      <3> QED
        BY <2>1, <3>2, <3>3 DEF Outage
    <2>2. CASE TriggerSchedule \/ UserDisabled
      BY <2>2, CallTyped
         DEF TriggerSchedule, UserDisabled, db, world, Data, SessionStates, DcvStates
    <2>3. CASE DedupExpires
      BY <2>3 DEF DedupExpires, db, world, Data, SessionStates, DcvStates
    <2> QED
      BY <1>5, <2>1, <2>2, <2>3 DEF Outage
  <1> QED
    BY <1>1, <1>2, <1>3, <1>4, <1>5 DEF Next

\* A DELETING row and the release of the instance follow a termination.
LEMMA GuardedStep ==
  ASSUME Control, Data, Guarded, Next
  PROVE  Guarded'
  <1>1. ASSUME NEW a \in ApiWorkers, Request(a)
        PROVE  Guarded'
    <2>1. CASE CreateProvision(a)
      BY <2>1, NoRowTyped, SnapNotDeleting, ApiIsActor
         DEF CreateProvision, Guarded, SessionStates
    <2>2. CASE ApiResume(a)
      BY <2>2, SnapNotDeleting, ApiIsActor DEF ApiResume, db, world, Guarded, SessionStates
    <2>3. ASSUME NEW force \in BOOLEAN,
                 ApiStop(a, force) \/ ApiReboot(a, force) \/ ApiTerminate(a, force)
          PROVE  Guarded'
      BY <2>3, SnapNotDeleting, ApiIsActor
         DEF ApiStop, ApiReboot, ApiTerminate, db, world, Guarded, SessionStates
    <2> QED
      BY <1>1, <2>1, <2>2, <2>3 DEF Request
  <1>2. ASSUME NEW a \in Actors, Step(a) \/ Fail(a)
        PROVE  Guarded'
    <2>1. CASE CreateWrite(a)
      BY <2>1 DEF CreateWrite, world, Guarded
    <2>2. CASE StopRead(a) \/ BrokerDelete(a) \/ PublishDeletion(a) \/ ResumeRead(a)
               \/ ResumeHost(a) \/ RebootHost(a) \/ TerminateRead(a) \/ TerminateDelete(a)
      BY <2>2, NoRowTyped, SnapNotDeleting, HandlerIsActor
         DEF StopRead, BrokerDelete, PublishDeletion, ResumeRead, ResumeHost, RebootHost,
             TerminateRead, TerminateDelete, At, db, world, StartHost, DeleteDcvSession,
             Guarded, SessionStates
    <2>3. CASE StopWrite(a)
      BY <2>3, MovedTyped, NoRowTyped, SnapNotDeleting, HandlerIsActor
         DEF StopWrite, At, Update, world, StopHost, Guarded, SessionStates
    <2>4. CASE ResumeWrite(a) \/ RebootWrite(a) \/ TerminateWrite(a)
      BY <2>4, MovedTyped, NoRowTyped, SnapNotDeleting, HandlerIsActor
         DEF ResumeWrite, RebootWrite, TerminateWrite, At, Update, world, Guarded,
             SessionStates
    <2>5. CASE TerminateStoppedHost(a)
      BY <2>5, NoRowTyped, SnapNotDeleting, HandlerIsActor
         DEF TerminateStoppedHost, At, TerminateHost, Guarded, SessionStates
    <2>6. CASE Fail(a)
      BY <2>6, NoRowTyped, SnapNotDeleting, HandlerIsActor
         DEF Fail, db, world, Guarded, SessionStates
    <2> QED
      BY <1>2, <2>1, <2>2, <2>3, <2>4, <2>5, <2>6 DEF Step
  <1>3. CASE Handle
    <2>1. CASE HandleHostReady \/ ReadyPublish \/ HandleRebootComplete
               \/ HandleRebootCompleteByController \/ RebootedDescribe \/ RebootedResume
               \/ RebootedRecord \/ HandleEc2Stopping
      BY <2>1, NoRowTyped, SnapNotDeleting, HandlerIsActor
         DEF HandleHostReady, ReadyPublish, HandleRebootComplete,
             HandleRebootCompleteByController, RebootedDescribe, RebootedResume,
             RebootedRecord, HandleEc2Stopping, Run, Ignore, Outside, At, db, world,
             Guarded, SessionStates
    <2>2. CASE ReadyCreate \/ ValidateCreationDescribe \/ ResumeSuccessPublish
      BY <2>2, SnapNotDeleting, HandlerIsActor
         DEF ReadyCreate, ValidateCreationDescribe, ResumeSuccessPublish, Outside, At, db,
             world, Guarded, SessionStates
    <2>3. CASE ReadyWrite
      BY <2>3, ReadyWriteEffect DEF Outside, world, Guarded
    <2>4. CASE HandleEc2Stopped \/ HandleEc2Running \/ HandleValidateCreation
               \/ HandleValidateDeletion \/ ValidateDeletionDescribe \/ ContinueDelete
               \/ HandleScheduledResume \/ HandleScheduledStop
      BY <2>4, NoRowTyped, SnapNotDeleting, HandlerIsActor
         DEF HandleEc2Stopped, HandleEc2Running, HandleValidateCreation,
             HandleValidateDeletion, ValidateDeletionDescribe, ContinueDelete,
             HandleScheduledResume, HandleScheduledStop, Run, Ignore, Outside, At, db,
             world, Guarded, SessionStates
    <2>5. CASE Ec2StopWrite \/ ResumeStatusWrite
      BY <2>5, MovedTyped, NoRowTyped, SnapNotDeleting, HandlerIsActor
         DEF Ec2StopWrite, ResumeStatusWrite, Ignore, Outside, At, Update, world, Guarded,
             SessionStates
    <2>6. CASE ValidateCreationWrite
      BY <2>6, ValidateCreationWriteEffect DEF Outside, world, Guarded
    <2>7. CASE ContinueDeleteHost
      BY <2>7, NoRowTyped, SnapNotDeleting, HandlerIsActor
         DEF ContinueDeleteHost, Ignore, At, TerminateHost, Guarded, SessionStates
    <2>8. CASE ContinueStop
      BY <2>8, NoRowTyped, SnapNotDeleting, HandlerIsActor
         DEF ContinueStop, Ignore, At, world, StopHost, Guarded, SessionStates
    <2>9. CASE CpuRecord \/ HandleCpuSuccess \/ HandleCpuOther \/ HandleTerminate
               \/ HandleResumeSuccess \/ HandleResumeFailed \/ HandleResumeOther
      BY <2>9, NoRowTyped, SnapNotDeleting, HandlerIsActor
         DEF CpuRecord, HandleCpuSuccess, HandleCpuOther, HandleTerminate,
             HandleResumeSuccess, HandleResumeFailed, HandleResumeOther, Run, Ignore,
             Outside, At, db, world, Guarded, SessionStates
    <2> QED
      BY <1>3, <2>1, <2>2, <2>3, <2>4, <2>5, <2>6, <2>7, <2>8, <2>9 DEF Handle
  <1>4. CASE Environment
    <2>1. CASE Routes
      BY <2>1 DEF Routes, Route, db, world, Guarded
    <2>2. CASE Ec2Settles \/ HostUp \/ BrokerWorks \/ BrokerNotices
      BY <2>2 DEF Ec2Settles, HostUp, BrokerWorks, BrokerNotices, db, Guarded, SessionStates
    <2>3. CASE Commands
      BY <2>3 DEF Commands, CommandEnds, db, Guarded
    <2> QED
      BY <1>4, <2>1, <2>2, <2>3 DEF Environment
  <1>5. CASE Outage \/ TriggerSchedule \/ UserDisabled \/ DedupExpires
    <2>1. CASE Outage \/ TriggerSchedule \/ UserDisabled \/ DedupExpires
      BY <2>1
         DEF Outage, TriggerSchedule, UserDisabled, DedupExpires, db, world, Guarded,
             SessionStates
    <2> QED
      BY <1>5, <2>1 DEF Outage
  <1> QED
    BY <1>1, <1>2, <1>3, <1>4, <1>5 DEF Next

\* An operation gets beyond its first read only when create_session has written
\* the row, and a second create_session never starts.
LEMMA FreshStep ==
  ASSUME Control, Data, FreshInv, Next
  PROVE  FreshInv'
  <1>0. act \in [Actors -> ActorStates]
    BY DEF Control
  <1>1. ASSUME NEW a \in ApiWorkers, Request(a)
        PROVE  FreshInv'
    <2>1. CASE CreateProvision(a) \/ ApiResume(a)
      BY <2>1, <1>0, HandlerIsActor, ApiIsActor
         DEF CreateProvision, ApiResume, Stay, Begin, CanStart, ResumeStart, db, world,
             NoRow, ActorStates, FreshInv, Fresh
    <2>2. ASSUME NEW force \in BOOLEAN,
                 ApiStop(a, force) \/ ApiReboot(a, force) \/ ApiTerminate(a, force)
          PROVE  FreshInv'
      BY <2>2, <1>0, HandlerIsActor, ApiIsActor
         DEF ApiStop, ApiReboot, ApiTerminate, Stay, Begin, CanStart, StopStart,
             TerminateStart, db, world, ActorStates, FreshInv, Fresh
    <2> QED
      BY <1>1, <2>1, <2>2 DEF Request
  <1>2. ASSUME NEW a \in Actors, Step(a) \/ Fail(a)
        PROVE  FreshInv'
    <2>1. CASE CreateWrite(a) \/ StopRead(a) \/ BrokerDelete(a) \/ PublishDeletion(a)
               \/ ResumeRead(a) \/ ResumeHost(a) \/ RebootHost(a) \/ TerminateRead(a)
      BY <2>1, <1>0, HandlerIsActor
         DEF CreateWrite, StopRead, BrokerDelete, PublishDeletion, ResumeRead, ResumeHost,
             RebootHost, TerminateRead, Stay, Goto, Begin, Return, Raise, At, StopStart,
             ResumeStart, TerminateStart, db, world, StartHost, DeleteDcvSession, NoRow,
             Idle, ActorStates, FreshInv, Fresh
    <2>2. CASE StopWrite(a) \/ ResumeWrite(a) \/ RebootWrite(a) \/ TerminateWrite(a)
      BY <2>2, <1>0, MovedTyped, HandlerIsActor
         DEF StopWrite, ResumeWrite, RebootWrite, TerminateWrite, Stay, Goto, Return,
             Raise, At, Update, world, StopHost, StopRefused, NoRow, Idle, ActorStates,
             FreshInv, Fresh
    <2>3. CASE TerminateStoppedHost(a) \/ TerminateDelete(a) \/ Fail(a)
      BY <2>3, <1>0, HandlerIsActor
         DEF TerminateStoppedHost, TerminateDelete, Fail, Stay, Goto, Return, Raise, At,
             db, world, TerminateHost, NoRow, Idle, ActorStates, FreshInv, Fresh
    <2> QED
      BY <1>2, <2>1, <2>2, <2>3 DEF Step
  <1>3. CASE Handle
    <2>1. CASE HandleHostReady \/ ReadyCreate \/ ReadyPublish \/ HandleRebootComplete
               \/ HandleRebootCompleteByController \/ RebootedResume \/ RebootedRecord
               \/ HandleEc2Running
      BY <2>1, <1>0, HandlerIsActor
         DEF HandleHostReady, ReadyCreate, ReadyPublish, HandleRebootComplete,
             HandleRebootCompleteByController, RebootedResume, RebootedRecord,
             HandleEc2Running, Stay, Goto, Begin, Return, Raise, Run, Ignore, Outside,
             Receives, CanStart, At, db, world, NoRow, Idle, ActorStates, FreshInv, Fresh
    <2>2. CASE ReadyWrite
      BY <2>2, ReadyWriteEffect, HandlerIsActor, <1>0 DEF At, FreshInv, Fresh,
         Goto, Return, Raise, Ignore, Outside, world, Idle, ActorStates
    <2>3. CASE RebootedDescribe
      BY <2>3, RebootedDescribeEffect, HandlerIsActor, <1>0
         DEF At, Goto, Return, Raise, Ignore, Outside, world, Idle, ActorStates, FreshInv,
             Fresh
    <2>4. CASE HandleEc2Stopping
      BY <2>4, <1>0, HandlerIsActor, ApiIsActor
         DEF HandleEc2Stopping, StopIgnored, Begin, Return, Run, Ignore, Outside, Receives,
             CanStart, Stay, db,
             world, Idle, ActorStates, FreshInv, Fresh
    <2>5. CASE HandleEc2Stopped
      BY <2>5, <1>0, HandlerIsActor, ApiIsActor
         DEF HandleEc2Stopped, StopIgnored, Begin, Return, Run, Ignore, Outside, Receives,
             CanStart, Stay, db,
             world, Idle, ActorStates, FreshInv, Fresh
    <2>6. CASE Ec2StopWrite \/ ResumeStatusWrite
      BY <2>6, <1>0, MovedTyped, HandlerIsActor
         DEF Ec2StopWrite, ResumeStatusWrite, Return, Raise, Ignore, Outside, At, Update,
             world, NoRow, Idle, ActorStates, FreshInv, Fresh
    <2>7. CASE HandleValidateCreation \/ ValidateCreationDescribe \/ HandleValidateDeletion
               \/ ValidateDeletionDescribe \/ ContinueDelete \/ ContinueDeleteHost
               \/ ContinueStop \/ HandleScheduledResume
      BY <2>7, <1>0, HandlerIsActor
         DEF HandleValidateCreation, ValidateCreationDescribe, HandleValidateDeletion,
             ValidateDeletionDescribe, ContinueDelete, ContinueDeleteHost, ContinueStop,
             HandleScheduledResume, Stay, Goto, Begin, Return, Raise, Run, Ignore, Outside,
             Receives, CanStart, At, db, world, TerminateHost, StopHost, StopRefused,
             NoRow, Idle, ActorStates, FreshInv, Fresh
    <2>8. CASE ValidateCreationWrite
      BY <2>8, ValidateCreationWriteEffect, HandlerIsActor, <1>0 DEF At, FreshInv, Fresh,
         Return, Raise, Ignore, Outside, world, Idle
    <2>9. CASE HandleScheduledStop \/ CpuRecord \/ HandleCpuSuccess \/ HandleCpuOther
               \/ HandleTerminate \/ HandleResumeSuccess \/ ResumeSuccessPublish
               \/ HandleResumeFailed
      BY <2>9, <1>0, HandlerIsActor
         DEF HandleScheduledStop, CpuRecord, HandleCpuSuccess, HandleCpuOther,
             HandleTerminate, HandleResumeSuccess, ResumeSuccessPublish,
             HandleResumeFailed, Stay, Goto, Begin, Return, Raise, Run, Ignore, Outside,
             Receives, CanStart, At, db, world, NoRow, Idle, ActorStates, FreshInv, Fresh
    <2>10. CASE HandleResumeOther
      BY <2>10, <1>0, HandlerIsActor
         DEF HandleResumeOther, Return, Ignore, Outside, Receives, CanStart, db, world,
             NoRow, Idle, ActorStates, FreshInv, Fresh
    <2> QED
      BY <1>3, <2>1, <2>2, <2>3, <2>4, <2>5, <2>6, <2>7, <2>8, <2>9, <2>10 DEF Handle
  <1>4. CASE Environment
    <2>1. CASE Routes
      BY <2>1 DEF Routes, Route, db, world, FreshInv, Fresh
    <2>2. CASE Ec2Settles \/ HostUp \/ BrokerWorks \/ BrokerNotices
      BY <2>2
         DEF Ec2Settles, HostUp, BrokerWorks, BrokerNotices, db, ActorStates, FreshInv,
             Fresh
    <2>3. CASE Commands
      BY <2>3 DEF Commands, CommandEnds, db, FreshInv, Fresh
    <2> QED
      BY <1>4, <2>1, <2>2, <2>3 DEF Environment
  <1>5. CASE Outage \/ TriggerSchedule \/ UserDisabled \/ DedupExpires
    <2>1. CASE Outage \/ TriggerSchedule \/ UserDisabled \/ DedupExpires
      BY <2>1
         DEF Outage, TriggerSchedule, UserDisabled, DedupExpires, db, world, ActorStates,
             FreshInv, Fresh
    <2> QED
      BY <1>5, <2>1 DEF Outage
  <1> QED
    BY <1>1, <1>2, <1>3, <1>4, <1>5 DEF Next

\* terminate_sessions reaches the deletion of the row only through the release of
\* the host, and a terminated instance stays terminated.
LEMMA ReleasedStep ==
  ASSUME Control, Data, ReleasedInv, Next
  PROVE  ReleasedInv'
  <1>0. act \in [Actors -> ActorStates]
    BY DEF Control
  <1>1. ASSUME NEW a \in ApiWorkers, Request(a)
        PROVE  ReleasedInv'
    <2>1. CASE CreateProvision(a) \/ ApiResume(a)
      BY <2>1, <1>0, HandlerIsActor, ApiIsActor
         DEF CreateProvision, ApiResume, Stay, Begin, CanStart, ResumeStart, db, world,
             NoRow, At, ActorStates, ReleasedInv
    <2>2. ASSUME NEW force \in BOOLEAN,
                 ApiStop(a, force) \/ ApiReboot(a, force) \/ ApiTerminate(a, force)
          PROVE  ReleasedInv'
      BY <2>2, <1>0, HandlerIsActor, ApiIsActor
         DEF ApiStop, ApiReboot, ApiTerminate, Stay, Begin, CanStart, StopStart,
             TerminateStart, db, world, At, ActorStates, ReleasedInv
    <2> QED
      BY <1>1, <2>1, <2>2 DEF Request
  <1>2. ASSUME NEW a \in Actors, Step(a) \/ Fail(a)
        PROVE  ReleasedInv'
    <2>1. CASE CreateWrite(a) \/ StopRead(a) \/ BrokerDelete(a) \/ StopWrite(a)
               \/ PublishDeletion(a) \/ ResumeRead(a) \/ ResumeHost(a) \/ ResumeWrite(a)
      BY <2>1, <1>0, HandlerIsActor
         DEF CreateWrite, StopRead, BrokerDelete, StopWrite, PublishDeletion, ResumeRead,
             ResumeHost, ResumeWrite, Stay, Goto, Begin, Return, Raise, StopStart,
             ResumeStart, Update, db, world, StopHost, StartHost, DeleteDcvSession,
             StopRefused, NoRow, Idle, At, ActorStates, ReleasedInv
    <2>2. CASE RebootWrite(a) \/ RebootHost(a) \/ TerminateRead(a) \/ TerminateWrite(a)
               \/ TerminateStoppedHost(a) \/ TerminateDelete(a) \/ Fail(a)
      BY <2>2, <1>0, HandlerIsActor
         DEF RebootWrite, RebootHost, TerminateRead, TerminateWrite, TerminateStoppedHost,
             TerminateDelete, Fail, Stay, Goto, Begin, Return, Raise, TerminateStart,
             Update, db, world, TerminateHost, NoRow, Idle, At, ActorStates, ReleasedInv
    <2> QED
      BY <1>2, <2>1, <2>2 DEF Step
  <1>3. CASE Handle
    <2>1. CASE HandleHostReady \/ ReadyCreate \/ ReadyPublish \/ HandleRebootComplete
               \/ HandleRebootCompleteByController \/ RebootedResume \/ RebootedRecord
               \/ HandleEc2Stopping
      BY <2>1, <1>0, HandlerIsActor
         DEF HandleHostReady, ReadyCreate, ReadyPublish, HandleRebootComplete,
             HandleRebootCompleteByController, RebootedResume, RebootedRecord,
             HandleEc2Stopping, Stay, Goto, Begin, Return, Raise, Run, Ignore, Outside,
             Receives, CanStart, db, world, NoRow, Idle, At, ActorStates, ReleasedInv
    <2>2. CASE ReadyWrite
      BY <2>2, ReadyWriteEffect, HandlerIsActor, <1>0
         DEF At, Goto, Return, Raise, Ignore, Outside, world, Idle, ActorStates, ReleasedInv
    <2>3. CASE RebootedDescribe
      BY <2>3, RebootedDescribeEffect, HandlerIsActor, <1>0
         DEF At, Goto, Return, Raise, Ignore, Outside, world, Idle, ActorStates, ReleasedInv
    <2>4. CASE HandleEc2Stopped \/ Ec2StopWrite \/ HandleEc2Running
               \/ HandleValidateCreation \/ ValidateCreationDescribe
               \/ HandleValidateDeletion \/ ValidateDeletionDescribe \/ ContinueDelete
      BY <2>4, <1>0, HandlerIsActor
         DEF HandleEc2Stopped, Ec2StopWrite, HandleEc2Running, HandleValidateCreation,
             ValidateCreationDescribe, HandleValidateDeletion, ValidateDeletionDescribe,
             ContinueDelete, Stay, Goto, Begin, Return, Raise, Run, Ignore, Outside,
             Receives, CanStart, Update, db, world, NoRow, Idle, At, ActorStates,
             ReleasedInv
    <2>5. CASE ValidateCreationWrite
      BY <2>5, ValidateCreationWriteEffect, HandlerIsActor, <1>0
         DEF At, Return, Raise, Ignore, Outside, world, Idle, ReleasedInv
    <2>6. CASE ContinueDeleteHost \/ ContinueStop \/ HandleScheduledResume
               \/ HandleScheduledStop \/ CpuRecord \/ HandleCpuSuccess \/ HandleCpuOther
               \/ HandleTerminate
      BY <2>6, <1>0, HandlerIsActor
         DEF ContinueDeleteHost, ContinueStop, HandleScheduledResume, HandleScheduledStop,
             CpuRecord, HandleCpuSuccess, HandleCpuOther, HandleTerminate, Stay, Begin,
             Return, Raise, Run, Ignore, Outside, Receives, CanStart, db, world,
             TerminateHost, StopHost, StopRefused, NoRow, Idle, At, ActorStates, ReleasedInv
    <2>7. CASE HandleResumeSuccess \/ ResumeSuccessPublish \/ HandleResumeFailed
               \/ HandleResumeOther \/ ResumeStatusWrite
      BY <2>7, <1>0, HandlerIsActor
         DEF HandleResumeSuccess, ResumeSuccessPublish, HandleResumeFailed,
             HandleResumeOther, ResumeStatusWrite, Stay, Goto, Begin, Return, Raise, Run,
             Ignore, Outside, Receives, CanStart, Update, db, world, NoRow, Idle, At,
             ActorStates, ReleasedInv
    <2> QED
      BY <1>3, <2>1, <2>2, <2>3, <2>4, <2>5, <2>6, <2>7 DEF Handle
  <1>4. CASE Environment
    <2>1. CASE Routes
      BY <2>1 DEF Routes, Route, world, At, ReleasedInv
    <2>2. CASE Ec2Settles \/ HostUp \/ BrokerWorks \/ BrokerNotices
      BY <2>2
         DEF Ec2Settles, HostUp, BrokerWorks, BrokerNotices, db, At, ActorStates,
             ReleasedInv
    <2>3. CASE Commands
      BY <2>3 DEF Commands, CommandEnds, At, ReleasedInv
    <2> QED
      BY <1>4, <2>1, <2>2, <2>3 DEF Environment
  <1>5. CASE Outage \/ TriggerSchedule \/ UserDisabled \/ DedupExpires
    <2>1. CASE Outage \/ TriggerSchedule \/ UserDisabled \/ DedupExpires
      BY <2>1
         DEF Outage, TriggerSchedule, UserDisabled, DedupExpires, db, world, At,
             ActorStates, ReleasedInv
    <2> QED
      BY <1>5, <2>1 DEF Outage
  <1> QED
    BY <1>1, <1>2, <1>3, <1>4, <1>5 DEF Next

\* As long as nothing failed, whoever deletes the row has released the host or is
\* about to.
LEMMA LeakStep ==
  ASSUME Control, Data, FreshInv, ReleasedInv, LeakInv, Next
  PROVE  LeakInv'
  <1>0. act \in [Actors -> ActorStates]
    BY DEF Control
  <1>1. ASSUME NEW a \in ApiWorkers, Request(a)
        PROVE  LeakInv'
    <2>1. CASE CreateProvision(a)
      BY <2>1, <1>0, HandlerIsActor, ApiIsActor
         DEF CreateProvision, Stay, Begin, CanStart, NoRow, At, ActorStates, SessionStates,
             LeakInv, DeletesHost
    <2>2. CASE ApiResume(a)
      BY <2>2, <1>0, CallTyped, HandlerIsActor, ApiIsActor
         DEF ApiResume, Stay, Begin, CanStart, ResumeStart, db, world, At, ActorStates,
             SessionStates, LeakInv, DeletesHost
    <2>3. ASSUME NEW force \in BOOLEAN,
                 ApiStop(a, force) \/ ApiReboot(a, force) \/ ApiTerminate(a, force)
          PROVE  LeakInv'
      BY <2>3, <1>0, CallTyped, HandlerIsActor, ApiIsActor
         DEF ApiStop, ApiReboot, ApiTerminate, Stay, Begin, CanStart, StopStart,
             TerminateStart, db, world, At, ActorStates, SessionStates, LeakInv, DeletesHost
    <2> QED
      BY <1>1, <2>1, <2>2, <2>3 DEF Request
  <1>2. ASSUME NEW a \in Actors, Step(a) \/ Fail(a)
        PROVE  LeakInv'
    <2>1. CASE CreateWrite(a) \/ StopRead(a) \/ BrokerDelete(a) \/ PublishDeletion(a)
               \/ ResumeRead(a) \/ ResumeHost(a) \/ RebootHost(a) \/ TerminateRead(a)
      BY <2>1, <1>0, HandlerIsActor
         DEF CreateWrite, StopRead, BrokerDelete, PublishDeletion, ResumeRead, ResumeHost,
             RebootHost, TerminateRead, Stay, Goto, Begin, Return, Raise, StopStart,
             ResumeStart, TerminateStart, db, world, StartHost, DeleteDcvSession, NoRow,
             Idle, At, ActorStates, SessionStates, LeakInv, DeletesHost
    <2>2. CASE StopWrite(a) \/ ResumeWrite(a) \/ RebootWrite(a) \/ TerminateWrite(a)
      BY <2>2, <1>0, MovedTyped, HandlerIsActor
         DEF StopWrite, ResumeWrite, RebootWrite, TerminateWrite, Stay, Goto, Return,
             Raise, Update, world, StopHost, StopRefused, NoRow, Idle, At, ActorStates,
             SessionStates, LeakInv, DeletesHost
    <2>3. CASE TerminateStoppedHost(a)
      BY <2>3, <1>0, HandlerIsActor
         DEF TerminateStoppedHost, Stay, Goto, Raise, TerminateHost, NoRow, Idle, At,
             ActorStates, SessionStates, LeakInv, DeletesHost
    <2>4. CASE TerminateDelete(a)
      BY <2>4 DEF TerminateDelete, world, At, ReleasedInv, LeakInv
    <2>5. CASE Fail(a)
      BY <2>5, FaultTyped DEF Fail, LeakInv
    <2> QED
      BY <1>2, <2>1, <2>2, <2>3, <2>4, <2>5 DEF Step
  <1>3. CASE Handle
    <2>1. CASE HandleHostReady \/ ReadyCreate \/ ReadyPublish \/ HandleRebootComplete
               \/ HandleRebootCompleteByController \/ RebootedResume \/ RebootedRecord
               \/ HandleEc2Stopping
      BY <2>1, <1>0, HandlerIsActor
         DEF HandleHostReady, ReadyCreate, ReadyPublish, HandleRebootComplete,
             HandleRebootCompleteByController, RebootedResume, RebootedRecord,
             HandleEc2Stopping, Stay, Goto, Begin, Return, Raise, Run, Ignore, Outside,
             Receives, CanStart, db, world, NoRow, Idle, At, ActorStates, SessionStates,
             LeakInv, DeletesHost
    <2>2. CASE ReadyWrite
      BY <2>2, ReadyWriteEffect, HandlerIsActor, <1>0 DEF At, LeakInv, DeletesHost,
         Goto, Return, Raise, Ignore, Outside, world, Idle, ActorStates
    <2>3. CASE RebootedDescribe
      BY <2>3, RebootedDescribeEffect, HandlerIsActor, <1>0
         DEF At, Goto, Return, Raise, Ignore, Outside, world, Idle, ActorStates, LeakInv,
             DeletesHost
    <2>4. CASE HandleEc2Stopped \/ HandleEc2Running \/ HandleValidateCreation
               \/ ValidateCreationDescribe \/ HandleValidateDeletion
               \/ ValidateDeletionDescribe \/ ContinueDeleteHost \/ ContinueStop
      BY <2>4, <1>0, HandlerIsActor
         DEF HandleEc2Stopped, HandleEc2Running, HandleValidateCreation,
             ValidateCreationDescribe, HandleValidateDeletion, ValidateDeletionDescribe,
             ContinueDeleteHost, ContinueStop, Stay, Goto, Begin, Return, Raise, Run,
             Ignore, Outside, Receives, CanStart, db, world, TerminateHost, StopHost,
             StopRefused, NoRow, Idle, At, ActorStates, SessionStates, LeakInv, DeletesHost
    <2>5. CASE Ec2StopWrite \/ ResumeStatusWrite
      BY <2>5, <1>0, MovedTyped, HandlerIsActor
         DEF Ec2StopWrite, ResumeStatusWrite, Return, Raise, Ignore, Outside, Update,
             world, NoRow, Idle, At, ActorStates, SessionStates, LeakInv, DeletesHost
    <2>6. CASE ValidateCreationWrite
      BY <2>6, ValidateCreationWriteEffect, HandlerIsActor, <1>0 DEF At, LeakInv,
         DeletesHost,
         Return, Raise, Ignore, Outside, world, Idle
    <2>7. CASE ContinueDelete
      <3>1. CASE row.state = "NONE"
        BY <2>7, <3>1, <1>0, HandlerIsActor
           DEF ContinueDelete, Raise, Outside, world, Idle, At, ActorStates, LeakInv,
               DeletesHost
      <3>2. CASE row.state # "NONE"
        <4>1. act[Handler].snap.state = "DELETING"
          BY <2>7 DEF ContinueDelete, ReleasedInv
        <4> QED
          BY <2>7, <3>2, <4>1, <1>0, HandlerIsActor
             DEF ContinueDelete, Goto, Outside, world, At, ActorStates, LeakInv, DeletesHost
      <3> QED
        BY <3>1, <3>2
    <2>8. CASE HandleScheduledResume \/ HandleScheduledStop \/ CpuRecord
               \/ HandleCpuSuccess \/ HandleCpuOther \/ HandleTerminate
               \/ HandleResumeSuccess \/ ResumeSuccessPublish
      BY <2>8, <1>0, HandlerIsActor
         DEF HandleScheduledResume, HandleScheduledStop, CpuRecord, HandleCpuSuccess,
             HandleCpuOther, HandleTerminate, HandleResumeSuccess, ResumeSuccessPublish,
             Stay, Goto, Begin, Return, Raise, Run, Ignore, Outside, Receives, CanStart,
             db, world, NoRow, Idle, At, ActorStates, SessionStates, LeakInv, DeletesHost
    <2>9. CASE HandleResumeFailed \/ HandleResumeOther
      BY <2>9, <1>0, HandlerIsActor
         DEF HandleResumeFailed, HandleResumeOther, Stay, Begin, Return, Raise, Run,
             Ignore, Outside, Receives, CanStart, db, world, NoRow, Idle, At, ActorStates,
             SessionStates, LeakInv, DeletesHost
    <2> QED
      BY <1>3, <2>1, <2>2, <2>3, <2>4, <2>5, <2>6, <2>7, <2>8, <2>9 DEF Handle
  <1>4. CASE Environment
    <2>1. CASE Routes
      BY <2>1 DEF Routes, Route, db, world, LeakInv, DeletesHost, At
    <2>2. CASE Ec2Settles \/ HostUp \/ BrokerNotices
      BY <2>2
         DEF Ec2Settles, HostUp, BrokerNotices, db, At, ActorStates, SessionStates,
             LeakInv, DeletesHost
    <2>3. CASE BrokerWorks
      BY <2>3, FaultTyped DEF BrokerWorks, db, LeakInv, DeletesHost, At
    <2>4. CASE Commands
      BY <2>4, FaultTyped DEF Commands, CommandEnds, db, LeakInv, DeletesHost, At
    <2> QED
      BY <1>4, <2>1, <2>2, <2>3, <2>4 DEF Environment
  <1>5. CASE Outage \/ TriggerSchedule \/ UserDisabled \/ DedupExpires
    <2>1. CASE Outage
      BY <2>1 DEF Outage, db, Data, Budgets, At, LeakInv, DeletesHost
    <2>2. CASE TriggerSchedule \/ UserDisabled
      BY <2>2, CallTyped
         DEF TriggerSchedule, UserDisabled, db, world, At, ActorStates, SessionStates,
             LeakInv, DeletesHost
    <2>3. CASE DedupExpires
      BY <2>3 DEF DedupExpires, db, world, At, ActorStates, SessionStates, LeakInv,
         DeletesHost
    <2> QED
      BY <1>5, <2>1, <2>2, <2>3 DEF Outage
  <1> QED
    BY <1>1, <1>2, <1>3, <1>4, <1>5 DEF Next

-----------------------------------------------------------------------------
(* Theorems *)

\* The invariant is inductive: it holds at the start and every step keeps it.
THEOREM InvariantHolds == Spec => []IInv
  <1>1. Init => IInv
    <2>1. SUFFICES ASSUME Init
                   PROVE  IInv
      OBVIOUS
    <2>2. \A a \in Actors : act[a] = Idle
      BY <2>1 DEF Init
    <2>3. Control
      BY <2>1, <2>2, IdleTyped, HandlerIsActor, EmptySeq
         DEF Init, Control, Held, NoTermination, Idle, NoRow
    <2>4. Data
      BY <2>1, NoRowTyped, EmptySeq DEF Init, Data, Counts, Commanded, Budgets, DcvStates
    <2>5. Guarded /\ LeakInv
      BY <2>1, NoRowTyped DEF Init, Guarded, LeakInv
    <2>6. FreshInv /\ ReleasedInv
      BY <2>1, <2>2, NoRowTyped, HandlerIsActor DEF Init, FreshInv, Fresh, ReleasedInv, At,
         Idle
    <2> QED
      BY <2>3, <2>4, <2>5, <2>6 DEF IInv
  <1>2. IInv /\ [Next]_vars => IInv'
    <2>1. ASSUME IInv, Next
          PROVE  IInv'
      BY <2>1, ControlStep, DataStep, GuardedStep, FreshStep, ReleasedStep,
         LeakStep DEF IInv
    <2>2. ASSUME IInv, UNCHANGED vars
          PROVE  IInv'
      BY <2>2 DEF IInv, vars, Control, Held, NoTermination, Data, Guarded, FreshInv, Fresh,
                  ReleasedInv, LeakInv, DeletesHost, At
    <2> QED
      BY <2>1, <2>2
  <1> QED
    BY <1>1, <1>2, PTL DEF Spec

\* Every variable keeps its type, for any number of API threads and any bounds.
THEOREM TypeCorrect == Spec => []TypeOK
  <1>1. IInv => TypeOK
    BY DEF IInv, Control, Data, TypeOK, Counts, Commanded, Budgets
  <1> QED
    BY <1>1, InvariantHolds, PTL

\* The instance is released only after somebody asked for the termination of the
\* session (terminate_sessions and _continue_delete_session), whatever overlaps,
\* fails, is dropped or is delivered out of order.
THEOREM ReleaseNeedsRequest == Spec => []HardwareReleasedOnlyIfAsked
  <1>1. IInv => HardwareReleasedOnlyIfAsked
    BY DEF IInv, Guarded, HardwareReleasedOnlyIfAsked
  <1> QED
    BY <1>1, InvariantHolds, PTL

\* As long as no operation fails half way, a session whose row is gone has no
\* instance left once nobody is in the middle of an operation, although one path
\* deletes the row before the host and the other after it.
THEOREM NothingLeaks == Spec => []NoLeakedHost
  <1>1. IInv => NoLeakedHost
    BY HandlerIsActor DEF IInv, LeakInv, DeletesHost, At, NoLeakedHost, InFlight
  <1> QED
    BY <1>1, InvariantHolds, PTL
=============================================================================
