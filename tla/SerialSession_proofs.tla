------------------------- MODULE SerialSession_proofs -------------------------
(***************************************************************************)
(* What holds of VirtualDesktopSession when operations do not overlap,     *)
(* which is how the controller is tested and how its code is written: each *)
(* operation reads the row, acts, and writes the row back from what it     *)
(* read.  Serial is that condition (MaxInFlight <= 1); the notifications   *)
(* of EC2 and SSM, the host's boot, the broker, schedules and the user     *)
(* being disabled still come in between at any time.                       *)
(*                                                                         *)
(* The argument has two layers.  SerialInv: there is at most one operation *)
(* under way (the job), it is at one of its steps, and the row is what     *)
(* this operation itself made of the row it read; so no operation writes   *)
(* over a row that is gone.  FaultlessInv, as long as no exception or      *)
(* crash interrupted an operation: the host exists as long as the row      *)
(* does, and whatever the session's state waits for is on its way.         *)
(***************************************************************************)
EXTENDS VirtualDesktopSession_proofs, FiniteSetTheorems

-----------------------------------------------------------------------------
(* The operation under way *)

\* Operations do not overlap.
Serial == MaxInFlight <= 1

\* At most one actor is in the middle of an operation.
AloneInv == \A a, b \in Actors : act[a].op # "idle" /\ act[b].op # "idle" => a = b

\* The operation under way, and whether an event handler runs it.
job ==
    IF \E a \in Actors : act[a].op # "idle"
    THEN act[CHOOSE a \in Actors : act[a].op # "idle"]
    ELSE Idle
handling == act[Handler].op # "idle"

\* Whoever is in the middle of something is doing the job.
LEMMA JobOf ==
  ASSUME AloneInv, NEW a \in Actors, act[a].op # "idle"
  PROVE  job = act[a] /\ (handling <=> a = Handler)
  <1> DEFINE b == CHOOSE x \in Actors : act[x].op # "idle"
  <1>1. b \in Actors /\ act[b].op # "idle"
    OBVIOUS
  <1>2. b = a
    BY <1>1 DEF AloneInv
  <1>3. job = act[b]
    BY DEF job
  <1>4. handling <=> a = Handler
    BY HandlerIsActor DEF AloneInv, handling
  <1> QED
    BY <1>2, <1>3, <1>4

\* When nobody does anything there is no job.
LEMMA NoJob ==
  ASSUME \A a \in Actors : act[a].op = "idle"
  PROVE  job = Idle /\ ~handling /\ AloneInv
  BY HandlerIsActor DEF job, handling, AloneInv

\* An actor at a step of an operation does the job.
LEMMA JobAt ==
  ASSUME AloneInv, NEW a \in Actors, NEW op, NEW pc, op # "idle", At(a, op, pc)
  PROVE  job = act[a] /\ job.op = op /\ job.pc = pc /\ (handling <=> a = Handler)
  BY JobOf DEF At

\* An operation starts only when there is none.
LEMMA JobStarts ==
  ASSUME Serial, AloneInv, NEW a \in Actors, CanStart(a)
  PROVE  job = Idle /\ ~handling /\ \A b \in Actors : act[b].op = "idle"
  <1>1. SUFFICES ASSUME NEW b \in Actors, act[b].op # "idle"
                 PROVE  FALSE
    BY NoJob
  <1>2. InFlight = {b}
    BY <1>1 DEF InFlight, AloneInv
  <1>3. Cardinality(InFlight) = 1
    BY <1>2, FS_Singleton
  <1>4. QED
    BY <1>3, Parameters DEF CanStart, Serial

\* An operation begins or goes on while nobody else does anything.
LEMMA JobMoves ==
  ASSUME Control, NEW a \in Actors, \A b \in Actors : act[b].op # "idle" => b = a,
         NEW s, s.op # "idle", act' = [act EXCEPT ![a] = s]
  PROVE  AloneInv' /\ job' = s /\ (handling' <=> a = Handler)
  <1>1. \A b \in Actors : act'[b] = IF b = a THEN s ELSE act[b]
    BY DEF Control
  <1>2. AloneInv'
    BY <1>1 DEF AloneInv
  <1> DEFINE c == CHOOSE x \in Actors : act'[x].op # "idle"
  <1>3. c \in Actors /\ act'[c].op # "idle"
    BY <1>1
  <1>4. c = a
    BY <1>1, <1>3
  <1>5. job' = act'[c]
    BY <1>3 DEF job
  <1>6. handling' <=> a = Handler
    BY <1>1, HandlerIsActor DEF handling
  <1> QED
    BY <1>1, <1>2, <1>4, <1>5, <1>6

\* An operation begins.
LEMMA JobBegins ==
  ASSUME Control, Serial, AloneInv, NEW a \in Actors,
         CanStart(a) \/ act[a].op # "idle",
         NEW op, NEW pc, NEW snap, NEW force, op # "idle", Begin(a, op, pc, snap, force)
  PROVE  /\ AloneInv'
         /\ job' = [op |-> op, pc |-> pc, snap |-> snap, force |-> force, res |-> "NONE"]
         /\ job'.op = op /\ job'.pc = pc /\ job'.snap = snap /\ job'.res = "NONE"
         /\ (handling' <=> a = Handler)
  <1>1. \A b \in Actors : act[b].op # "idle" => b = a
    BY JobStarts DEF AloneInv
  <1>2. PICK s : s = [op |-> op, pc |-> pc, snap |-> snap, force |-> force, res |-> "NONE"]
    OBVIOUS
  <1>3. s.op = op /\ s.pc = pc /\ s.snap = snap /\ s.res = "NONE"
    BY <1>2
  <1>4. act' = [act EXCEPT ![a] = s]
    BY <1>2 DEF Begin
  <1>5. AloneInv' /\ job' = s /\ (handling' <=> a = Handler)
    BY <1>1, <1>3, <1>4, JobMoves
  <1> QED
    BY <1>2, <1>3, <1>5

\* An operation goes on.
LEMMA JobGoes ==
  ASSUME Control, AloneInv, NEW a \in Actors, act[a].op # "idle", NEW pc, Goto(a, pc)
  PROVE  /\ AloneInv' /\ job' = [job EXCEPT !.pc = pc] /\ (handling' <=> handling)
         /\ job'.op = job.op /\ job'.pc = pc /\ job'.snap = job.snap /\ job'.res = job.res
  <1>1. \A b \in Actors : act[b].op # "idle" => b = a
    BY DEF AloneInv
  <1>2. PICK s : s = [act[a] EXCEPT !.pc = pc]
    OBVIOUS
  <1>3. s.op # "idle" /\ act' = [act EXCEPT ![a] = s]
    BY <1>2 DEF Goto, Control, ActorStates
  <1>4. AloneInv' /\ job' = s /\ job = act[a] /\ (handling' <=> handling)
    BY <1>1, <1>3, JobMoves, JobOf
  <1>5. s.op = job.op /\ s.pc = pc /\ s.snap = job.snap /\ s.res = job.res
    BY <1>2, <1>4 DEF Control, ActorStates
  <1> QED
    BY <1>2, <1>4, <1>5

\* An operation ends, or a handler ends that did not even begin one.
LEMMA JobEnds ==
  ASSUME Control, Serial, AloneInv, NEW a \in Actors, CanStart(a) \/ act[a].op # "idle",
         act' = [act EXCEPT ![a] = Idle]
  PROVE  AloneInv' /\ job' = Idle /\ job'.op = "idle" /\ job'.pc = "idle" /\ ~handling'
  <1>1. \A b \in Actors : act[b].op # "idle" => b = a
    BY JobStarts DEF AloneInv
  <1>2. \A b \in Actors : act'[b].op = "idle"
    BY <1>1 DEF Control, Idle
  <1> QED
    BY <1>2, NoJob, HandlerIsActor DEF job, handling, AloneInv, Idle

\* It returns.
LEMMA JobReturns ==
  ASSUME Control, Serial, AloneInv, NEW a \in Actors, CanStart(a) \/ act[a].op # "idle",
         NEW e, Return(a, e)
  PROVE  AloneInv' /\ job' = Idle /\ job'.op = "idle" /\ job'.pc = "idle" /\ ~handling'
  BY JobEnds DEF Return

\* It raises.
LEMMA JobRaises ==
  ASSUME Control, Serial, AloneInv, NEW a \in Actors, CanStart(a) \/ act[a].op # "idle",
         Raise(a)
  PROVE  AloneInv' /\ job' = Idle /\ job'.op = "idle" /\ job'.pc = "idle" /\ ~handling'
  BY JobEnds DEF Raise

\* The handler receives a message when there is no job.
LEMMA JobReceives ==
  ASSUME Serial, AloneInv, NEW t, Receives(t)
  PROVE  job = Idle /\ ~handling /\ CanStart(Handler) /\ queue # <<>> /\ Head(queue).type = t
  BY JobStarts, HandlerIsActor DEF Receives

\* Nobody moves.
LEMMA JobStays ==
  ASSUME UNCHANGED act
  PROVE  job' = job /\ (handling' <=> handling) /\ (AloneInv => AloneInv')
  BY DEF job, handling, AloneInv

\* The job is a well formed state of an actor.
LEMMA JobTyped ==
  ASSUME Control, AloneInv
  PROVE  job \in ActorStates
  <1>1. CASE \E a \in Actors : act[a].op # "idle"
    BY <1>1, JobOf DEF Control
  <1>2. CASE \A a \in Actors : act[a].op = "idle"
    BY <1>2, NoJob, IdleTyped
  <1> QED
    BY <1>1, <1>2

\* What is sent goes to the end.
LEMMA SendHead ==
  ASSUME NEW S, NEW q \in Seq(S), q # <<>>, NEW e, Send(q, e)
  PROVE  Head(queue') = Head(q) /\ queue' # <<>>
  <1>1. CASE queue' = q
    BY <1>1
  <1>2. CASE queue' = Append(q, e)
    BY <1>2
  <1> QED
    BY <1>1, <1>2 DEF Send

-----------------------------------------------------------------------------
(* One operation at a time *)

\* The steps of each operation.
Steps(op) ==
    CASE op = "create" -> {"write"}
      [] op = "stop" -> {"read", "call", "write", "publish"}
      [] op = "resume" -> {"read", "call", "write"}
      [] op = "reboot" -> {"write", "host"}
      [] op = "terminate" -> {"read", "call", "write", "publish", "host", "delete"}
      [] op = "ready" -> {"call", "write", "publish"}
      [] op = "rebooted" -> {"call", "host", "record"}
      [] op \in {"ec2_stopping", "ec2_stopped", "resume_failed"} -> {"write"}
      [] op = "validate_creation" -> {"call", "write"}
      [] op = "validate_deletion" -> {"call", "delete", "host"}
      [] op = "resume_success" -> {"publish", "write"}
      [] op = "cpu" -> {"record"}
      [] OTHER -> {"idle"}

\* The states of the row an operation begins with.
Begun(op) ==
    CASE op = "stop" -> {"READY"}
      [] op = "resume" -> {"STOPPED"}
      [] op = "reboot" -> {"READY", "ERROR"}
      [] op = "ready" -> {"PROVISIONING", "CREATING"}
      [] op = "rebooted" -> {"RESUMING", "READY", "ERROR", "STOPPED"}
      [] op \in {"ec2_stopping", "ec2_stopped"} -> SessionStates \ StopIgnored
      [] op = "validate_creation" -> SessionStates \ {"DELETING"}
      [] op = "validate_deletion" -> {"STOPPING", "DELETING"}
      [] op = "cpu" -> {"READY"}
      [] OTHER -> SessionStates

\* The row an operation finds, from the row it read: its own write, or no change.
Found(s) ==
    CASE s.op = "stop" /\ s.pc = "publish" -> [s.snap EXCEPT !.state = "STOPPING"]
      [] s.op = "reboot" /\ s.pc = "host" -> [s.snap EXCEPT !.state = "RESUMING"]
      [] s.op = "terminate" /\ s.pc = "publish" -> [s.snap EXCEPT !.state = "DELETING"]
      [] s.op = "ready" /\ s.pc = "publish" -> [state |-> "INITIALIZING", dcv |-> TRUE]
      [] s.op = "validate_deletion" /\ s.pc = "host" /\ s.snap.state = "DELETING" -> NoRow
      [] OTHER -> s.snap

\* The event each of the handler's operations is for.
EventOf(op) ==
    CASE op = "stop" -> "CPU_SUCCESS"
      [] op = "resume" -> "SCHEDULED_RESUME"
      [] op = "terminate" -> "TERMINATE"
      [] op = "ready" -> "HOST_READY"
      [] op = "rebooted" -> "REBOOT_COMPLETE"
      [] op = "ec2_stopping" -> "EC2_STOPPING"
      [] op = "ec2_stopped" -> "EC2_STOPPED"
      [] op = "validate_creation" -> "VALIDATE_CREATION"
      [] op = "validate_deletion" -> "VALIDATE_DELETION"
      [] op = "resume_success" -> "RESUME_SUCCESS"
      [] op = "resume_failed" -> "RESUME_FAILED"
      [] OTHER -> "SCHEDULED_STOP"

ApiOps == {"create", "reboot"}
SharedOps == {"stop", "resume", "terminate"}

\* Every operation is at one of its steps, and nobody but the operation itself has
\* changed the row since the operation read it.
JobInv ==
    /\ job.pc \in Steps(job.op)
    /\ job.op \notin {"idle", "create"} /\ job.pc # "read" =>
          job.snap.state \in Begun(job.op) /\ row = Found(job)
    /\ job.op \in {"idle"} \cup ApiOps => ~handling
    /\ job.op \notin {"idle"} \cup ApiOps \cup SharedOps => handling
    /\ handling => Head(queue).type = EventOf(job.op)

SerialInv == AloneInv /\ JobInv

\* An operation that has just read the row fits it.
LEMMA BeginsSerial ==
  ASSUME Control, Serial, SerialInv, NEW a \in Actors, CanStart(a) \/ act[a].op # "idle",
         NEW op \in Ops \ {"idle", "create"}, NEW pc, NEW force, Begin(a, op, pc, row, force),
         Stay, UNCHANGED row, pc \in Steps(op), row.state \in Begun(op),
         pc \notin {"publish", "host"} \/ op \in {"terminate", "rebooted", "resume_success"},
         op = "terminate" => pc # "publish",
         a = Handler => Head(queue).type = EventOf(op) /\ op \notin ApiOps,
         a # Handler => op \in ApiOps \cup SharedOps
  PROVE  SerialInv'
  <1>1. /\ AloneInv' /\ (handling' <=> a = Handler)
        /\ job' = [op |-> op, pc |-> pc, snap |-> row, force |-> force, res |-> "NONE"]
    BY JobBegins DEF SerialInv
  <1>2. job'.op = op /\ job'.pc = pc /\ job'.snap = row
    BY <1>1
  <1>3. Found(job') = row
    BY <1>2 DEF Found
  <1> QED
    BY <1>1, <1>2, <1>3 DEF SerialInv, JobInv, Stay, ApiOps, SharedOps

\* One that is about to read the row asks for nothing yet.
LEMMA BeginsRead ==
  ASSUME Control, Serial, SerialInv, CanStart(Handler), NEW op \in SharedOps,
         NEW snap, NEW force, Begin(Handler, op, "read", snap, force),
         Stay, "read" \in Steps(op), Head(queue).type = EventOf(op)
  PROVE  SerialInv'
  <1>1. /\ AloneInv' /\ handling'
        /\ job' = [op |-> op, pc |-> "read", snap |-> snap, force |-> force, res |-> "NONE"]
    BY JobBegins, HandlerIsActor DEF SerialInv, SharedOps
  <1>2. job'.op = op /\ job'.pc = "read"
    BY <1>1
  <1> QED
    BY <1>1, <1>2 DEF SerialInv, JobInv, Stay, ApiOps, SharedOps

\* An operation that is over asks for nothing.
LEMMA EndsSerial ==
  ASSUME AloneInv', job' = Idle, ~handling'
  PROVE  SerialInv'
  BY DEF SerialInv, JobInv, Idle, Steps, ApiOps, SharedOps

\* One that returns is over.
LEMMA ReturnsSerial ==
  ASSUME Control, Serial, SerialInv, NEW a \in Actors, CanStart(a) \/ act[a].op # "idle",
         NEW e, Return(a, e)
  PROVE  SerialInv'
  BY JobReturns, EndsSerial DEF SerialInv

\* One that raises is over.
LEMMA RaisesSerial ==
  ASSUME Control, Serial, SerialInv, NEW a \in Actors, CanStart(a) \/ act[a].op # "idle",
         Raise(a)
  PROVE  SerialInv'
  BY JobRaises, EndsSerial DEF SerialInv

\* An operation goes on and finds the row as it left it.
LEMMA GoesSerial ==
  ASSUME Control, SerialInv, NEW a \in Actors, act[a].op # "idle", NEW pc, Goto(a, pc), Stay,
         pc \in Steps(job.op), pc # "read", row' = Found([job EXCEPT !.pc = pc]),
         job.pc # "read"
  PROVE  SerialInv'
  <1>1. AloneInv' /\ job' = [job EXCEPT !.pc = pc] /\ (handling' <=> handling)
    BY JobGoes DEF SerialInv
  <1>2. job'.op = job.op /\ job'.pc = pc /\ job'.snap = job.snap
    BY <1>1, JobTyped DEF SerialInv, ActorStates
  <1> QED
    BY <1>1, <1>2 DEF SerialInv, JobInv, Stay, ApiOps, SharedOps

\* Nobody moves and the row stays what it is.
LEMMA StaysSerial ==
  ASSUME Control, SerialInv, UNCHANGED <<act, row>>,
         UNCHANGED queue \/ \E e : Send(queue, e)
  PROVE  SerialInv'
  <1>1. job' = job /\ (handling' <=> handling) /\ AloneInv'
    BY JobStays DEF SerialInv
  <1>2. handling => Head(queue') = Head(queue)
    BY SendHead DEF handling, Control, Held
  <1> QED
    BY <1>1, <1>2 DEF SerialInv, JobInv

\* Operations stay alone with the row.
LEMMA SerialStep ==
  ASSUME Control, Data, ReleasedInv, Serial, SerialInv, Next
  PROVE  SerialInv'
  <1>0. /\ AloneInv /\ JobInv /\ job \in ActorStates
        /\ act \in [Actors -> ActorStates] /\ row \in Rows
    BY JobTyped DEF SerialInv, Control, Data
  <1>1. ASSUME NEW a \in ApiWorkers, Request(a)
        PROVE  SerialInv'
    <2>0. a \in Actors /\ a # Handler
      BY ApiIsActor
    <2>1. CASE CreateProvision(a)
      <3>1. Begin(a, "create", "write", NoRow, FALSE) /\ CanStart(a)
        BY <2>1 DEF CreateProvision
      <3>2. /\ AloneInv' /\ ~handling'
            /\ job' = [op |-> "create", pc |-> "write", snap |-> NoRow, force |-> FALSE, res |-> "NONE"]
        BY <3>1, <2>0, <1>0, JobBegins
      <3>3. job'.op = "create" /\ job'.pc = "write"
        BY <3>2
      <3> QED
        BY <3>2, <3>3 DEF SerialInv, JobInv, Steps, ApiOps, SharedOps
    <2>2. CASE ApiResume(a)
      BY <2>2, <2>0, BeginsSerial
         DEF ApiResume, ResumeStart, db, Ops, Steps, Begun, ApiOps, SharedOps
    <2>3. ASSUME NEW force \in BOOLEAN, ApiStop(a, force)
          PROVE  SerialInv'
      BY <2>3, <2>0, BeginsSerial
         DEF ApiStop, StopStart, db, Ops, Steps, Begun, ApiOps, SharedOps
    <2>4. ASSUME NEW force \in BOOLEAN, ApiReboot(a, force)
          PROVE  SerialInv'
      BY <2>4, <2>0, BeginsSerial
         DEF ApiReboot, db, Ops, Steps, Begun, ApiOps, SharedOps
    <2>5. ASSUME NEW force \in BOOLEAN, ApiTerminate(a, force)
          PROVE  SerialInv'
      BY <2>5, <2>0, <1>0, BeginsSerial
         DEF ApiTerminate, TerminateStart, db, Ops, Steps, Begun, ApiOps, SharedOps, Rows
    <2> QED
      BY <1>1, <2>1, <2>2, <2>3, <2>4, <2>5 DEF Request
  <1>2. ASSUME NEW a \in Actors, Step(a) \/ Fail(a)
        PROVE  SerialInv'
    <2>0. /\ act[a].op # "idle" => job = act[a] /\ (handling <=> a = Handler)
          /\ job.snap \in Rows
      BY <1>0, JobOf DEF ActorStates
    <2>1. CASE CreateWrite(a) \/ RebootHost(a) \/ PublishDeletion(a)
      BY <2>1, ReturnsSerial DEF CreateWrite, RebootHost, PublishDeletion, At
    <2>2. CASE StopRead(a)
      BY <2>2, <2>0, <1>0, BeginsSerial, RaisesSerial
         DEF StopRead, StopStart, At, db, Ops, Steps, Begun, ApiOps, SharedOps, JobInv
    <2>3. CASE BrokerDelete(a)
      BY <2>3, <2>0, <1>0, GoesSerial, RaisesSerial
         DEF BrokerDelete, At, db, Steps, Found, JobInv, ActorStates
    <2>4. CASE StopWrite(a)
      BY <2>4, <2>0, <1>0, GoesSerial, RaisesSerial, ReturnsSerial
         DEF StopWrite, Update, Moved, At, Steps, Found, JobInv, ActorStates
    <2>5. CASE ResumeRead(a)
      BY <2>5, <2>0, <1>0, BeginsSerial, RaisesSerial
         DEF ResumeRead, ResumeStart, At, db, Ops, Steps, Begun, ApiOps, SharedOps, JobInv
    <2>6. CASE ResumeHost(a)
      BY <2>6, <2>0, <1>0, GoesSerial, RaisesSerial
         DEF ResumeHost, At, db, Steps, Found, JobInv, ActorStates
    <2>7. CASE ResumeWrite(a)
      BY <2>7, RaisesSerial, ReturnsSerial DEF ResumeWrite, At
    <2>8. CASE RebootWrite(a)
      BY <2>8, <2>0, <1>0, GoesSerial, RaisesSerial
         DEF RebootWrite, Update, Moved, At, Steps, Found, JobInv, ActorStates
    <2>9. CASE TerminateRead(a)
      BY <2>9, <2>0, <1>0, BeginsSerial, RaisesSerial
         DEF TerminateRead, TerminateStart, At, db, Ops, Steps, Begun, ApiOps, SharedOps, JobInv, Rows
    <2>10. CASE TerminateWrite(a)
      BY <2>10, <2>0, <1>0, GoesSerial, RaisesSerial
         DEF TerminateWrite, Update, Moved, At, Steps, Found, JobInv, ActorStates
    <2>11. CASE TerminateStoppedHost(a)
      BY <2>11, <2>0, <1>0, GoesSerial, RaisesSerial
         DEF TerminateStoppedHost, At, Steps, Found, JobInv, ActorStates
    <2>12. CASE TerminateDelete(a)
      BY <2>12, RaisesSerial, ReturnsSerial DEF TerminateDelete, At
    <2>13. CASE Fail(a)
      BY <2>13, RaisesSerial DEF Fail
    <2> QED
      BY <1>2, <2>1, <2>2, <2>3, <2>4, <2>5, <2>6, <2>7, <2>8, <2>9, <2>10, <2>11, <2>12,
         <2>13
         DEF Step
  <1>3. CASE Handle
    <2>0. /\ act[Handler].op # "idle" => job = act[Handler] /\ handling
          /\ job.snap \in Rows /\ Handler \in Actors
      BY <1>0, JobOf, HandlerIsActor DEF ActorStates
    <2>1. CASE HandleHostReady
      BY <2>1, <2>0, BeginsSerial, ReturnsSerial
         DEF HandleHostReady, Receives, Run, Ignore, db, Ops, Steps, Begun, EventOf, ApiOps
    <2>2. CASE ReadyCreate
      <3>1. PICK r : act' = [act EXCEPT ![Handler] = [act[Handler] EXCEPT !.pc = "write", !.res = r]]
        BY <2>2 DEF ReadyCreate
      <3>2. PICK s : s = [act[Handler] EXCEPT !.pc = "write", !.res = r]
        OBVIOUS
      <3>3. /\ job = act[Handler] /\ job.op = "ready" /\ job.pc = "call" /\ handling
            /\ UNCHANGED <<row, queue>>
        BY <2>2, <2>0 DEF ReadyCreate, At, Stay, db
      <3>4. s.op = "ready" /\ s.pc = "write" /\ s.snap = job.snap
        BY <3>2, <3>3, <1>0 DEF ActorStates
      <3>5. AloneInv' /\ job' = s /\ handling'
        BY <3>1, <3>2, <3>3, <3>4, <2>0, <1>0, JobMoves DEF AloneInv
      <3> QED
        BY <3>3, <3>4, <3>5, <1>0 DEF SerialInv, JobInv, Steps, Found, ApiOps, SharedOps
    <2>3. CASE ReadyWrite
      <3>1. /\ job = act[Handler] /\ job.op = "ready" /\ job.pc = "write"
        BY <2>3, <2>0 DEF ReadyWrite, At
      <3>2. Raise(Handler) \/ Ignore \/
            (row' = [state |-> "INITIALIZING", dcv |-> TRUE] /\ Goto(Handler, "publish") /\ Stay)
        BY <2>3 DEF ReadyWrite, Update
      <3> QED
        BY <3>1, <3>2, <2>0, <1>0, GoesSerial, RaisesSerial, ReturnsSerial
           DEF Ignore, Steps, Found, ActorStates
    <2>4. CASE ReadyPublish \/ HandleRebootCompleteByController \/ CpuRecord \/ HandleCpuOther
               \/ HandleResumeOther
      BY <2>4, <2>0, ReturnsSerial
         DEF ReadyPublish, HandleRebootCompleteByController, CpuRecord, HandleCpuOther,
             HandleResumeOther, Ignore, Receives, At
    <2>5. CASE HandleRebootComplete
      BY <2>5, <2>0, BeginsSerial, ReturnsSerial
         DEF HandleRebootComplete, Receives, Run, Ignore, db, Ops, Steps, Begun, EventOf, ApiOps
    <2>6. CASE RebootedDescribe
      BY <2>6, <2>0, <1>0, RebootedDescribeEffect, GoesSerial, RaisesSerial, ReturnsSerial
         DEF Ignore, At, Steps, Found, JobInv, ActorStates
    <2>7. CASE RebootedResume
      BY <2>7, <2>0, <1>0, GoesSerial, RaisesSerial
         DEF RebootedResume, At, db, Steps, Found, JobInv, ActorStates
    <2>8. CASE RebootedRecord \/ Ec2StopWrite \/ ContinueDeleteHost \/ ContinueStop
               \/ ResumeStatusWrite
      BY <2>8, <2>0, RaisesSerial, ReturnsSerial
         DEF RebootedRecord, Ec2StopWrite, ContinueDeleteHost, ContinueStop,
             ResumeStatusWrite, Ignore, At
    <2>9. CASE HandleEc2Stopping
      BY <2>9, <2>0, <1>0, BeginsSerial, ReturnsSerial
         DEF HandleEc2Stopping, Receives, Run, Ignore, db, Ops, Steps, Begun, EventOf, ApiOps,
             StopIgnored, Rows
    <2>10. CASE HandleEc2Stopped
      BY <2>10, <2>0, <1>0, BeginsSerial, ReturnsSerial
         DEF HandleEc2Stopped, Receives, Run, Ignore, db, Ops, Steps, Begun, EventOf, ApiOps,
             StopIgnored, Rows
    <2>11. CASE HandleEc2Running
      <3>1. CanStart(Handler) /\ act' = [act EXCEPT ![Handler] = Idle]
        BY <2>11 DEF HandleEc2Running, Receives, Return
      <3> QED
        BY <3>1, <2>0, <1>0, JobEnds, EndsSerial
    <2>12. CASE HandleValidateCreation
      BY <2>12, <2>0, <1>0, BeginsSerial, ReturnsSerial
         DEF HandleValidateCreation, Receives, Run, Ignore, Ops, Steps, Begun, EventOf, ApiOps,
             Rows
    <2>13. CASE ValidateCreationDescribe
      <3>1. PICK s : s = [act[Handler] EXCEPT !.pc = "write", !.res = Described(Handler)]
        OBVIOUS
      <3>2. /\ job = act[Handler] /\ job.op = "validate_creation" /\ job.pc = "call" /\ handling
            /\ UNCHANGED <<row, queue>> /\ act' = [act EXCEPT ![Handler] = s]
        BY <2>13, <2>0, <3>1 DEF ValidateCreationDescribe, At, Stay, db
      <3>3. s.op = "validate_creation" /\ s.pc = "write" /\ s.snap = job.snap
        BY <3>1, <3>2, <1>0 DEF ActorStates
      <3>4. AloneInv' /\ job' = s /\ handling'
        BY <3>2, <3>3, <2>0, <1>0, JobMoves DEF AloneInv
      <3> QED
        BY <3>2, <3>3, <3>4, <1>0 DEF SerialInv, JobInv, Steps, Found, ApiOps, SharedOps
    <2>14. CASE ValidateCreationWrite
      BY <2>14, <2>0, ValidateCreationWriteEffect, RaisesSerial, ReturnsSerial
         DEF Ignore, At
    <2>15. CASE HandleValidateDeletion
      BY <2>15, <2>0, BeginsSerial, ReturnsSerial
         DEF HandleValidateDeletion, Receives, Run, Ignore, db, Ops, Steps, Begun, EventOf, ApiOps
    <2>16. CASE ValidateDeletionDescribe
      BY <2>16, <2>0, <1>0, GoesSerial, RaisesSerial
         DEF ValidateDeletionDescribe, At, db, Steps, Found, JobInv, ActorStates
    <2>17. CASE ContinueDelete
      BY <2>17, <2>0, <1>0, GoesSerial, RaisesSerial
         DEF ContinueDelete, At, Steps, Found, JobInv, ActorStates, ReleasedInv
    <2>18. CASE HandleScheduledResume
      BY <2>18, <2>0, BeginsRead, ReturnsSerial
         DEF HandleScheduledResume, Receives, Run, Ignore, Steps, EventOf, SharedOps
    <2>19. CASE HandleScheduledStop
      BY <2>19, <2>0, BeginsSerial, ReturnsSerial, RaisesSerial
         DEF HandleScheduledStop, Receives, Run, Ignore, db, Ops, Steps, Begun, EventOf, ApiOps
    <2>20. CASE HandleCpuSuccess
      BY <2>20, <2>0, BeginsRead, ReturnsSerial
         DEF HandleCpuSuccess, Receives, Run, Ignore, Steps, EventOf, SharedOps
    <2>21. CASE HandleTerminate
      BY <2>21, <2>0, BeginsRead
         DEF HandleTerminate, Receives, Steps, EventOf, SharedOps
    <2>22. CASE HandleResumeSuccess
      BY <2>22, <2>0, <1>0, BeginsSerial, RaisesSerial
         DEF HandleResumeSuccess, Receives, Run, db, Ops, Steps, Begun, EventOf, ApiOps, Rows
    <2>23. CASE ResumeSuccessPublish
      <3>1. /\ job = act[Handler] /\ job.op = "resume_success" /\ job.pc = "publish" /\ handling
            /\ UNCHANGED row /\ Goto(Handler, "write") /\ Send(queue, Event("VALIDATE_CREATION"))
            /\ act[Handler].op # "idle" /\ queue \in Seq(Events) /\ queue # <<>>
        BY <2>23, <2>0 DEF ResumeSuccessPublish, At, db, Control, Held
      <3>2. AloneInv' /\ job' = [job EXCEPT !.pc = "write"] /\ handling'
        BY <3>1, <2>0, <1>0, JobGoes
      <3>3. job'.op = "resume_success" /\ job'.pc = "write" /\ job'.snap = job.snap
        BY <3>1, <3>2, <1>0 DEF ActorStates
      <3>4. Head(queue') = Head(queue)
        BY <3>1, SendHead
      <3> QED
        BY <3>1, <3>2, <3>3, <3>4, <1>0
           DEF SerialInv, JobInv, Steps, Found, ApiOps, SharedOps
    <2>24. CASE HandleResumeFailed
      BY <2>24, <2>0, <1>0, BeginsSerial, RaisesSerial
         DEF HandleResumeFailed, Receives, Run, db, Ops, Steps, Begun, EventOf, ApiOps, Rows
    <2> QED
      BY <1>3, <2>1, <2>2, <2>3, <2>4, <2>5, <2>6, <2>7, <2>8, <2>9, <2>10, <2>11, <2>12,
         <2>13, <2>14, <2>15, <2>16, <2>17, <2>18, <2>19, <2>20, <2>21, <2>22, <2>23, <2>24
         DEF Handle
  <1>4. CASE Environment
    <2>1. CASE Routes \/ HostUp
      BY <2>1, StaysSerial DEF Routes, Route, HostUp, db
    <2>2. CASE Ec2Settles \/ BrokerWorks \/ BrokerNotices \/ Commands
      BY <2>2, StaysSerial
         DEF Ec2Settles, BrokerWorks, BrokerNotices, Commands, CommandEnds, db
    <2> QED
      BY <1>4, <2>1, <2>2 DEF Environment
  <1>5. CASE Outage \/ TriggerSchedule \/ UserDisabled \/ DedupExpires
    BY <1>5, StaysSerial DEF Outage, TriggerSchedule, UserDisabled, DedupExpires, db
  <1> QED
    BY <1>1, <1>2, <1>3, <1>4, <1>5 DEF Next

\* What the actions that write the row know of it: it is the row they read.
LEMMA RowIsThere ==
  ASSUME Control, Serial, SerialInv, job.op \notin {"idle", "create"}, job.pc # "read",
         ~(job.op = "validate_deletion" /\ job.pc = "host")
  PROVE  row.state # "NONE"
  <1>1. job.snap.state \in Begun(job.op) /\ row = Found(job) /\ job \in ActorStates
    BY JobTyped DEF SerialInv, JobInv
  <1>2. Begun(job.op) \subseteq SessionStates
    BY DEF Begun, SessionStates
  <1>3. row.state \in SessionStates
    BY <1>1, <1>2 DEF Found, ActorStates, Rows, SessionStates
  <1> QED
    BY <1>3 DEF SessionStates

\* Only create_session makes a row.
LEMMA RowStep ==
  ASSUME Control, Data, Serial, SerialInv, Next, row.state = "NONE", row'.state # "NONE"
  PROVE  row'.state = "PROVISIONING" /\ \E a \in Actors : CreateWrite(a)
  <1>0. AloneInv
    BY DEF SerialInv
  <1>1. ASSUME NEW a \in ApiWorkers, Request(a)
        PROVE  FALSE
    BY <1>1 DEF Request, CreateProvision, ApiResume, ApiStop, ApiReboot, ApiTerminate, db
  <1>2. ASSUME NEW a \in Actors, Step(a) \/ Fail(a)
        PROVE  row'.state = "PROVISIONING" /\ CreateWrite(a)
    <2>0. act[a].op # "idle" => job = act[a]
      BY <1>0, JobOf
    <2>1. CASE CreateWrite(a)
      BY <2>1 DEF CreateWrite
    <2>2. CASE StopRead(a) \/ BrokerDelete(a) \/ PublishDeletion(a) \/ ResumeRead(a)
               \/ ResumeHost(a) \/ RebootHost(a) \/ TerminateRead(a)
               \/ TerminateStoppedHost(a) \/ TerminateDelete(a) \/ Fail(a)
      BY <2>2, NoRowTyped
         DEF StopRead, BrokerDelete, PublishDeletion, ResumeRead, ResumeHost, RebootHost,
             TerminateRead, TerminateStoppedHost, TerminateDelete, Fail, db
    <2>3. CASE StopWrite(a) \/ ResumeWrite(a) \/ RebootWrite(a) \/ TerminateWrite(a)
      BY <2>3, <2>0, RowIsThere DEF StopWrite, ResumeWrite, RebootWrite, TerminateWrite, At
    <2> QED
      BY <1>2, <2>1, <2>2, <2>3 DEF Step
  <1>3. CASE Handle
    <2>0. act[Handler].op # "idle" => job = act[Handler]
      BY <1>0, JobOf, HandlerIsActor
    <2>1. CASE ReadyWrite \/ Ec2StopWrite \/ ValidateCreationWrite \/ ResumeStatusWrite
      BY <2>1, <2>0, RowIsThere
         DEF ReadyWrite, Ec2StopWrite, ValidateCreationWrite, ResumeStatusWrite, At
    <2>2. CASE ContinueDelete
      BY <2>2, NoRowTyped DEF ContinueDelete
    <2>3. CASE HandleHostReady \/ ReadyCreate \/ ReadyPublish \/ HandleRebootComplete
               \/ HandleRebootCompleteByController \/ RebootedDescribe \/ RebootedResume
               \/ RebootedRecord
      BY <2>3
         DEF HandleHostReady, ReadyCreate, ReadyPublish, HandleRebootComplete,
             HandleRebootCompleteByController, RebootedDescribe, RebootedResume,
             RebootedRecord, db
    <2>4. CASE HandleEc2Stopping \/ HandleEc2Stopped \/ HandleEc2Running
               \/ HandleValidateCreation \/ ValidateCreationDescribe \/ HandleValidateDeletion
               \/ ValidateDeletionDescribe \/ ContinueDeleteHost \/ ContinueStop
      BY <2>4
         DEF HandleEc2Stopping, HandleEc2Stopped, HandleEc2Running, HandleValidateCreation,
             ValidateCreationDescribe, HandleValidateDeletion, ValidateDeletionDescribe,
             ContinueDeleteHost, ContinueStop, db
    <2>5. CASE HandleScheduledResume \/ HandleScheduledStop \/ CpuRecord \/ HandleCpuSuccess
               \/ HandleCpuOther \/ HandleTerminate \/ HandleResumeSuccess
               \/ ResumeSuccessPublish \/ HandleResumeFailed \/ HandleResumeOther
      BY <2>5
         DEF HandleScheduledResume, HandleScheduledStop, CpuRecord, HandleCpuSuccess,
             HandleCpuOther, HandleTerminate, HandleResumeSuccess, ResumeSuccessPublish,
             HandleResumeFailed, HandleResumeOther, db
    <2> QED
      BY <1>3, <2>1, <2>2, <2>3, <2>4, <2>5 DEF Handle
  <1>4. CASE Environment
    BY <1>4 DEF Environment, Routes, Route, Ec2Settles, HostUp, BrokerWorks, BrokerNotices,
                Commands, CommandEnds, db
  <1>5. CASE Outage \/ TriggerSchedule \/ UserDisabled \/ DedupExpires
    BY <1>5 DEF Outage, TriggerSchedule, UserDisabled, DedupExpires, db
  <1> QED
    BY <1>1, <1>2, <1>3, <1>4, <1>5 DEF Next

\* Operations that do not overlap are alone with the row.
THEOREM SerialHolds ==
  ASSUME Serial
  PROVE  Spec => []SerialInv
  <1>1. Init => SerialInv
    <2>1. SUFFICES ASSUME Init
                   PROVE  SerialInv
      OBVIOUS
    <2>2. \A a \in Actors : act[a].op = "idle"
      BY <2>1 DEF Init, Idle
    <2>3. AloneInv /\ job = Idle /\ ~handling
      BY <2>2, NoJob
    <2> QED
      BY <2>3 DEF SerialInv, JobInv, Idle, Steps, ApiOps, SharedOps
  <1>2. IInv /\ SerialInv /\ [Next]_vars => SerialInv'
    <2>1. ASSUME IInv, SerialInv, Next
          PROVE  SerialInv'
      BY <2>1, SerialStep DEF IInv
    <2>2. ASSUME IInv, SerialInv, UNCHANGED vars
          PROVE  SerialInv'
      BY <2>2, StaysSerial DEF IInv, vars
    <2> QED
      BY <2>1, <2>2
  <1> QED
    BY <1>1, <1>2, InvariantHolds, PTL DEF Spec

\* Operations that do not overlap never bring a deleted session back, faults or
\* not, although VirtualDesktopSessionDB.update creates the row it does not find:
\* the only step that makes a row where there is none is create_session's.
THEOREM NothingResurrected ==
  ASSUME Serial
  PROVE  Spec => NoResurrection
  <1>1. IInv /\ SerialInv /\ [Next]_vars =>
           [row.state = "NONE" /\ row'.state # "NONE" => row'.state = "PROVISIONING"]_vars
    BY RowStep DEF IInv
  <1> QED
    BY <1>1, InvariantHolds, SerialHolds, PTL DEF Spec, NoResurrection

-----------------------------------------------------------------------------
(* What waits in the queues *)

\* An event of this type waits in the queue.
Waits(q, t) == \E i \in 1 .. Len(q) : q[i].type = t

\* Such a notification of EC2 is on its way.
News(n, status) == \E i \in 1 .. Len(n) : n[i].about = "ec2" /\ n[i].status = status

\* An event that was sent is the last of the queue, unless SQS dropped it.
LEMMA SendWaits ==
  ASSUME NEW q \in Seq(Events), NEW e, e = NoEvent \/ e \in Events, Send(q, e), NEW t
  PROVE  /\ Waits(q, t) => Waits(queue', t)
         /\ e.type = t /\ e # NoEvent /\ t \notin recent => Waits(queue', t)
         /\ Waits(queue', t) => Waits(q, t) \/ e.type = t
  <1>1. CASE queue' = q /\ (e = NoEvent \/ e.type \in recent)
    BY <1>1
  <1>2. CASE queue' = Append(q, e)
    <2>1. /\ Len(queue') = Len(q) + 1 /\ Len(q) \in Nat /\ queue'[Len(q) + 1] = e
          /\ \A i \in 1 .. Len(q) : queue'[i] = q[i]
      BY <1>2
    <2> QED
      BY <2>1 DEF Waits
  <1> QED
    BY <1>1, <1>2 DEF Send

\* The head of the queue waits, or something behind it.
LEMMA TailWaits ==
  ASSUME NEW S, NEW q \in Seq(S), q # <<>>, NEW t
  PROVE  /\ Tail(q) \in Seq(S)
         /\ Waits(q, t) <=> Head(q).type = t \/ Waits(Tail(q), t)
  <1>1. /\ Tail(q) \in Seq(S) /\ Len(q) \in Nat /\ Len(q) > 0 /\ Len(Tail(q)) = Len(q) - 1
        /\ \A i \in 1 .. Len(Tail(q)) : Tail(q)[i] = q[i + 1]
        /\ Head(q) = q[1]
    OBVIOUS
  <1>2. Waits(Tail(q), t) => Waits(q, t)
    BY <1>1 DEF Waits
  <1>3. Waits(q, t) => Head(q).type = t \/ Waits(Tail(q), t)
    <2>1. SUFFICES ASSUME NEW i \in 1 .. Len(q), q[i].type = t, i # 1
                   PROVE  Waits(Tail(q), t)
      BY <1>1 DEF Waits
    <2>2. i - 1 \in 1 .. Len(Tail(q)) /\ Tail(q)[i - 1] = q[i]
      BY <1>1, <2>1
    <2> QED
      BY <2>1, <2>2 DEF Waits
  <1>4. Head(q).type = t => Waits(q, t)
    <2>1. 1 \in 1 .. Len(q)
      BY <1>1
    <2> QED
      BY <1>1, <2>1 DEF Waits
  <1> QED
    BY <1>1, <1>2, <1>3, <1>4

\* EC2 adds a notification.
LEMMA NotifyNews ==
  ASSUME Data, NEW s, Notify(s), NEW t
  PROVE  News(notif', t) <=> News(notif, t) \/ s = t
  <1> DEFINE n == [about |-> "ec2", status |-> s, id |-> 0]
  <1>1. notif' = Append(notif, n) /\ n.about = "ec2" /\ n.status = s
    BY DEF Notify
  <1> HIDE DEF n
  <1>2. /\ Len(notif') = Len(notif) + 1 /\ Len(notif) \in Nat /\ notif'[Len(notif) + 1] = n
        /\ \A i \in 1 .. Len(notif) : notif'[i] = notif[i]
    BY <1>1 DEF Data
  <1> QED
    BY <1>1, <1>2 DEF News

\* The monitor takes one notification and leaves the others.
LEMMA RouteNews ==
  ASSUME Data, NEW i \in 1 .. Len(notif), Route(i), NEW t, News(notif, t)
  PROVE  News(notif', t) \/ (notif[i].about = "ec2" /\ notif[i].status = t)
  <1>1. SUFFICES ASSUME NEW j \in 1 .. Len(notif), j # i, notif[j].about = "ec2",
                        notif[j].status = t
                 PROVE  News(notif', t)
    BY DEF News
  <1>2. notif \in Seq(Notifications) /\ Len(notif) \in Nat
    BY DEF Data
  <1>3. /\ \A k \in 1 .. i - 1 : notif[k] \in Notifications
        /\ \A k \in i + 1 .. Len(notif) : notif[k] \in Notifications
    BY <1>2
  <1>4. PICK p : p = SubSeq(notif, 1, i - 1)
    OBVIOUS
  <1>5. PICK r : r = SubSeq(notif, i + 1, Len(notif))
    OBVIOUS
  <1>6. /\ p \in Seq(Notifications) /\ Len(p) = i - 1
        /\ \A k \in 1 .. i - 1 : p[k] = notif[k]
    BY <1>2, <1>3, <1>4, SubSeqProperties
  <1>7. /\ r \in Seq(Notifications) /\ Len(r) = Len(notif) - i
        /\ \A k \in 1 .. Len(notif) - i : r[k] = notif[i + k]
    <2>1. \A k \in 1 .. Len(notif) - (i + 1) + 1 : r[k] = notif[i + 1 + k - 1]
      BY <1>2, <1>3, <1>5, SubSeqProperties
    <2>2. r \in Seq(Notifications) /\ Len(r) = IF i + 1 <= Len(notif) THEN Len(notif) - (i + 1) + 1 ELSE 0
      BY <1>2, <1>3, <1>5, SubSeqProperties
    <2>4. Len(r) = Len(notif) - i
      BY <1>2, <2>2
    <2>5. ASSUME NEW k \in 1 .. Len(notif) - i
          PROVE  r[k] = notif[i + k]
      <3>1. k \in 1 .. Len(notif) - (i + 1) + 1 /\ i + 1 + k - 1 = i + k
        BY <1>2
      <3>2. r[k] = notif[i + 1 + k - 1]
        BY <2>1, <3>1
      <3> QED
        BY <3>1, <3>2
    <2> QED
      BY <2>2, <2>4, <2>5
  <1>8. notif' = p \o r
    BY <1>4, <1>5 DEF Route
  <1>9. /\ Len(notif') = Len(notif) - 1
        /\ \A k \in 1 .. Len(notif) - 1 : notif'[k] = IF k <= i - 1 THEN p[k] ELSE r[k - (i - 1)]
    <2>1. Len(p) + Len(r) = Len(notif) - 1
      BY <1>2, <1>6, <1>7
    <2>2. /\ Len(p \o r) = Len(p) + Len(r)
          /\ \A k \in 1 .. Len(p) + Len(r) : (p \o r)[k] = IF k <= Len(p) THEN p[k] ELSE r[k - Len(p)]
      BY <1>6, <1>7, ConcatProperties
    <2> QED
      BY <1>6, <1>8, <2>1, <2>2
  <1>10. CASE j < i
    <2>1. j \in 1 .. Len(notif') /\ notif'[j] = notif[j]
      BY <1>2, <1>6, <1>9, <1>10
    <2> QED
      BY <1>1, <2>1 DEF News
  <1>11. CASE j > i
    <2>1. j - 1 \in 1 .. Len(notif') /\ notif'[j - 1] = notif[j]
      BY <1>2, <1>7, <1>9, <1>11
    <2> QED
      BY <1>1, <2>1 DEF News
  <1> QED
    BY <1>1, <1>2, <1>10, <1>11

\* An operation that returns takes its own event out of the queue, if it has one,
\* and adds the event it publishes.
LEMMA ReturnWaits ==
  ASSUME Control, SerialInv, NEW a \in Actors, act[a].op # "idle",
         NEW e, e = NoEvent \/ e \in Events, Return(a, e), NEW t
  PROVE  /\ Waits(queue, t) /\ t # EventOf(job.op) => Waits(queue', t)
         /\ e.type = t /\ e # NoEvent /\ t \notin recent => Waits(queue', t)
         /\ Waits(queue', t) => Waits(queue, t) \/ e.type = t
  <1>1. CASE a = Handler
    <2>1. queue \in Seq(Events) /\ queue # <<>> /\ Head(queue).type = EventOf(job.op)
      BY <1>1, JobOf DEF Control, Held, SerialInv, JobInv
    <2>2. Tail(queue) \in Seq(Events) /\ Send(Tail(queue), e)
      BY <1>1, <2>1, TailWaits DEF Return
    <2> QED
      BY <2>1, <2>2, SendWaits, TailWaits
  <1>2. CASE a # Handler
    <2>1. queue \in Seq(Events) /\ Send(queue, e)
      BY <1>2 DEF Control, Return
    <2> QED
      BY <2>1, SendWaits
  <1> QED
    BY <1>1, <1>2

\* So does a handler that returns at once.
LEMMA DropWaits ==
  ASSUME Control, NEW r, Receives(r), NEW e, e = NoEvent \/ e \in Events,
         Return(Handler, e), NEW t
  PROVE  /\ Waits(queue, t) /\ t # r => Waits(queue', t)
         /\ e.type = t /\ e # NoEvent /\ t \notin recent => Waits(queue', t)
         /\ Waits(queue', t) => Waits(queue, t) \/ e.type = t
  <1>1. queue \in Seq(Events) /\ queue # <<>> /\ Head(queue).type = r
    BY DEF Control, Receives
  <1>2. Tail(queue) \in Seq(Events) /\ Send(Tail(queue), e)
    BY <1>1, TailWaits DEF Return
  <1> QED
    BY <1>1, <1>2, SendWaits, TailWaits

-----------------------------------------------------------------------------
(* As long as nothing failed *)

\* The operation is at this step.
Busy(op, pc) == job.op = op /\ job.pc = pc

\* A session that has a row, or is about to get one, has its host, until
\* terminate_sessions releases the host and deletes the row next.
HostInv ==
    row.state # "NONE" \/ job.op = "create" =>
        \/ server # "NONE" /\ ec2 \notin {"none", "terminated"}
        \/ Busy("terminate", "delete")

\* The instance goes down, or the handler is going to hear of it.
Down ==
    \/ ec2 = "stopping" \/ News(notif, "stopping") \/ News(notif, "stopped")
    \/ Waits(queue, "EC2_STOPPING") \/ Waits(queue, "EC2_STOPPED")

\* What CreationIsDriven says, and what it says of a row that is about to be
\* written.
CreationInv ==
    /\ row.state = "INITIALIZING" \/ Busy("resume_success", "write") =>
          Waits(queue, "VALIDATE_CREATION") \/ Busy("ready", "publish")
    /\ row.state \in {"PROVISIONING", "CREATING"} \/ job.op = "create" =>
          \/ host = "first" \/ Waits(queue, "HOST_READY") \/ Down
          \/ Busy("terminate", "delete")

\* What DeletionIsDriven says.
DeletionInv ==
    ~DedupWindow =>
        /\ recent = {}
        /\ row.state = "DELETING" =>
              Waits(queue, "VALIDATE_DELETION") \/ Busy("terminate", "publish")

Driven == HostInv /\ CreationInv /\ DeletionInv
FaultlessInv == budget.faults = 0 => Driven

\* Faults are counted and never forgotten.
LEMMA FaultsStay ==
  ASSUME Data, Next, budget'.faults = 0
  PROVE  budget.faults = 0 /\ \A a \in Actors : ~Fail(a)
  <1>0. budget \in Budgets
    BY DEF Data
  <1>1. ASSUME NEW a \in ApiWorkers, Request(a)
        PROVE  UNCHANGED budget \/ Call
    BY <1>1 DEF Request, CreateProvision, ApiResume, ApiStop, ApiReboot, ApiTerminate
  <1>2. ASSUME NEW a \in Actors, Step(a)
        PROVE  UNCHANGED budget
    BY <1>2
       DEF Step, CreateWrite, StopRead, BrokerDelete, StopWrite, PublishDeletion,
           ResumeRead,
                ResumeHost, ResumeWrite, RebootWrite, RebootHost, TerminateRead, TerminateWrite,
                TerminateStoppedHost, TerminateDelete
  <1>3. ASSUME NEW a \in Actors, Fail(a)
        PROVE  FALSE
    BY <1>3, FaultTyped DEF Fail
  <1>4. CASE Handle
    <2>1. ASSUME HandleHostReady \/ ReadyCreate \/ ReadyPublish \/ HandleRebootComplete
                 \/ HandleRebootCompleteByController \/ RebootedDescribe \/ RebootedResume
                 \/ RebootedRecord \/ ReadyWrite
          PROVE  UNCHANGED budget
      BY <2>1
         DEF HandleHostReady, ReadyCreate, ReadyPublish, HandleRebootComplete,
             HandleRebootCompleteByController, RebootedDescribe, RebootedResume,
             RebootedRecord, ReadyWrite, Outside
    <2>2. ASSUME HandleEc2Stopping \/ HandleEc2Stopped \/ HandleEc2Running \/ Ec2StopWrite
                 \/ HandleValidateCreation \/ ValidateCreationDescribe \/ HandleValidateDeletion
                 \/ ValidateDeletionDescribe \/ ContinueDelete \/ ContinueDeleteHost \/ ContinueStop
          PROVE  UNCHANGED budget
      BY <2>2
         DEF HandleEc2Stopping, HandleEc2Stopped, HandleEc2Running, HandleValidateCreation,
             ValidateCreationDescribe, HandleValidateDeletion, ValidateDeletionDescribe,
             ContinueDelete, ContinueDeleteHost, ContinueStop, Ec2StopWrite, Outside
    <2>3. ASSUME HandleScheduledResume \/ HandleScheduledStop \/ CpuRecord \/ HandleCpuSuccess
                 \/ HandleCpuOther \/ HandleTerminate \/ HandleResumeSuccess
                 \/ ResumeSuccessPublish \/ HandleResumeFailed \/ HandleResumeOther
                 \/ ResumeStatusWrite
          PROVE  UNCHANGED budget
      BY <2>3
         DEF HandleScheduledResume, HandleScheduledStop, CpuRecord, HandleCpuSuccess,
             HandleCpuOther, HandleTerminate, HandleResumeSuccess, ResumeSuccessPublish,
             HandleResumeFailed, HandleResumeOther, ResumeStatusWrite, Outside
    <2>4. ASSUME ValidateCreationWrite
          PROVE  UNCHANGED budget
      BY <2>4 DEF ValidateCreationWrite, Outside
    <2>5. UNCHANGED budget
      BY <1>4, <2>1, <2>2, <2>3, <2>4 DEF Handle
    <2> QED
      BY <2>5, FaultTyped DEF Fail
  <1>5. CASE Environment
    BY <1>5, FaultTyped DEF Environment, Routes, Route, Ec2Settles, HostUp, BrokerWorks,
                BrokerNotices, Commands, CommandEnds, Fail
  <1>6. CASE Outage \/ TriggerSchedule \/ UserDisabled \/ DedupExpires
    BY <1>0, <1>6, CallTyped, FaultTyped
       DEF Outage, TriggerSchedule, UserDisabled, DedupExpires, Fail, Budgets
  <1> QED
    BY <1>1, <1>2, <1>3, <1>4, <1>5, <1>6, CallTyped, FaultTyped DEF Next, Fail


\* Requests do not disturb it.
LEMMA RequestDriven ==
  ASSUME Control, Data, FreshInv, Serial, SerialInv, Driven, NEW a \in ApiWorkers, Request(a)
  PROVE  Driven'
  <1>0. a \in Actors /\ AloneInv /\ (CanStart(a) => job = Idle)
    BY ApiIsActor, JobStarts DEF SerialInv
  <1>1. CASE CreateProvision(a)
    <2>1. row.state = "NONE" /\ CanStart(a) /\ Begin(a, "create", "write", NoRow, FALSE)
      BY <1>1 DEF CreateProvision, FreshInv, Fresh
    <2>2. job' = [op |-> "create", pc |-> "write", snap |-> NoRow, force |-> FALSE, res |-> "NONE"]
      BY <1>0, <2>1, JobBegins
    <2>3. job'.op = "create" /\ job'.pc = "write"
      BY <2>2
    <2> QED
      BY <1>1, <2>1, <2>3
         DEF CreateProvision, Stay, Driven, HostInv, CreationInv, DeletionInv, Busy
  <1>2. ASSUME NEW op \in {"resume", "stop", "reboot", "terminate"}, NEW pc \in {"call",
               "write", "host"},
               NEW force, Begin(a, op, pc, row, force), CanStart(a),
               Stay, UNCHANGED <<db, world, notif>>
        PROVE  Driven'
    <2>1. job'.op = op /\ job'.pc = pc /\ job.op = "idle"
      BY <1>0, <1>2, JobBegins DEF Idle
    <2> QED
      BY <1>2, <2>1
         DEF db, world, Stay, Driven, HostInv, CreationInv, DeletionInv, Busy, Down
  <1>3. CASE ApiResume(a)
    BY <1>2, <1>3 DEF ApiResume, ResumeStart
  <1>4. ASSUME NEW force \in BOOLEAN, ApiStop(a, force) \/ ApiReboot(a,
               force) \/ ApiTerminate(a, force)
        PROVE  Driven'
    BY <1>2, <1>4 DEF ApiStop, StopStart, ApiReboot, ApiTerminate, TerminateStart
  <1> QED
    BY <1>1, <1>3, <1>4 DEF Request

\* Neither do the steps of operations.
LEMMA StepDriven ==
  ASSUME Control, Data, FreshInv, Serial, SerialInv, Driven, NEW a \in Actors, Step(a)
  PROVE  Driven'
  <1>0. /\ AloneInv /\ JobInv /\ job \in ActorStates
        /\ act[a].op # "idle" => job = act[a]
    BY JobOf, JobTyped DEF SerialInv
  <1>1. CASE CreateWrite(a)
    <2>1. /\ job.op = "create" /\ job'.op = "idle" /\ act[a].op # "idle" /\ Return(a, NoEvent)
          /\ Send(queue, NoEvent)
      BY <1>0, <1>1, JobReturns DEF CreateWrite, At, Return, JobInv, ApiOps, handling
    <2>2. queue' = queue /\ recent' = recent
      BY <2>1 DEF Send, NoEvent, Undated
    <2> QED
      BY <1>1, <2>1, <2>2
         DEF CreateWrite, world, Driven, HostInv, CreationInv, DeletionInv, Busy, Down
  <1>2. CASE StopRead(a)
    <2>1. job.op = "stop" /\ job'.op \in {"idle", "stop"} /\ UNCHANGED <<queue, recent>>
      BY <1>0, <1>2, JobBegins, JobRaises DEF StopRead, StopStart, At, Raise, Stay
    <2> QED
      BY <1>2, <2>1
         DEF StopRead, db, world, Driven, HostInv, CreationInv, DeletionInv, Busy, Down
  <1>3. CASE BrokerDelete(a)
    <2>1. /\ job.pc = "call" /\ job.op \in {"stop", "terminate"} /\ UNCHANGED <<queue, recent, ec2, host>>
          /\ job'.pc \in {"write", "idle"} /\ job'.op \in {job.op, "idle"}
      BY <1>0, <1>3, JobGoes, JobRaises
         DEF BrokerDelete, DeleteDcvSession, At, Raise, Stay, world
    <2> QED
      BY <1>3, <2>1
         DEF BrokerDelete, db, Driven, HostInv, CreationInv, DeletionInv, Busy, Down
  <1>4. CASE StopWrite(a)
    <2>1. /\ job.op = "stop" /\ job.pc = "write" /\ row'.state = "STOPPING" /\ job'.op \in {"stop", "idle"}
          /\ row.state # "NONE" /\ server # "NONE" => server' # "NONE"
          /\ ec2' \in {ec2, "stopping"}
      <3>1. row'.state = "STOPPING"
        BY <1>0, <1>4, MovedTyped DEF StopWrite, Update, SessionStates
      <3>2. job.op = "stop" /\ job.pc = "write" /\ job'.op \in {"stop", "idle"}
        BY <1>0, <1>4, JobGoes, JobRaises, JobReturns DEF StopWrite, At
      <3> QED
        BY <1>4, <3>1, <3>2 DEF StopWrite, StopHost, world
    <2>2. ~DedupWindow /\ recent = {} => recent' = {}
      BY <1>4 DEF StopWrite, Stay, Raise, Return, Send
    <2>3. row.state # "NONE"
      BY <2>1, RowIsThere
    <2> QED
      BY <2>1, <2>2, <2>3 DEF Driven, HostInv, CreationInv, DeletionInv, Busy
  <1>5. CASE PublishDeletion(a)
    <2>1. /\ job.op \in {"stop", "terminate"} /\ job.pc = "publish" /\ job'.op = "idle"
          /\ act[a].op # "idle" /\ Return(a, Event("VALIDATE_DELETION"))
      BY <1>0, <1>5, JobReturns DEF PublishDeletion, At
    <2>2. row.state \in {"STOPPING", "DELETING"}
      BY <1>0, <2>1 DEF JobInv, Found, ActorStates, Rows
    <2>3. Event("VALIDATE_DELETION") \in Events /\ Event("VALIDATE_DELETION") # NoEvent
          /\ Event("VALIDATE_DELETION").type = "VALIDATE_DELETION"
      BY DEF Event, Events, EventTypes, Undated, NoEvent
    <2>4. ~DedupWindow /\ recent = {} => recent' = {} /\ Waits(queue', "VALIDATE_DELETION")
      BY <2>1, <2>3, ReturnWaits DEF Return, Send
    <2> QED
      BY <1>5, <2>1, <2>2, <2>4
         DEF PublishDeletion, db, world, Driven, HostInv, CreationInv, DeletionInv, Busy
  <1>6. CASE ResumeRead(a)
    <2>1. job.op = "resume" /\ job'.op \in {"idle", "resume"} /\ UNCHANGED <<queue, recent>>
      BY <1>0, <1>6, JobBegins, JobRaises DEF ResumeRead, ResumeStart, At, Raise, Stay
    <2> QED
      BY <1>6, <2>1
         DEF ResumeRead, db, world, Driven, HostInv, CreationInv, DeletionInv, Busy, Down
  <1>7. CASE ResumeHost(a)
    <2>1. /\ job.op = "resume" /\ job.pc = "call" /\ job'.op \in {"idle", "resume"}
          /\ UNCHANGED <<queue, recent>>
      BY <1>0, <1>7, JobGoes, JobRaises DEF ResumeHost, At, Raise, Stay
    <2>2. row.state = "STOPPED"
      BY <1>0, <2>1 DEF JobInv, Begun, Found
    <2>3. ec2' \in {ec2, "pending"}
      BY <1>7 DEF ResumeHost, StartHost, world
    <2> QED
      BY <1>7, <2>1, <2>2, <2>3
         DEF ResumeHost, db, Driven, HostInv, CreationInv, DeletionInv, Busy
  <1>8. CASE ResumeWrite(a)
    <2>1. /\ job.op = "resume" /\ job.pc = "write" /\ job'.op = "idle" /\ row'.state = "RESUMING"
      BY <1>0, <1>8, JobReturns, JobRaises, MovedTyped
         DEF ResumeWrite, Update, At, SessionStates
    <2>2. row.state # "NONE"
      BY <2>1, RowIsThere
    <2>3. ~DedupWindow /\ recent = {} => recent' = {}
      BY <1>8 DEF ResumeWrite, Raise, Return, Send
    <2> QED
      BY <1>8, <2>1, <2>2, <2>3
         DEF ResumeWrite, world, Driven, HostInv, CreationInv, DeletionInv, Busy
  <1>9. CASE RebootWrite(a)
    <2>1. /\ job.op = "reboot" /\ job.pc = "write" /\ job'.op \in {"idle", "reboot"} /\ row'.state = "RESUMING"
          /\ UNCHANGED <<queue, recent>>
      BY <1>0, <1>9, JobGoes, JobRaises, MovedTyped
         DEF RebootWrite, Update, At, SessionStates, Raise, Stay
    <2>2. row.state # "NONE"
      BY <2>1, RowIsThere
    <2> QED
      BY <1>9, <2>1, <2>2
         DEF RebootWrite, world, Driven, HostInv, CreationInv, DeletionInv, Busy
  <1>10. CASE RebootHost(a)
    <2>1. job.op = "reboot" /\ job.pc = "host" /\ job'.op = "idle"
      BY <1>0, <1>10, JobReturns DEF RebootHost, At
    <2>2. row.state = "RESUMING"
      BY <1>0, <2>1 DEF JobInv, Found, ActorStates, Rows
    <2>3. ~DedupWindow /\ recent = {} => recent' = {}
      BY <1>10 DEF RebootHost, Return, Send
    <2> QED
      BY <1>10, <2>1, <2>2, <2>3
         DEF RebootHost, db, world, Driven, HostInv, CreationInv, DeletionInv, Busy
  <1>11. CASE TerminateRead(a)
    <2>1. /\ job.op = "terminate" /\ job.pc = "read" /\ job'.op \in {"idle", "terminate"}
          /\ UNCHANGED <<queue, recent>>
      BY <1>0, <1>11, JobBegins, JobRaises
         DEF TerminateRead, TerminateStart, At, Raise, Stay
    <2> QED
      BY <1>11, <2>1
         DEF TerminateRead, db, world, Driven, HostInv, CreationInv, DeletionInv, Busy,
             Down
  <1>12. CASE TerminateWrite(a)
    <2>1. job.op = "terminate" /\ job.pc = "write" /\ row'.state = "DELETING"
      BY <1>0, <1>12, MovedTyped DEF TerminateWrite, Update, At, SessionStates
    <2>2. row.state # "NONE"
      BY <2>1, RowIsThere
    <2>3. job'.op = "terminate" /\ job'.pc = "publish" /\ UNCHANGED <<queue, recent>>
      BY <1>0, <1>12, <2>1, <2>2, JobGoes DEF TerminateWrite, UpdateRaises, Stay, At
    <2> QED
      BY <1>12, <2>1, <2>2, <2>3
         DEF TerminateWrite, world, Driven, HostInv, CreationInv, DeletionInv, Busy
  <1>13. CASE TerminateStoppedHost(a)
    <2>1. job.op = "terminate" /\ job.pc = "host"
      BY <1>0, <1>13 DEF TerminateStoppedHost, At
    <2>2. row.state # "NONE"
      BY <2>1, RowIsThere
    <2>3. server # "NONE"
      BY <2>1, <2>2 DEF Driven, HostInv, Busy
    <2>4. job'.op = "terminate" /\ job'.pc = "delete" /\ UNCHANGED <<queue, recent>>
      BY <1>0, <1>13, <2>1, <2>3, JobGoes
         DEF TerminateStoppedHost, TerminateRaises, Stay, At
    <2> QED
      BY <1>13, <2>1, <2>2, <2>4
         DEF TerminateStoppedHost, Driven, HostInv, CreationInv, DeletionInv, Busy
  <1>14. CASE TerminateDelete(a)
    <2>1. job.op = "terminate" /\ job'.op = "idle" /\ row'.state = "NONE"
      BY <1>0, <1>14, JobReturns, JobRaises, NoRowTyped DEF TerminateDelete, At
    <2>2. ~DedupWindow /\ recent = {} => recent' = {}
      BY <1>14 DEF TerminateDelete, Raise, Return, Send
    <2> QED
      BY <1>14, <2>1, <2>2 DEF Driven, HostInv, CreationInv, DeletionInv, Busy
  <1> QED
    BY <1>1, <1>2, <1>3, <1>4, <1>5, <1>6, <1>7, <1>8, <1>9, <1>10, <1>11, <1>12, <1>13, <1>14
       DEF Step

\* An event the session publishes is an event, and is not the absence of one.
LEMMA EventIsEvent ==
  ASSUME NEW t \in EventTypes
  PROVE  Event(t) \in Events /\ Event(t) # NoEvent /\ Event(t).type = t
  BY DEF Event, Events, EventTypes, Undated, NoEvent

\* Without the window SQS remembers nothing.
LEMMA SendForgets ==
  ASSUME ~DedupWindow, recent = {}, NEW q, NEW e, Send(q, e)
  PROVE  recent' = {}
  BY DEF Send

\* A handler begins.
LEMMA StartDriven ==
  ASSUME Control, Serial, SerialInv, Driven, NEW r, Receives(r),
         NEW op \in Ops \ {"idle", "create"}, NEW pc, NEW snap, NEW force,
         Begin(Handler, op, pc, snap, force), op = "resume_success" => pc = "publish",
         Stay, UNCHANGED <<row, server, ec2, host, notif>>
  PROVE  Driven'
  <1>1. job'.op = op /\ job'.pc = pc /\ job.op = "idle"
    BY JobBegins, JobReceives, HandlerIsActor DEF SerialInv, Idle
  <1> QED
    BY <1>1 DEF Stay, Driven, HostInv, CreationInv, DeletionInv, Busy, Down

\* A handler begins with the row it read.
LEMMA RunDriven ==
  ASSUME Control, Serial, SerialInv, Driven, NEW r, Receives(r),
         NEW op \in Ops \ {"idle", "create"}, NEW pc, Run(op, pc), op = "resume_success" => pc = "publish",
         UNCHANGED <<row, server, ec2, host, notif>>
  PROVE  Driven'
  <1>1. Begin(Handler, op, pc, row, FALSE) /\ Stay
    BY DEF Run
  <1> QED
    BY <1>1, StartDriven

\* A handler returns at once.
LEMMA DropDriven ==
  ASSUME Control, Serial, SerialInv, Driven, NEW r, Receives(r),
         NEW e, e = NoEvent \/ e \in Events, Return(Handler, e),
         UNCHANGED <<row, ec2, host, notif>>, server' = "NONE" => server = "NONE",
         r = "VALIDATE_CREATION" => row.state # "INITIALIZING",
         r \in {"HOST_READY", "EC2_STOPPING", "EC2_STOPPED"} =>
            row.state \notin {"PROVISIONING", "CREATING"},
         r = "VALIDATE_DELETION" => row.state # "DELETING"
  PROVE  Driven'
  <1>1. job'.op = "idle" /\ job.op = "idle"
    BY JobReturns, JobReceives, HandlerIsActor DEF SerialInv, Idle
  <1>2. \A t : t # r /\ Waits(queue, t) => Waits(queue', t)
    BY DropWaits
  <1>3. ~DedupWindow /\ recent = {} => recent' = {}
    BY SendForgets DEF Return
  <1> QED
    BY <1>1, <1>2, <1>3 DEF Driven, HostInv, CreationInv, DeletionInv, Busy, Down

\* A handler that has nothing to do deletes its message.
LEMMA IgnoreDriven ==
  ASSUME Control, Serial, SerialInv, Driven, NEW r, Receives(r), Ignore,
         UNCHANGED <<row, server, ec2, host, notif>>,
         r = "VALIDATE_CREATION" => row.state # "INITIALIZING",
         r \in {"HOST_READY", "EC2_STOPPING", "EC2_STOPPED"} =>
            row.state \notin {"PROVISIONING", "CREATING"},
         r = "VALIDATE_DELETION" => row.state # "DELETING"
  PROVE  Driven'
  <1>1. Return(Handler, NoEvent) /\ (server' = "NONE" => server = "NONE")
    BY DEF Ignore
  <1> QED
    BY <1>1, DropDriven

\* An operation goes on, or gives up and leaves its message.
LEMMA KeepDriven ==
  ASSUME Driven, job.op \notin {"idle", "create", "terminate"},
         job.op = "ready" => job.pc # "publish",
         job'.op \in {job.op, "idle"}, job'.op = "resume_success" => job'.pc = "publish",
         UNCHANGED <<queue, recent, row, ec2, host, notif>>, server' = "NONE" => server = "NONE"
  PROVE  Driven'
  BY DEF Driven, HostInv, CreationInv, DeletionInv, Busy, Down

\* The row gets into a state that needs nothing to be driven.
LEMMA PlainDriven ==
  ASSUME Driven, job.op \notin {"idle", "create", "terminate"},
         job'.op \in {job.op, "idle"}, job'.op # "resume_success",
         row'.state \in {"READY", "ERROR", "STOPPING", "STOPPED", "RESUMING"},
         row.state # "NONE",
         ~DedupWindow /\ recent = {} => recent' = {},
         ec2' \in {ec2, "stopping"}, server' = "NONE" => server = "NONE"
  PROVE  Driven'
  BY DEF Driven, HostInv, CreationInv, DeletionInv, Busy

\* What a validation writes and whether it asks to be called again.
LEMMA ValidationEffect ==
  ASSUME Control, Data, Serial, SerialInv, ValidateCreationWrite
  PROVE  /\ row.state # "NONE" /\ row = job.snap
         /\ \/ Ignore /\ row' = Moved(Handler, "READY") /\ row'.state = "READY" /\ job.res = "READY"
            \/ Ignore /\ row' = Moved(Handler, "ERROR") /\ row'.state = "ERROR"
            \/ Ignore /\ row' = row /\ row.state = "STOPPING"
            \/ Raise(Handler) /\ row'.state = "INITIALIZING" /\ row'.dcv = row.dcv
  <1>1. /\ job = act[Handler] /\ job.op = "validate_creation" /\ job.pc = "write"
        /\ JobInv /\ job \in ActorStates
    BY JobAt, JobTyped, HandlerIsActor DEF ValidateCreationWrite, SerialInv
  <1>2. row = job.snap
    BY <1>1 DEF JobInv, Found
  <1>3. row.state # "NONE"
    BY <1>1, RowIsThere
  <1>4. \A s \in {"READY", "ERROR", "INITIALIZING"} :
           Moved(Handler, s).state = s /\ Moved(Handler, s).dcv = row.dcv
    BY <1>1, <1>2 DEF Moved, ActorStates, Rows
  <1> DEFINE outcome == ValidationOutcome(act[Handler].res, act[Handler].snap.state, counters.validation)
  <1>5. /\ outcome \in {"READY", "ERROR", "IGNORE", "RETRY"}
        /\ outcome = "READY" => job.res = "READY"
        /\ outcome = "IGNORE" => row.state = "STOPPING"
    BY <1>1, <1>2 DEF ValidationOutcome
  <1> HIDE DEF outcome
  <1>6. CASE outcome = "READY"
    BY <1>2, <1>3, <1>4, <1>5, <1>6 DEF ValidateCreationWrite, outcome, Update, UpdateRaises
  <1>7. CASE outcome = "ERROR"
    BY <1>2, <1>3, <1>4, <1>7 DEF ValidateCreationWrite, outcome, Update, UpdateRaises
  <1>8. CASE outcome = "IGNORE"
    BY <1>2, <1>3, <1>5, <1>8 DEF ValidateCreationWrite, outcome
  <1>9. CASE outcome = "RETRY"
    BY <1>1, <1>2, <1>3, <1>4, <1>9 DEF ValidateCreationWrite, outcome, Update
  <1> QED
    BY <1>5, <1>6, <1>7, <1>8, <1>9

\* Neither do the event handlers.
LEMMA HandleDriven ==
  ASSUME Control, Data, ReleasedInv, Serial, SerialInv, Driven, Handle
  PROVE  Driven'
  <1>0. /\ AloneInv /\ JobInv /\ job \in ActorStates /\ Handler \in Actors
        /\ act[Handler].op # "idle" =>
              job = act[Handler] /\ queue # <<>> /\ Head(queue).type = EventOf(job.op)
    BY JobOf, JobTyped, HandlerIsActor DEF SerialInv, JobInv, Control, Held
  <1>1. CASE HandleHostReady
    BY <1>1, RunDriven, IgnoreDriven DEF HandleHostReady, db, Outside, world, Ops
  <1>2. CASE ReadyCreate
    <2>1. PICK r : act' = [act EXCEPT ![Handler] = [act[Handler] EXCEPT !.pc = "write", !.res = r]]
      BY <1>2 DEF ReadyCreate
    <2>2. PICK s : s = [act[Handler] EXCEPT !.pc = "write", !.res = r]
      OBVIOUS
    <2>3. job = act[Handler] /\ job.op = "ready" /\ job.pc = "call"
      BY <1>0, <1>2 DEF ReadyCreate, At
    <2>4. s.op = "ready"
      BY <1>0, <2>2, <2>3 DEF ActorStates
    <2>5. job' = s
      BY <1>0, <2>1, <2>2, <2>3, <2>4, JobMoves DEF AloneInv
    <2> QED
      BY <1>2, <2>3, <2>4, <2>5, KeepDriven DEF ReadyCreate, Stay, db
  <1>3. CASE ReadyWrite
    <2>1. job = act[Handler] /\ job.op = "ready" /\ job.pc = "write" /\ act[Handler].op # "idle"
      BY <1>0, <1>3 DEF ReadyWrite, At
    <2>2. row.state # "NONE" /\ row.state \in {"PROVISIONING", "CREATING"}
      BY <1>0, <2>1 DEF JobInv, Begun, Found
    <2>3. Waits(queue, "HOST_READY")
      BY <1>0, <2>1, TailWaits DEF EventOf, Control
    <2>4. CASE act[Handler].res = "CREATING"
      <3>1. job'.op = "ready" /\ job'.pc = "publish" /\ UNCHANGED <<queue, recent>> /\ row'.state = "INITIALIZING"
        BY <1>0, <1>3, <2>1, <2>2, <2>4, JobGoes DEF ReadyWrite, Update, UpdateRaises, Stay
      <3> QED
        BY <1>3, <2>1, <2>2, <3>1
           DEF ReadyWrite, Outside, world, Driven, HostInv, CreationInv, DeletionInv,
               Busy
    <2>5. CASE act[Handler].res # "CREATING" /\ counters.creation < SESSION_CREATION_THRESHOLD_COUNT
      <3>1. job'.op = "idle" /\ UNCHANGED <<queue, recent>> /\ row'.state \in {"PROVISIONING", "CREATING"}
        BY <1>0, <1>3, <2>1, <2>2, <2>5, JobRaises, MovedTyped
           DEF ReadyWrite, Update, Raise, SessionStates
      <3> QED
        BY <1>3, <2>1, <2>2, <2>3, <3>1
           DEF ReadyWrite, Outside, world, Driven, HostInv, CreationInv, DeletionInv,
               Busy
    <2>6. CASE act[Handler].res # "CREATING" /\ ~(counters.creation < SESSION_CREATION_THRESHOLD_COUNT)
      <3>1. row'.state = "ERROR" /\ Return(Handler, NoEvent)
        BY <1>3, <2>2, <2>6 DEF ReadyWrite, Update, UpdateRaises, Ignore
      <3>2. job'.op = "idle"
        BY <1>0, <2>1, <3>1, JobReturns
      <3>3. ~DedupWindow /\ recent = {} => recent' = {}
        BY <3>1, SendForgets DEF Return
      <3> QED
        BY <1>3, <2>1, <2>2, <3>1, <3>2, <3>3, PlainDriven DEF ReadyWrite, Outside, world
    <2> QED
      BY <2>4, <2>5, <2>6
  <1>4. CASE ReadyPublish
    <2>1. job.op = "ready" /\ job.pc = "publish" /\ act[Handler].op # "idle" /\ Return(Handler, Event("VALIDATE_CREATION"))
      BY <1>0, <1>4 DEF ReadyPublish, At
    <2>2. job'.op = "idle" /\ row.state = "INITIALIZING"
      BY <1>0, <2>1, JobReturns DEF JobInv, Found
    <2>3. "VALIDATE_CREATION" \notin recent /\ "VALIDATE_CREATION" \in EventTypes
      BY DEF Control, Undated, EventTypes
    <2>4. Waits(queue', "VALIDATE_CREATION")
      BY <1>0, <2>1, <2>3, EventIsEvent, ReturnWaits
    <2>5. ~DedupWindow /\ recent = {} => recent' = {}
      BY <2>1, SendForgets DEF Return
    <2> QED
      BY <1>4, <2>1, <2>2, <2>4, <2>5
         DEF ReadyPublish, Outside, world, Driven, HostInv, CreationInv, DeletionInv,
             Busy
  <1>5. CASE HandleRebootComplete
    BY <1>5, RunDriven, IgnoreDriven DEF HandleRebootComplete, db, Outside, world, Ops
  <1>6. CASE HandleRebootCompleteByController \/ HandleCpuOther \/ HandleResumeOther
    BY <1>6, IgnoreDriven
       DEF HandleRebootCompleteByController, HandleCpuOther, HandleResumeOther, db, Outside, world
  <1>7. CASE RebootedDescribe \/ RebootedResume \/ RebootedRecord
    <2>1. /\ job.op = "rebooted" /\ job = act[Handler] /\ act[Handler].op # "idle"
          /\ row.state \in {"RESUMING", "READY", "ERROR", "STOPPED"}
      BY <1>0, <1>7, RebootedDescribeEffect
         DEF RebootedResume, RebootedRecord, At, JobInv, Begun, Found, Steps
    <2>2. Raise(Handler) \/ Ignore \/ (Stay /\ \E pc : Goto(Handler, pc))
      BY <1>7, RebootedDescribeEffect DEF RebootedResume, RebootedRecord
    <2>3. job'.op \in {"rebooted", "idle"}
      BY <1>0, <2>1, <2>2, JobRaises, JobReturns, JobGoes DEF Ignore
    <2>4. ~DedupWindow /\ recent = {} => recent' = {}
      BY <2>2, SendForgets DEF Ignore, Return, Raise, Stay
    <2>5. UNCHANGED <<row, ec2>> /\ (server' = "NONE" => server = "NONE")
      BY <1>7, RebootedDescribeEffect DEF RebootedResume, RebootedRecord, db, world, Outside
    <2> QED
      BY <2>1, <2>3, <2>4, <2>5, PlainDriven
  <1>8. CASE HandleEc2Stopping \/ HandleEc2Stopped
    BY <1>8, RunDriven, IgnoreDriven
       DEF HandleEc2Stopping, HandleEc2Stopped, db, Outside, world, Ops, StopIgnored
  <1>9. CASE Ec2StopWrite
    <2>1. /\ job.op \in {"ec2_stopping", "ec2_stopped"} /\ job.pc = "write" /\ job = act[Handler]
          /\ act[Handler].op # "idle"
      BY <1>0, <1>9 DEF Ec2StopWrite, At
    <2>2. row.state # "NONE"
      BY <2>1, RowIsThere
    <2>3. server # "NONE"
      BY <2>1, <2>2 DEF Driven, HostInv, Busy
    <2>4. /\ row'.state \in {"ERROR", "STOPPED", "STOPPING"} /\ Return(Handler, NoEvent)
          /\ server' # "NONE" /\ UNCHANGED ec2
      BY <1>0, <1>9, <2>2, <2>3, MovedTyped
         DEF Ec2StopWrite, Update, UpdateRaises, Ignore, SessionStates, Outside, world
    <2>5. ~DedupWindow /\ recent = {} => recent' = {}
      BY <2>4, SendForgets DEF Return
    <2>6. job'.op = "idle"
      BY <1>0, <2>1, <2>4, JobReturns
    <2> QED
      BY <2>1, <2>2, <2>4, <2>5, <2>6, PlainDriven
  <1>10. CASE HandleEc2Running
    <2> DEFINE e == IF Hibernation /\ row.state = "RESUMING"
                    THEN Event("REBOOT_COMPLETE_BY_CONTROLLER") ELSE NoEvent
    <2>1. e = NoEvent \/ e \in Events
      BY EventIsEvent DEF EventTypes, Undated
    <2>2. job.op = "idle" /\ Receives("EC2_RUNNING")
      BY <1>0, <1>10, JobReceives DEF HandleEc2Running, Idle
    <2>3. row.state = "NONE" \/ server # "NONE"
      BY <2>2 DEF Driven, HostInv, Busy
    <2>4. Return(Handler, e) /\ UNCHANGED <<row, ec2, host, notif>> /\ (server' = "NONE" => server = "NONE")
      BY <1>10, <2>3 DEF HandleEc2Running, Outside, world
    <2> HIDE DEF e
    <2> QED
      BY <2>1, <2>2, <2>4, DropDriven
  <1>11. CASE HandleValidateCreation
    BY <1>11, RunDriven, IgnoreDriven DEF HandleValidateCreation, Outside, world, Ops
  <1>12. CASE ValidateCreationDescribe
    <2>1. PICK s : s = [act[Handler] EXCEPT !.pc = "write", !.res = Described(Handler)]
      OBVIOUS
    <2>2. job = act[Handler] /\ job.op = "validate_creation" /\ act' = [act EXCEPT ![Handler] = s]
      BY <1>0, <1>12, <2>1 DEF ValidateCreationDescribe, At
    <2>3. s.op = "validate_creation"
      BY <1>0, <2>1, <2>2 DEF ActorStates
    <2>4. job' = s
      BY <1>0, <2>2, <2>3, JobMoves DEF AloneInv
    <2> QED
      BY <1>12, <2>2, <2>3, <2>4, KeepDriven
         DEF ValidateCreationDescribe, Stay, db, Outside, world
  <1>13. CASE ValidateCreationWrite
    <2>1. /\ job.op = "validate_creation" /\ job = act[Handler] /\ act[Handler].op # "idle"
          /\ UNCHANGED <<server, ec2, host, notif>>
      BY <1>0, <1>13, ValidateCreationWriteEffect DEF At, Outside, world
    <2>2. CASE Ignore /\ row'.state \in {"READY", "ERROR", "STOPPING"}
      <3>1. ~DedupWindow /\ recent = {} => recent' = {}
        BY <2>2, SendForgets DEF Ignore, Return
      <3>2. job'.op = "idle"
        BY <1>0, <2>1, <2>2, JobReturns DEF Ignore
      <3> QED
        BY <1>13, <2>1, <2>2, <3>1, <3>2, ValidationEffect, PlainDriven
    <2>3. CASE Raise(Handler) /\ row'.state = "INITIALIZING"
      <3>1. job'.op = "idle" /\ UNCHANGED <<queue, recent>>
        BY <1>0, <2>1, <2>3, JobRaises DEF Raise
      <3>2. Waits(queue, "VALIDATE_CREATION")
        BY <1>0, <2>1, TailWaits DEF EventOf, Control
      <3>3. row.state # "NONE"
        BY <1>13, ValidationEffect
      <3> QED
        BY <2>1, <2>3, <3>1, <3>2, <3>3 DEF Driven, HostInv, CreationInv, DeletionInv, Busy
    <2> QED
      BY <1>13, <2>2, <2>3, ValidationEffect
  <1>14. CASE HandleValidateDeletion
    BY <1>14, RunDriven, IgnoreDriven DEF HandleValidateDeletion, db, Outside, world, Ops
  <1>15. CASE ValidateDeletionDescribe
    <2>1. job.op = "validate_deletion" /\ job'.op \in {"validate_deletion", "idle"} /\ UNCHANGED <<queue, recent>>
      BY <1>0, <1>15, JobGoes, JobRaises DEF ValidateDeletionDescribe, At, Raise, Stay
    <2> QED
      BY <1>15, <2>1, KeepDriven DEF ValidateDeletionDescribe, db, Outside, world
  <1>16. CASE ContinueDelete
    <2>1. /\ job'.op \in {"validate_deletion", "idle"} /\ UNCHANGED recent
          /\ row'.state = "NONE"
      BY <1>0, <1>16, JobGoes, JobRaises, NoRowTyped DEF ContinueDelete, At, Raise, Stay
    <2> QED
      BY <2>1 DEF Driven, HostInv, CreationInv, DeletionInv, Busy
  <1>17. CASE ContinueDeleteHost
    <2>1. /\ job'.op = "idle" /\ row'.state = "NONE"
          /\ ~DedupWindow /\ recent = {} => recent' = {}
      <3>1. job.op = "validate_deletion" /\ job.pc = "host" /\ job.snap.state = "DELETING" /\ UNCHANGED row
        BY <1>0, <1>17 DEF ContinueDeleteHost, At
      <3>2. row.state = "NONE"
        BY <1>0, <3>1, NoRowTyped DEF JobInv, Found
      <3>3. ~DedupWindow /\ recent = {} => recent' = {}
        BY <1>17, SendForgets DEF ContinueDeleteHost, Ignore, Return, Raise
      <3> QED
        BY <1>0, <1>17, <3>1, <3>2, <3>3, JobReturns, JobRaises
           DEF ContinueDeleteHost, Ignore, At
    <2> QED
      BY <2>1 DEF Driven, HostInv, CreationInv, DeletionInv, Busy
  <1>18. CASE ContinueStop
    <2>1. /\ job.op = "validate_deletion" /\ job.pc = "host" /\ job.snap.state = "STOPPING"
          /\ job'.op = "idle"
      BY <1>0, <1>18, JobReturns, JobRaises DEF ContinueStop, Ignore, At
    <2>2. row.state = "STOPPING"
      BY <1>0, <2>1 DEF JobInv, Found
    <2>3. ~DedupWindow /\ recent = {} => recent' = {}
      BY <1>18, SendForgets DEF ContinueStop, Ignore, Return, Raise
    <2>4. UNCHANGED row /\ ec2' \in {ec2, "stopping"} /\ (server' = "NONE" => server = "NONE")
      BY <1>18 DEF ContinueStop, StopHost, world
    <2> QED
      BY <2>1, <2>2, <2>3, <2>4, PlainDriven
  <1>19. CASE HandleScheduledResume
    BY <1>19, RunDriven, IgnoreDriven DEF HandleScheduledResume, db, Outside, world, Ops
  <1>20. CASE HandleScheduledStop
    <2>1. CASE Raise(Handler)
      <3>1. job.op = "idle" /\ job'.op = "idle"
        BY <1>0, <1>20, <2>1, JobReceives, JobRaises DEF HandleScheduledStop, Idle
      <3> QED
        BY <1>20, <2>1, <3>1
           DEF HandleScheduledStop, Raise, db, world, Driven, HostInv, CreationInv, DeletionInv, Busy, Down
    <2> QED
      BY <1>20, <2>1, RunDriven, IgnoreDriven DEF HandleScheduledStop, db, world, Ops
  <1>21. CASE CpuRecord
    <2>1. job.op = "cpu" /\ job.pc = "record" /\ job'.op = "idle" /\ Return(Handler, NoEvent)
      BY <1>0, <1>21, JobReturns DEF CpuRecord, Ignore, At
    <2>2. row.state = "READY"
      BY <1>0, <2>1 DEF JobInv, Found, Begun
    <2>3. ~DedupWindow /\ recent = {} => recent' = {}
      BY <2>1, SendForgets DEF Return
    <2> QED
      BY <1>21, <2>1, <2>2, <2>3, PlainDriven DEF CpuRecord, db, world
  <1>22. CASE HandleCpuSuccess
    BY <1>22, RunDriven, IgnoreDriven DEF HandleCpuSuccess, db, Outside, world, Ops
  <1>23. CASE HandleTerminate
    <2>1. /\ Receives("TERMINATE") /\ Begin(Handler, "terminate", "read", NoRow, TRUE) /\ Stay
          /\ UNCHANGED <<row, server, ec2, host, notif>>
      BY <1>23 DEF HandleTerminate, db, Outside, world
    <2> QED
      BY <2>1, StartDriven DEF Ops
  <1>24. CASE HandleResumeSuccess \/ HandleResumeFailed
    <2>1. CASE Raise(Handler)
      <3>1. job.op = "idle" /\ job'.op = "idle"
        BY <1>0, <1>24, <2>1, JobReceives, JobRaises
           DEF HandleResumeSuccess, HandleResumeFailed, Idle
      <3> QED
        BY <1>24, <2>1, <3>1
           DEF HandleResumeSuccess, HandleResumeFailed, Raise, db, Outside, world, Driven,
               HostInv, CreationInv, DeletionInv, Busy, Down
    <2> QED
      BY <1>24, <2>1, RunDriven
         DEF HandleResumeSuccess, HandleResumeFailed, db, Outside, world, Ops
  <1>25. CASE ResumeSuccessPublish
    <2>1. /\ job.op = "resume_success" /\ job'.op = "resume_success" /\ job'.pc = "write"
          /\ Send(queue, Event("VALIDATE_CREATION"))
      BY <1>0, <1>25, JobGoes DEF ResumeSuccessPublish, At
    <2>2. "VALIDATE_CREATION" \notin recent /\ "VALIDATE_CREATION" \in EventTypes /\ queue \in Seq(Events)
      BY DEF Control, Undated, EventTypes
    <2>3. Waits(queue', "VALIDATE_CREATION") /\ \A t : Waits(queue, t) => Waits(queue', t)
      BY <2>1, <2>2, EventIsEvent, SendWaits
    <2>4. ~DedupWindow /\ recent = {} => recent' = {}
      BY <2>1, SendForgets
    <2> QED
      BY <1>25, <2>1, <2>3, <2>4
         DEF ResumeSuccessPublish, db, world, Driven, HostInv, CreationInv, DeletionInv, Busy, Down
  <1>26. CASE ResumeStatusWrite
    <2>1. /\ job.op \in {"resume_success", "resume_failed"} /\ job.pc = "write" /\ job = act[Handler]
          /\ act[Handler].op # "idle"
      BY <1>0, <1>26 DEF ResumeStatusWrite, At
    <2>2. row.state # "NONE"
      BY <2>1, RowIsThere
    <2>3. /\ Return(Handler, NoEvent) /\ UNCHANGED <<server, ec2, host, notif>>
          /\ row'.state = IF job.op = "resume_success" THEN "INITIALIZING" ELSE "ERROR"
      BY <1>0, <1>26, <2>1, <2>2, MovedTyped
         DEF ResumeStatusWrite, Update, UpdateRaises, Ignore, SessionStates, Outside,
             world
    <2>4. ~DedupWindow /\ recent = {} => recent' = {}
      BY <2>3, SendForgets DEF Return
    <2>5. job'.op = "idle"
      BY <1>0, <2>1, <2>3, JobReturns
    <2>6. CASE job.op = "resume_success"
      <3>1. Waits(queue, "VALIDATE_CREATION")
        BY <2>1, <2>6 DEF Driven, CreationInv, Busy
      <3>2. Waits(queue', "VALIDATE_CREATION")
        BY <1>0, <2>1, <2>3, <2>6, <3>1, ReturnWaits DEF EventOf
      <3> QED
        BY <2>1, <2>2, <2>3, <2>4, <2>5, <2>6, <3>2
           DEF Driven, HostInv, CreationInv, DeletionInv, Busy
    <2>7. CASE job.op = "resume_failed"
      BY <2>1, <2>2, <2>3, <2>4, <2>5, <2>7, PlainDriven
    <2> QED
      BY <2>1, <2>6, <2>7
  <1> QED
    BY <1>1, <1>2, <1>3, <1>4, <1>5, <1>6, <1>7, <1>8, <1>9, <1>10, <1>11, <1>12, <1>13, <1>14,
       <1>15, <1>16, <1>17, <1>18, <1>19, <1>20, <1>21, <1>22, <1>23, <1>24, <1>25, <1>26
       DEF Handle

\* Neither does what happens around the controller.
LEMMA AroundDriven ==
  ASSUME Control, Data, Serial, SerialInv, Driven,
         Environment \/ Outage \/ TriggerSchedule \/ UserDisabled \/ DedupExpires
  PROVE  Driven'
  <1>0. queue \in Seq(Events) /\ "HOST_READY" \in EventTypes \ recent
    BY DEF Control, EventTypes, Undated
  <1>1. ASSUME UNCHANGED act, NEW e, e = NoEvent \/ e \in Events, Send(queue, e),
               UNCHANGED <<row, server, ec2, host, notif>>
        PROVE  Driven'
    <2>1. job' = job /\ \A t : Waits(queue, t) => Waits(queue', t)
      BY <1>0, <1>1, JobStays, SendWaits
    <2>2. ~DedupWindow /\ recent = {} => recent' = {}
      BY <1>1, SendForgets
    <2> QED
      BY <1>1, <2>1, <2>2 DEF Driven, HostInv, CreationInv, DeletionInv, Busy, Down
  <1>2. CASE Routes
    <2>1. PICK i \in 1 .. Len(notif) : Route(i)
      BY <1>2 DEF Routes
    <2> DEFINE e == IF Known(notif[i]) THEN [type |-> EventType(notif[i]), id |-> notif[i].id]
                    ELSE NoEvent
    <2>2. notif[i] \in Notifications
      BY DEF Data
    <2>3. EventType(notif[i]) \in EventTypes /\ notif[i].id \in Nat
      BY <2>2 DEF EventType, EventTypes, Notifications
    <2>4. e = NoEvent \/ e \in Events
      BY <2>3 DEF Events
    <2>5. /\ notif[i].about = "ec2" /\ notif[i].status = "stopping" /\ server # "NONE" =>
                e # NoEvent /\ e.type = "EC2_STOPPING"
          /\ notif[i].about = "ec2" /\ notif[i].status = "stopped" /\ server # "NONE" =>
                e # NoEvent /\ e.type = "EC2_STOPPED"
      BY DEF Known, EventType, NoEvent
    <2>6. Send(queue, e) /\ UNCHANGED <<row, server, ec2, host, act>>
      BY <2>1 DEF Route, db, world
    <2> HIDE DEF e
    <2>7. /\ job' = job /\ \A t : Waits(queue, t) => Waits(queue', t)
          /\ \A t : e.type = t /\ e # NoEvent /\ t \notin recent => Waits(queue', t)
      BY <1>0, <2>4, <2>6, JobStays, SendWaits
    <2>8. ~DedupWindow /\ recent = {} => recent' = {}
      BY <2>6, SendForgets
    <2>9. Down /\ server # "NONE" => Down'
      <3>1. "EC2_STOPPED" \notin recent /\ "EC2_STOPPING" \notin recent
        BY DEF Control, Undated
      <3>2. \A t : News(notif, t) => News(notif', t) \/ (notif[i].about = "ec2" /\ notif[i].status = t)
        BY <2>1, RouteNews
      <3> QED
        BY <2>5, <2>6, <2>7, <3>1, <3>2 DEF Down
    <2> QED
      BY <2>6, <2>7, <2>8, <2>9 DEF Driven, HostInv, CreationInv, DeletionInv, Busy
  <1>3. CASE Ec2Settles
    <2>1. job' = job
      BY <1>3, JobStays DEF Ec2Settles
    <2>2. Down => Down'
      BY <1>3, NotifyNews DEF Ec2Settles, Down
    <2> QED
      BY <1>3, <2>1, <2>2
         DEF Ec2Settles, db, Driven, HostInv, CreationInv, DeletionInv, Busy
  <1>4. CASE HostUp
    <2>1. PICK e : /\ Send(queue, e) /\ (e = NoEvent \/ e \in Events)
                   /\ host = "first" => e # NoEvent /\ e.type = "HOST_READY"
      <3>1. Event("HOST_READY") \in Events /\ Event("REBOOT_COMPLETE") \in Events
            /\ Event("HOST_READY").type = "HOST_READY" /\ Event("HOST_READY") # NoEvent
        BY EventIsEvent DEF EventTypes
      <3>2. CASE host = "first"
        BY <1>4, <3>1, <3>2 DEF HostUp
      <3>3. CASE host = "booting"
        BY <1>4, <3>1, <3>3 DEF HostUp
      <3>4. CASE host = "waking"
        BY <1>4, <3>4 DEF HostUp
      <3> QED
        BY <1>4, <3>2, <3>3, <3>4 DEF HostUp
    <2>2. /\ job' = job /\ \A t : Waits(queue, t) => Waits(queue', t)
          /\ host = "first" => Waits(queue', "HOST_READY")
      BY <1>0, <1>4, <2>1, JobStays, SendWaits DEF HostUp
    <2>3. ~DedupWindow /\ recent = {} => recent' = {}
      BY <2>1, SendForgets
    <2> QED
      BY <1>4, <2>2, <2>3
         DEF HostUp, db, Driven, HostInv, CreationInv, DeletionInv, Busy, Down
  <1>5. CASE BrokerWorks \/ BrokerNotices
    <2>1. job' = job
      BY <1>5, JobStays DEF BrokerWorks, BrokerNotices
    <2> QED
      BY <1>5, <2>1
         DEF BrokerWorks, BrokerNotices, db, Driven, HostInv, CreationInv, DeletionInv, Busy, Down
  <1>6. CASE Commands
    <2>1. PICK c \in ssm.running : CommandEnds(c)
      BY <1>6 DEF Commands
    <2>2. PICK n : notif' = Append(notif, n)
      BY <2>1 DEF CommandEnds
    <2>3. \A t : News(notif, t) => News(notif', t)
      <3>1. /\ Len(notif') = Len(notif) + 1 /\ Len(notif) \in Nat
            /\ \A i \in 1 .. Len(notif) : notif'[i] = notif[i]
        BY <2>2 DEF Data
      <3> QED
        BY <3>1 DEF News
    <2>4. job' = job
      BY <2>1, JobStays DEF CommandEnds
    <2> QED
      BY <2>1, <2>3, <2>4
         DEF CommandEnds, db, Driven, HostInv, CreationInv, DeletionInv, Busy, Down
  <1>7. CASE Outage
    <2>1. job' = job
      BY <1>7, JobStays DEF Outage
    <2>2. \A t : News(notif, t) => News(notif', t)
      BY <1>7, NotifyNews DEF Outage
    <2> QED
      BY <1>7, <2>1, <2>2
         DEF Outage, db, Driven, HostInv, CreationInv, DeletionInv, Busy, Down
  <1>8. CASE TriggerSchedule
    <2>1. PICK t \in {"SCHEDULED_RESUME", "SCHEDULED_STOP"} : Send(queue, Event(t))
      BY <1>8 DEF TriggerSchedule
    <2>2. Event(t) \in Events /\ UNCHANGED act /\ UNCHANGED <<row, server, ec2, host, notif>>
      BY <1>8, EventIsEvent DEF EventTypes, Undated, TriggerSchedule, db, world
    <2> QED
      BY <1>1, <2>1, <2>2
  <1>9. CASE UserDisabled
    <2>1. /\ Event("TERMINATE") \in Events /\ Send(queue, Event("TERMINATE"))
          /\ UNCHANGED act /\ UNCHANGED <<row, server, ec2, host, notif>>
      BY <1>9, EventIsEvent DEF EventTypes, UserDisabled, db, world
    <2> QED
      BY <1>1, <2>1
  <1>10. CASE DedupExpires
    <2>1. job' = job
      BY <1>10, JobStays DEF DedupExpires
    <2> QED
      BY <1>10, <2>1
         DEF DedupExpires, db, world, Driven, HostInv, CreationInv, DeletionInv, Busy, Down
  <1> QED
    BY <1>2, <1>3, <1>4, <1>5, <1>6, <1>7, <1>8, <1>9, <1>10 DEF Environment

\* As long as nothing fails, operations that do not overlap leave every session
\* driven.
THEOREM FaultlessHolds ==
  ASSUME Serial
  PROVE  Spec => []FaultlessInv
  <1>1. Init => FaultlessInv
    <2>1. SUFFICES ASSUME Init
                   PROVE  Driven
      BY DEF FaultlessInv
    <2>2. \A a \in Actors : act[a].op = "idle"
      BY <2>1 DEF Init, Idle
    <2>3. job.op = "idle"
      BY <2>2, NoJob DEF Idle
    <2> QED
      BY <2>1, <2>3, NoRowTyped DEF Init, Driven, HostInv, CreationInv, DeletionInv, Busy
  <1>2. IInv /\ SerialInv /\ FaultlessInv /\ [Next]_vars => FaultlessInv'
    <2>1. ASSUME IInv, SerialInv, FaultlessInv, Next, budget'.faults = 0
          PROVE  Driven'
      <3>1. Driven /\ \A a \in Actors : ~Fail(a)
        BY <2>1, FaultsStay DEF IInv, FaultlessInv
      <3>2. ASSUME NEW a \in ApiWorkers, Request(a)
            PROVE  Driven'
        BY <2>1, <3>1, <3>2, RequestDriven DEF IInv
      <3>3. ASSUME NEW a \in Actors, Step(a)
            PROVE  Driven'
        BY <2>1, <3>1, <3>3, StepDriven DEF IInv
      <3>4. CASE Handle
        BY <2>1, <3>1, <3>4, HandleDriven DEF IInv
      <3>5. CASE Environment \/ Outage \/ TriggerSchedule \/ UserDisabled \/ DedupExpires
        BY <2>1, <3>1, <3>5, AroundDriven DEF IInv
      <3> QED
        BY <2>1, <3>1, <3>2, <3>3, <3>4, <3>5 DEF Next
    <2>2. ASSUME SerialInv, FaultlessInv, UNCHANGED vars
          PROVE  FaultlessInv'
      <3>1. job' = job
        BY <2>2, JobStays DEF vars
      <3> QED
        BY <2>2, <3>1
           DEF vars, FaultlessInv, Driven, HostInv, CreationInv, DeletionInv, Busy, Down
    <2> QED
      BY <2>1, <2>2 DEF FaultlessInv
  <1> QED
    BY <1>1, <1>2, InvariantHolds, SerialHolds, PTL DEF Spec

\* The queue, the notifications and the job, as the properties look at them.
LEMMA WordsOfProperties ==
  ASSUME Control, Data, SerialInv
  PROVE  /\ \A t : Queued(t) <=> Waits(queue, t)
         /\ GoingDown <=> Down
         /\ \A op, pc : op # "idle" => (Doing(op, pc) <=> Busy(op, pc))
         /\ InFlight = {} => job = Idle
  <1>1. /\ DOMAIN queue = 1 .. Len(queue) /\ DOMAIN notif = 1 .. Len(notif)
    BY DEF Control, Data
  <1>2. \A t : Queued(t) <=> Waits(queue, t)
    BY <1>1 DEF Queued, Waits
  <1>3. Coming("ec2", {"stopping", "stopped"}) <=> News(notif, "stopping") \/ News(notif, "stopped")
    BY <1>1 DEF Coming, News
  <1>4. GoingDown <=> Down
    BY <1>2, <1>3 DEF GoingDown, Down
  <1>5. ASSUME NEW op, NEW pc, op # "idle"
        PROVE  Doing(op, pc) <=> Busy(op, pc)
    <2>1. CASE \A a \in Actors : act[a].op = "idle"
      BY <1>5, <2>1, NoJob DEF Doing, At, Busy, Idle
    <2>2. ASSUME NEW a \in Actors, act[a].op # "idle"
          PROVE  Doing(op, pc) <=> Busy(op, pc)
      BY <1>5, <2>2, JobOf DEF Doing, At, Busy, SerialInv, AloneInv
    <2> QED
      BY <2>1, <2>2
  <1>6. InFlight = {} => job = Idle
    BY NoJob DEF InFlight
  <1> QED
    BY <1>2, <1>4, <1>5, <1>6

\* Without overlap and without a fault, a row whose session nobody works on has a
\* host's row and an instance EC2 has not terminated: terminate_sessions and
\* _continue_delete_session release the host and delete the row in opposite
\* orders, and neither leaves the row behind.
THEOREM RowsHaveHosts ==
  ASSUME Serial
  PROVE  Spec => [](budget.faults = 0 => NoZombieRow)
  <1>1. IInv /\ SerialInv /\ FaultlessInv => (budget.faults = 0 => NoZombieRow)
    BY WordsOfProperties DEF IInv, FaultlessInv, Driven, HostInv, NoZombieRow, Busy, Idle
  <1> QED
    BY <1>1, InvariantHolds, SerialHolds, FaultlessHolds, PTL

\* Without overlap and without a fault, a session that is being created is never
\* forgotten: an INITIALIZING row always has its VALIDATE_CREATION event (or the
\* HOST_READY handler that is about to publish it), although the handlers write
\* the row and publish in different orders, and a PROVISIONING or CREATING one has
\* the first boot, HOST_READY or the news of the host's shutdown still to come.
THEOREM CreationsDriven ==
  ASSUME Serial
  PROVE  Spec => [](budget.faults = 0 => CreationIsDriven)
  <1>1. IInv /\ SerialInv /\ FaultlessInv => (budget.faults = 0 => CreationIsDriven)
    <2>1. SUFFICES ASSUME Control, Data, SerialInv, CreationInv
                   PROVE  CreationIsDriven
      BY DEF IInv, FaultlessInv, Driven
    <2>2. Busy("ready", "publish") => At(Handler, "ready", "publish")
      <3>1. Busy("ready", "publish") => handling
        BY <2>1 DEF Busy, SerialInv, JobInv, ApiOps, SharedOps
      <3> QED
        BY <2>1, <3>1, JobOf, HandlerIsActor DEF Busy, At, handling, SerialInv
    <2> QED
      BY <2>1, <2>2, WordsOfProperties DEF CreationInv, CreationIsDriven
  <1> QED
    BY <1>1, InvariantHolds, SerialHolds, FaultlessHolds, PTL

\* Without overlap, without a fault, and outside SQS's deduplication window, a
\* DELETING session always has a VALIDATE_DELETION event, or the
\* terminate_sessions that is about to publish it: the handler that receives the
\* event either finishes the deletion or leaves the event in the queue.
THEOREM DeletionsDriven ==
  ASSUME Serial, ~DedupWindow
  PROVE  Spec => [](budget.faults = 0 => DeletionIsDriven)
  <1>1. IInv /\ SerialInv /\ FaultlessInv => (budget.faults = 0 => DeletionIsDriven)
    <2>1. SUFFICES ASSUME Control, Data, SerialInv, DeletionInv
                   PROVE  DeletionIsDriven
      BY DEF IInv, FaultlessInv, Driven
    <2> QED
      BY <2>1, WordsOfProperties DEF DeletionInv, DeletionIsDriven
  <1> QED
    BY <1>1, InvariantHolds, SerialHolds, FaultlessHolds, PTL
=============================================================================
