----------------------- MODULE UndisturbedSession_proofs -----------------------
(***************************************************************************)
(* What holds of VirtualDesktopSession when operations do not overlap      *)
(* (Serial) and nothing else disturbs the session either: no exception and *)
(* no crash interrupts an operation, nobody stops the instance behind the  *)
(* controller's back, and notifications arrive in their order.  Then the   *)
(* row tells the truth about the host, and a session that is STOPPING or   *)
(* RESUMING has the next event that brings it further.                     *)
(*                                                                         *)
(* The argument is one inductive invariant, UndisturbedInv, on top of      *)
(* SerialInv and FaultlessInv.  It follows a session around its life:      *)
(*                                                                         *)
(*   ChainInv, StillInv     a host comes up through a chain of events of   *)
(*                          which exactly one link exists, and none while  *)
(*                          the session is at rest or going down;          *)
(*   UpInv, DownInv         what state, chain and EC2's news say about     *)
(*                          each other;                                    *)
(*   ServerInv, DcvInv      the host's row and the DCV session;            *)
(*   CommandInv             the command rows that the monitor looks up;    *)
(*   StoppingInv, ResumingInv   the properties themselves, with the        *)
(*                          windows in which a row is about to be written. *)
(***************************************************************************)
EXTENDS SerialSession_proofs

-----------------------------------------------------------------------------
(* The queue and the notifications *)

\* A session comes up in a chain of events, of which one link exists at a time:
\* the boot, the event that announces it, the resume command, its status, the
\* validation.
Links == {"HOST_READY", "REBOOT_COMPLETE", "RESUME_SUCCESS", "RESUME_FAILED", "RESUME_OTHER",
          "VALIDATE_CREATION"}

\* The queue holds a link, and not two of them.
Linked(q) == \E i \in 1 .. Len(q) : q[i].type \in Links
OneLink(q) == \A i, j \in 1 .. Len(q) : q[i].type \in Links /\ q[j].type \in Links => i = j

\* Nothing of EC2 follows the news that the instance stopped.
Notices == {"EC2_STOPPING", "EC2_STOPPED", "EC2_RUNNING"}
StopLast(q) ==
    \A i, j \in 1 .. Len(q) : i < j /\ q[i].type = "EC2_STOPPED" => q[j].type \notin Notices

\* The same among the notifications that are on their way.
NewsLast(n) ==
    \A i, j \in 1 .. Len(n) :
        i < j /\ n[i].about = "ec2" /\ n[i].status = "stopped" => n[j].about # "ec2"
AnyNews(n) == \E i \in 1 .. Len(n) : n[i].about = "ec2"

\* The status of a resume command is on its way.
Reported(n) == \E i \in 1 .. Len(n) : n[i].about = "resume"

\* One of them at most.
OneReport(n) ==
    \A i, j \in 1 .. Len(n) : n[i].about = "resume" /\ n[j].about = "resume" => i = j

\* A resume command runs.
Runs(s) == \E c \in s.running : c.about = "resume"

\* One of them at most.
OneRuns(s) == \A c, d \in s.running : c.about = "resume" /\ d.about = "resume" => c = d

\* The monitor will find the rows of these commands.
RunsKnown(s, ids) == \A c \in s.running : c.about = "resume" => c.id \in ids
\* And of these statuses, which are final.
ReportsKnown(n, ids) ==
    \A i \in 1 .. Len(n) : n[i].about = "resume" => n[i].status # "Other" /\ n[i].id \in ids

-----------------------------------------------------------------------------
(* The invariant *)

\* The state of the row, which a creation is about to write.
Stage == IF job.op = "create" THEN "PROVISIONING" ELSE row.state

\* The session exists, and so does its host.
Live == Stage # "NONE" /\ ec2 # "terminated"

\* The next link exists before the handler has deleted the message of this one.
Recording == Busy("rebooted", "record")
Passing == Recording \/ Busy("resume_success", "write")
Rest == IF Passing THEN Tail(queue) ELSE queue

\* The operating system comes up, and announces it with the first link.
Booting == host \in {"first", "booting"}

\* Some link of the chain exists.
Chained == Booting \/ Linked(Rest) \/ Runs(ssm) \/ Reported(notif)

\* resume_sessions has started the host.
Resumes == Busy("resume", "write")

\* One link at a time: a boot, a queued link, a running command and its status
\* exclude each other.
ChainInv ==
    /\ OneLink(Rest) /\ OneRuns(ssm) /\ OneReport(notif)
    /\ Booting => ~Linked(Rest) /\ ~Runs(ssm) /\ ~Reported(notif) /\ ~Passing
    /\ Linked(Rest) => ~Runs(ssm) /\ ~Reported(notif)
    /\ Runs(ssm) => ~Reported(notif) /\ ~Resumes

\* reboot_sessions is about to reboot the host.
Rebooting == Busy("reboot", "host")

\* The session is STOPPED, and nobody has started its host again.
Parked == Stage = "STOPPED" /\ ~Resumes

\* Nothing is coming up in these states.
StillInv == Stage \in {"READY", "ERROR", "STOPPING"} \/ Parked \/ Rebooting => ~Chained

\* The instance and its operating system.
Up == ec2 = "running" /\ host = "up"

\* A link after the boot, a state that says so, or a handler that relies on it:
\* the instance runs.
UpInv ==
    /\ Linked(Rest) \/ Runs(ssm) \/ Reported(notif) \/ Passing \/ Rebooting => Up
    /\ Stage \in {"READY", "ERROR", "INITIALIZING"} => Up
    /\ Booting \/ Resumes => ec2 \in {"pending", "running"}
    /\ Parked => ec2 = "stopped"

\* The instance goes down, and the news of it is kept until the row is written.
DownInv ==
    /\ Down => /\ ~Chained /\ ~Passing /\ Stage \in {"STOPPING", "DELETING"}
               /\ ec2 \in {"stopping", "stopped"}
    /\ News(notif, "stopped") \/ Waits(queue, "EC2_STOPPED") => ec2 = "stopped"
    /\ Stage = "STOPPING" /\ ec2 = "stopped" =>
          News(notif, "stopped") \/ Waits(queue, "EC2_STOPPED")
    /\ StopLast(queue) /\ NewsLast(notif)
    /\ Waits(queue, "EC2_STOPPED") => ~AnyNews(notif)
    /\ Parked => ~Waits(queue, "EC2_RUNNING") /\ ~AnyNews(notif)

\* The row of the host.
ServerInv ==
    /\ Stage \in {"PROVISIONING", "CREATING", "INITIALIZING", "READY"} => server = "CREATED"
    /\ Runs(ssm) \/ Reported(notif) => server = "CREATED" \/ Recording
    /\ Waits(Rest, "RESUME_SUCCESS") \/ Waits(Rest, "RESUME_FAILED") => server = "CREATED"
    /\ Waits(Rest, "RESUME_OTHER") \/ Waits(Rest, "VALIDATE_CREATION") => server = "CREATED"
    /\ Busy("resume_success", "write") => server = "CREATED"
    /\ Parked => server \in {"STOPPED", "HIBERNATED"}

\* The DCV session.
Ending == job.op \in {"stop", "terminate"} /\ job.pc \in {"write", "publish"}

\* The DCV session is there when the row says READY, and ended when it says that
\* the session stops; a stale one is found by the resume that follows a boot.
DcvInv ==
    /\ row.state \in {"READY", "STOPPING", "STOPPED"} => row.dcv
    /\ row.state = "READY" /\ ~Ending => dcv = "READY" /\ alive
    /\ row.state \in {"STOPPING", "STOPPED"} \/ Busy("stop", "write") =>
          dcv = "DELETING" \/ (dcv = "DELETED" /\ ~alive)
    /\ dcv = "READY" /\ ~alive =>
          /\ row.state = "RESUMING" /\ ~Ending
          /\ host = "booting" \/ Waits(Rest, "REBOOT_COMPLETE") \/ Runs(ssm)
    /\ Busy("validate_creation", "write") /\ job.res = "READY" =>
          dcv = "READY" /\ alive /\ row.dcv
    /\ Busy("rebooted", "call") => row.state = "READY"

\* Commands have the rows that say whose they are.
Written == IF Recording THEN ssm.rows \cup {ssm.sent} ELSE ssm.rows

\* Each resume command is found by the id its row has, or is about to have.
CommandInv ==
    /\ RunsKnown(ssm, Written) /\ ReportsKnown(notif, Written)
    /\ Recording => Runs(ssm) \/ Reported(notif)

\* What StopIsDriven says, also of a row that is about to be written.
StoppingInv ==
    ~DedupWindow /\ Stage = "STOPPING" /\ ec2 \notin {"stopping", "stopped"} =>
        Waits(queue, "VALIDATE_DELETION") \/ Busy("stop", "publish")

\* ResumeIsDriven likewise.
ResumingInv ==
    ~Hibernation =>
        /\ host \notin {"asleep", "waking"}
        /\ Resumes => host = "booting" \/ Waits(queue, "REBOOT_COMPLETE")
        /\ Stage = "RESUMING" =>
              \/ host = "booting" \/ Runs(ssm) \/ Reported(notif) \/ Rebooting
              \/ Waits(queue, "REBOOT_COMPLETE") \/ Waits(queue, "RESUME_SUCCESS")
              \/ Waits(queue, "RESUME_FAILED") \/ Waits(queue, "VALIDATE_CREATION")

\* Before the creation there is nothing.
EmptyInv ==
    ec2 = "none" =>
        /\ queue = <<>> /\ notif = <<>> /\ ssm.running = {} /\ dcv = "NONE" /\ ~alive

\* A session that exists and whose host has not been released.
Calm ==
    Live => /\ ChainInv /\ StillInv /\ UpInv /\ DownInv /\ ServerInv
            /\ DcvInv /\ CommandInv /\ StoppingInv /\ ResumingInv

\* terminate_sessions takes the short way, which releases the host without a
\* request to the broker, for no session that is being stopped.
SparedInv ==
    \A a \in Actors : At(a, "terminate", "host") \/ At(a, "terminate", "delete") =>
        act[a].snap.state # "STOPPING"

\* The inductive invariant.
UndisturbedInv ==
    ~Reorder /\ budget.faults = 0 /\ budget.outages = 0 => EmptyInv /\ Calm /\ SparedInv

-----------------------------------------------------------------------------
(* How the queue, the notifications and the commands change *)

\* The event at the end of the queue.
LEMMA LastEvent ==
  ASSUME NEW q \in Seq(Events), NEW e \in Events, NEW r, r = Append(q, e)
  PROVE  /\ Linked(r) <=> Linked(q) \/ e.type \in Links
         /\ OneLink(q) /\ ~(Linked(q) /\ e.type \in Links) => OneLink(r)
         /\ StopLast(q) /\ ~(Waits(q, "EC2_STOPPED") /\ e.type \in Notices) => StopLast(r)
         /\ \A t : Waits(r, t) <=> Waits(q, t) \/ e.type = t
  <1>1. /\ Len(r) = Len(q) + 1 /\ Len(q) \in Nat /\ r[Len(q) + 1] = e
        /\ \A i \in 1 .. Len(q) : r[i] = q[i]
    OBVIOUS
  <1>2. \A i \in 1 .. Len(r) : i \in 1 .. Len(q) \/ i = Len(q) + 1
    BY <1>1
  <1>3. 1 .. Len(q) \subseteq 1 .. Len(r) /\ Len(q) + 1 \in 1 .. Len(r)
    BY <1>1
  <1>4. Linked(r) <=> Linked(q) \/ e.type \in Links
    BY <1>1, <1>2, <1>3 DEF Linked
  <1>5. OneLink(q) /\ ~(Linked(q) /\ e.type \in Links) => OneLink(r)
    BY <1>1, <1>2 DEF Linked, OneLink
  <1>6. StopLast(q) /\ ~(Waits(q, "EC2_STOPPED") /\ e.type \in Notices) => StopLast(r)
    <2>1. SUFFICES ASSUME StopLast(q), ~(Waits(q, "EC2_STOPPED") /\ e.type \in Notices),
                          NEW i \in 1 .. Len(r), NEW j \in 1 .. Len(r), i < j,
                          r[i].type = "EC2_STOPPED"
                   PROVE  r[j].type \notin Notices
      BY DEF StopLast
    <2>2. i \in 1 .. Len(q) /\ Waits(q, "EC2_STOPPED")
      BY <1>1, <2>1 DEF Waits
    <2> QED
      BY <1>1, <1>2, <2>1, <2>2 DEF StopLast
  <1>7. \A t : Waits(r, t) <=> Waits(q, t) \/ e.type = t
    BY <1>1, <1>2, <1>3 DEF Waits
  <1> QED
    BY <1>4, <1>5, <1>6, <1>7

\* The event at the head of the queue.
LEMMA FirstEvent ==
  ASSUME NEW q \in Seq(Events), q # <<>>
  PROVE  /\ Tail(q) \in Seq(Events)
         /\ Linked(q) <=> Head(q).type \in Links \/ Linked(Tail(q))
         /\ OneLink(q) => OneLink(Tail(q)) /\ ~(Head(q).type \in Links /\ Linked(Tail(q)))
         /\ StopLast(q) => StopLast(Tail(q))
         /\ StopLast(q) /\ Head(q).type = "EC2_STOPPED" => \A t \in Notices : ~Waits(Tail(q), t)
         /\ \A t : Waits(q, t) <=> Head(q).type = t \/ Waits(Tail(q), t)
  <1> DEFINE r == Tail(q)
  <1>1. /\ r \in Seq(Events) /\ Len(q) \in Nat /\ Len(q) > 0 /\ Len(r) = Len(q) - 1
        /\ \A i \in 1 .. Len(r) : r[i] = q[i + 1]
        /\ Head(q) = q[1]
    OBVIOUS
  <1> HIDE DEF r
  <1>2. 1 \in 1 .. Len(q) /\ \A i \in 1 .. Len(r) : i + 1 \in 1 .. Len(q) /\ i + 1 # 1 /\ 1 < i + 1
    BY <1>1
  <1>3. \A i \in 1 .. Len(q) : i = 1 \/ (i - 1 \in 1 .. Len(r) /\ r[i - 1] = q[i])
    BY <1>1
  <1>4. Linked(q) <=> Head(q).type \in Links \/ Linked(r)
    BY <1>1, <1>2, <1>3 DEF Linked
  <1>5. OneLink(q) => OneLink(r)
    <2>1. SUFFICES ASSUME OneLink(q), NEW i \in 1 .. Len(r), NEW j \in 1 .. Len(r),
                          r[i].type \in Links, r[j].type \in Links
                   PROVE  i = j
      BY DEF OneLink
    <2>2. i + 1 = j + 1
      BY <1>1, <1>2, <2>1 DEF OneLink
    <2> QED
      BY <2>2
  <1>6. OneLink(q) => ~(Head(q).type \in Links /\ Linked(r))
    BY <1>1, <1>2 DEF Linked, OneLink
  <1>7. StopLast(q) => StopLast(r)
    <2>1. SUFFICES ASSUME StopLast(q), NEW i \in 1 .. Len(r), NEW j \in 1 .. Len(r), i < j,
                          r[i].type = "EC2_STOPPED"
                   PROVE  r[j].type \notin Notices
      BY DEF StopLast
    <2>2. i + 1 < j + 1
      BY <2>1
    <2> QED
      BY <1>1, <1>2, <2>1, <2>2 DEF StopLast
  <1>8. StopLast(q) /\ Head(q).type = "EC2_STOPPED" => \A t \in Notices : ~Waits(r, t)
    BY <1>1, <1>2 DEF StopLast, Waits
  <1>9. \A t : Waits(q, t) <=> Head(q).type = t \/ Waits(r, t)
    BY TailWaits DEF r
  <1> QED
    BY <1>1, <1>4, <1>5, <1>6, <1>7, <1>8, <1>9 DEF r

\* An event of the chain that waits is a link of it, and the only one.
LEMMA LinksWait ==
  ASSUME NEW q, NEW t \in Links
  PROVE  /\ Waits(q, t) => Linked(q)
         /\ OneLink(q) /\ Waits(q, t) => \A u \in Links : Waits(q, u) => u = t
  BY DEF Linked, OneLink, Waits

\* Nothing waits in an empty queue.
LEMMA NothingQueued ==
  /\ ~Linked(<<>>) /\ OneLink(<<>>) /\ StopLast(<<>>) /\ \A t : ~Waits(<<>>, t)
  /\ ~Reported(<<>>) /\ OneReport(<<>>) /\ NewsLast(<<>>) /\ ~AnyNews(<<>>)
  /\ \A t : ~News(<<>>, t)
  /\ \A ids : ReportsKnown(<<>>, ids)
  <1>1. 1 .. Len(<<>>) = {}
    OBVIOUS
  <1> QED
    BY <1>1
       DEF Linked, OneLink, StopLast, Waits, Reported, OneReport, NewsLast, AnyNews,
           News,
                ReportsKnown

\* The queue r is q with perhaps this event at its end.
Grows(q, r, e) ==
    /\ Linked(q) => Linked(r)
    /\ Linked(r) => Linked(q) \/ e.type \in Links
    /\ OneLink(q) /\ ~(Linked(q) /\ e.type \in Links) => OneLink(r)
    /\ StopLast(q) /\ ~(Waits(q, "EC2_STOPPED") /\ e.type \in Notices) => StopLast(r)
    /\ \A t : Waits(q, t) => Waits(r, t)
    /\ \A t : Waits(r, t) => Waits(q, t) \/ e.type = t

\* The queue r is q without its head, which has this type.
Shrinks(q, r, type) ==
    /\ type \in Links => Linked(q)
    /\ Linked(r) => Linked(q)
    /\ type \notin Links /\ Linked(q) => Linked(r)
    /\ OneLink(q) => OneLink(r) /\ ~(type \in Links /\ Linked(r))
    /\ StopLast(q) => StopLast(r)
    /\ StopLast(q) /\ type = "EC2_STOPPED" => \A t \in Notices : ~Waits(r, t)
    /\ \A t : Waits(r, t) => Waits(q, t)
    /\ \A t : Waits(q, t) => Waits(r, t) \/ t = type

\* What was sent is at the end of the queue.
LEMMA SendGrows ==
  ASSUME NEW q \in Seq(Events), NEW e, e = NoEvent \/ e \in Events, Send(q, e)
  PROVE  /\ Grows(q, queue', e)
         /\ e # NoEvent /\ e.type \notin recent => Waits(queue', e.type)
         /\ queue' = q \/ (queue' = Append(q, e) /\ e \in Events)
  <1>1. CASE queue' = q /\ (e = NoEvent \/ e.type \in recent)
    BY <1>1 DEF Grows
  <1>2. CASE queue' = Append(q, e) /\ e # NoEvent
    <2>1. e \in Events
      BY <1>2
    <2> QED
      BY <1>2, <2>1, LastEvent DEF Grows
  <1> QED
    BY <1>1, <1>2 DEF Send

\* A message that is deleted was the head of the queue.
LEMMA TailShrinks ==
  ASSUME NEW q \in Seq(Events), q # <<>>, NEW t, Head(q).type = t
  PROVE  Shrinks(q, Tail(q), t) /\ Tail(q) \in Seq(Events)
  BY FirstEvent DEF Shrinks

\* What is sent while nobody passes from one link to the next, or while somebody
\* keeps doing so.
LEMMA RestGrows ==
  ASSUME Control, Passing => queue # <<>>, Passing' <=> Passing,
         NEW e, e = NoEvent \/ e \in Events, Send(queue, e)
  PROVE  /\ Grows(queue, queue', e) /\ Grows(Rest, Rest', e)
         /\ e # NoEvent /\ e.type \notin recent => Waits(queue', e.type) /\ Waits(Rest', e.type)
  <1>0. queue \in Seq(Events)
    BY DEF Control
  <1>1. CASE ~Passing
    BY <1>0, <1>1, SendGrows DEF Rest
  <1>2. CASE Passing
    <2>1. Tail(queue) \in Seq(Events) /\ Rest = Tail(queue) /\ Rest' = Tail(queue')
      BY <1>0, <1>2 DEF Rest
    <2>2. CASE queue' = queue
      <3>1. e = NoEvent \/ e.type \in recent
        <4>1. SUFFICES ASSUME queue = Append(queue, e)
                       PROVE  FALSE
          BY <2>2 DEF Send
        <4>2. Len(Append(queue, e)) = Len(queue) + 1 /\ Len(queue) \in Nat
          BY <1>0
        <4> QED
          BY <4>1, <4>2
      <3> QED
        BY <1>0, <2>1, <2>2, <3>1, SendGrows DEF Grows
    <2>3. CASE queue' = Append(queue, e) /\ e \in Events
      <3>1. Tail(Append(queue, e)) = Append(Tail(queue), e)
        BY <1>0, <1>2, <2>3
      <3>2. Grows(Rest, Rest', e) /\ Waits(Rest', e.type)
        BY <2>1, <2>3, <3>1, LastEvent DEF Grows
      <3> QED
        BY <1>0, <3>2, SendGrows
    <2> QED
      BY <1>0, <2>2, <2>3, SendGrows
  <1> QED
    BY <1>1, <1>2

\* Events the chain and the host's shutdown do not depend on.
Asides == {"SCHEDULED_RESUME", "SCHEDULED_STOP", "REBOOT_COMPLETE_BY_CONTROLLER", "TERMINATE",
           "CPU_SUCCESS", "CPU_OTHER"}

\* The queues q and r differ in such events only.
Alike(q, r) ==
    /\ Linked(r) <=> Linked(q)
    /\ OneLink(q) => OneLink(r)
    /\ StopLast(q) => StopLast(r)
    /\ \A t : t \notin Asides => (Waits(r, t) <=> Waits(q, t))

\* Such an event comes or goes.
LEMMA AsidesAlike ==
  ASSUME NEW q, NEW r
  PROVE  /\ Alike(q, q)
         /\ \A e : Grows(q, r, e) /\ e.type \in Asides \cup {"NO_EVENT"} /\ ~Waits(r, "NO_EVENT")
               => Alike(q, r)
         /\ \A type \in Asides : Shrinks(q, r, type) => Alike(q, r)
  <1>1. \A t \in Asides : t \notin Links /\ t \notin Notices
    BY DEF Asides, Links, Notices
  <1>2. "NO_EVENT" \notin Links /\ "NO_EVENT" \notin Notices
    BY DEF Links, Notices
  <1>3. Alike(q, q)
    BY DEF Alike
  <1>4. ASSUME NEW e, Grows(q, r, e), e.type \in Asides \cup {"NO_EVENT"}, ~Waits(r, "NO_EVENT")
        PROVE  Alike(q, r)
    BY <1>1, <1>2, <1>4 DEF Grows, Alike
  <1>5. ASSUME NEW type \in Asides, Shrinks(q, r, type)
        PROVE  Alike(q, r)
    BY <1>1, <1>5 DEF Shrinks, Alike
  <1> QED
    BY <1>3, <1>4, <1>5

\* No event is queued that is none.
LEMMA OnlyEvents ==
  ASSUME NEW q \in Seq(Events)
  PROVE  ~Waits(q, "NO_EVENT")
  <1>1. ASSUME NEW i \in 1 .. Len(q)
        PROVE  q[i].type # "NO_EVENT"
    <2>1. q[i] \in Events
      BY <1>1
    <2> QED
      BY <2>1 DEF Events, EventTypes, Undated
  <1> QED
    BY <1>1 DEF Waits

\* A handler deletes its message and sends nothing.
LEMMA IgnoreShrinks ==
  ASSUME Control, queue # <<>>, NEW t, Head(queue).type = t, Ignore, ~Passing, ~Passing'
  PROVE  Shrinks(queue, queue', t) /\ Rest = queue /\ Rest' = queue'
  <1>1. queue \in Seq(Events) /\ queue' = Tail(queue)
    BY DEF Control, Ignore, Return, Send
  <1> QED
    BY <1>1, TailShrinks DEF Rest

\* It deletes the message of a link that it has already passed.
LEMMA IgnorePasses ==
  ASSUME Control, queue # <<>>, NEW t, Head(queue).type = t, Ignore, Passing, ~Passing'
  PROVE  Shrinks(queue, queue', t) /\ Rest' = Rest
  <1>1. queue \in Seq(Events) /\ queue' = Tail(queue)
    BY DEF Control, Ignore, Return, Send
  <1> QED
    BY <1>1, TailShrinks DEF Rest

\* It deletes its message and sends an event.
LEMMA ReturnMoves ==
  ASSUME Control, queue # <<>>, NEW t, Head(queue).type = t, ~Passing, ~Passing',
         NEW e, e = NoEvent \/ e \in Events, Return(Handler, e)
  PROVE  /\ \E q : Shrinks(queue, q, t) /\ Grows(q, queue', e)
         /\ e # NoEvent /\ e.type \notin recent => Waits(queue', e.type)
         /\ Rest = queue /\ Rest' = queue'
  <1>1. queue \in Seq(Events) /\ Send(Tail(queue), e)
    BY DEF Control, Return
  <1>2. Shrinks(queue, Tail(queue), t) /\ Tail(queue) \in Seq(Events)
    BY <1>1, TailShrinks
  <1> QED
    BY <1>1, <1>2, SendGrows DEF Rest

\* An operation that an API thread or a handler runs ends.
LEMMA SharedReturns ==
  ASSUME Control, SerialInv, job.op \in SharedOps, NEW a \in Actors, act[a].op # "idle",
         ~Passing', NEW e, e = NoEvent \/ e = Event("VALIDATE_DELETION"), Return(a, e)
  PROVE  /\ e = NoEvent => Alike(queue, queue')
         /\ Linked(queue') <=> Linked(queue)
         /\ OneLink(queue) => OneLink(queue')
         /\ StopLast(queue) => StopLast(queue')
         /\ \A t : t \notin Asides \cup {"VALIDATE_DELETION"} => (Waits(queue', t) <=> Waits(queue, t))
         /\ e # NoEvent /\ "VALIDATE_DELETION" \notin recent => Waits(queue', "VALIDATE_DELETION")
         /\ Rest = queue /\ Rest' = queue'
  <1>1. ~Passing /\ Rest = queue /\ Rest' = queue' /\ queue \in Seq(Events)
    BY DEF SharedOps, Passing, Recording, Busy, Rest, Control
  <1>2. "VALIDATE_DELETION" \in EventTypes
    BY DEF EventTypes, Undated
  <1>3. (e = NoEvent \/ e \in Events) /\ (e # NoEvent => e.type = "VALIDATE_DELETION")
        /\ (e = NoEvent => e.type = "NO_EVENT")
    BY <1>2, EventIsEvent DEF NoEvent
  <1>4. PICK q : /\ q \in Seq(Events) /\ Send(q, e)
                 /\ Alike(queue, q)
    <2>1. CASE a # Handler
      BY <1>1, <2>1, AsidesAlike DEF Return
    <2>2. CASE a = Handler
      <3>1. queue # <<>> /\ Head(queue).type = EventOf(job.op)
        BY <2>2, JobOf DEF Control, Held, SerialInv, JobInv
      <3>2. EventOf(job.op) \in Asides
        BY DEF SharedOps, EventOf, Asides
      <3>3. Shrinks(queue, Tail(queue), EventOf(job.op)) /\ Tail(queue) \in Seq(Events)
        BY <1>1, <3>1, TailShrinks
      <3>4. Alike(queue, Tail(queue))
        BY <3>2, <3>3, AsidesAlike
      <3> QED
        BY <2>2, <3>3, <3>4 DEF Return
    <2> QED
      BY <2>1, <2>2
  <1>5. /\ Grows(q, queue', e)
        /\ e # NoEvent /\ e.type \notin recent => Waits(queue', e.type)
        /\ e = NoEvent => queue' = q
    BY <1>3, <1>4, SendGrows DEF Send
  <1>6. "VALIDATE_DELETION" \notin Links /\ "VALIDATE_DELETION" \notin Notices
        /\ "NO_EVENT" \notin Links /\ "NO_EVENT" \notin Notices
    BY DEF Links, Notices
  <1>7. e = NoEvent => Alike(queue, queue')
    BY <1>4, <1>5
  <1>8. /\ Linked(queue') <=> Linked(queue)
        /\ OneLink(queue) => OneLink(queue')
        /\ StopLast(queue) => StopLast(queue')
    BY <1>3, <1>4, <1>5, <1>6 DEF Alike, Grows
  <1>9. ASSUME NEW t, t \notin Asides \cup {"VALIDATE_DELETION"}
        PROVE  Waits(queue', t) <=> Waits(queue, t)
    BY <1>3, <1>4, <1>5, <1>7, <1>9 DEF Alike, Grows
  <1> QED
    BY <1>1, <1>3, <1>5, <1>7, <1>8, <1>9

\* The notification at the end.
LEMMA LastNews ==
  ASSUME NEW n \in Seq(Notifications), NEW e \in Notifications, NEW r, r = Append(n, e)
  PROVE  /\ Reported(r) <=> Reported(n) \/ e.about = "resume"
         /\ OneReport(n) /\ ~(Reported(n) /\ e.about = "resume") => OneReport(r)
         /\ AnyNews(r) <=> AnyNews(n) \/ e.about = "ec2"
         /\ \A t : News(r, t) <=> News(n, t) \/ (e.about = "ec2" /\ e.status = t)
         /\ NewsLast(n) /\ ~(News(n, "stopped") /\ e.about = "ec2") => NewsLast(r)
         /\ \A ids : ReportsKnown(n, ids)
                     /\ (e.about = "resume" => e.status # "Other" /\ e.id \in ids)
               => ReportsKnown(r, ids)
  <1>1. /\ Len(r) = Len(n) + 1 /\ Len(n) \in Nat /\ r[Len(n) + 1] = e
        /\ \A i \in 1 .. Len(n) : r[i] = n[i]
    OBVIOUS
  <1>2. \A i \in 1 .. Len(r) : i \in 1 .. Len(n) \/ i = Len(n) + 1
    BY <1>1
  <1>3. 1 .. Len(n) \subseteq 1 .. Len(r) /\ Len(n) + 1 \in 1 .. Len(r)
    BY <1>1
  <1>4. Reported(r) <=> Reported(n) \/ e.about = "resume"
    BY <1>1, <1>2, <1>3 DEF Reported
  <1>5. OneReport(n) /\ ~(Reported(n) /\ e.about = "resume") => OneReport(r)
    BY <1>1, <1>2 DEF Reported, OneReport
  <1>6. AnyNews(r) <=> AnyNews(n) \/ e.about = "ec2"
    BY <1>1, <1>2, <1>3 DEF AnyNews
  <1>7. \A t : News(r, t) <=> News(n, t) \/ (e.about = "ec2" /\ e.status = t)
    BY <1>1, <1>2, <1>3 DEF News
  <1>8. NewsLast(n) /\ ~(News(n, "stopped") /\ e.about = "ec2") => NewsLast(r)
    <2>1. SUFFICES ASSUME NewsLast(n), ~(News(n, "stopped") /\ e.about = "ec2"),
                          NEW i \in 1 .. Len(r), NEW j \in 1 .. Len(r), i < j,
                          r[i].about = "ec2", r[i].status = "stopped"
                   PROVE  r[j].about # "ec2"
      BY DEF NewsLast
    <2>2. i \in 1 .. Len(n) /\ News(n, "stopped")
      BY <1>1, <2>1 DEF News
    <2> QED
      BY <1>1, <1>2, <2>1, <2>2 DEF NewsLast
  <1>9. ASSUME NEW ids, ReportsKnown(n, ids),
               e.about = "resume" => e.status # "Other" /\ e.id \in ids
        PROVE  ReportsKnown(r, ids)
    BY <1>1, <1>2, <1>9 DEF ReportsKnown
  <1> QED
    BY <1>4, <1>5, <1>6, <1>7, <1>8, <1>9

\* The notification that comes first.
LEMMA FirstNews ==
  ASSUME NEW n \in Seq(Notifications), n # <<>>
  PROVE  /\ n[1] \in Notifications
         /\ Reported(n) <=> Reported(Tail(n)) \/ n[1].about = "resume"
         /\ OneReport(n) => OneReport(Tail(n)) /\ ~(Reported(Tail(n)) /\ n[1].about = "resume")
         /\ AnyNews(n) <=> AnyNews(Tail(n)) \/ n[1].about = "ec2"
         /\ \A t : News(n, t) <=> News(Tail(n), t) \/ (n[1].about = "ec2" /\ n[1].status = t)
         /\ NewsLast(n) => NewsLast(Tail(n))
         /\ NewsLast(n) /\ n[1].about = "ec2" /\ n[1].status = "stopped" => ~AnyNews(Tail(n))
         /\ \A ids : ReportsKnown(n, ids) =>
               /\ ReportsKnown(Tail(n), ids)
               /\ n[1].about = "resume" => n[1].status # "Other" /\ n[1].id \in ids
  <1> DEFINE r == Tail(n)
  <1> DEFINE e == n[1]
  <1>1. /\ Len(n) \in Nat /\ Len(n) > 0 /\ Len(r) = Len(n) - 1 /\ e \in Notifications
        /\ \A i \in 1 .. Len(r) : r[i] = n[i + 1]
    OBVIOUS
  <1> HIDE DEF r
  <1>2. 1 \in 1 .. Len(n) /\ \A i \in 1 .. Len(r) : i + 1 \in 1 .. Len(n) /\ i + 1 # 1 /\ 1 < i + 1
    BY <1>1
  <1>3. \A i \in 1 .. Len(n) : i = 1 \/ (i - 1 \in 1 .. Len(r) /\ r[i - 1] = n[i])
    BY <1>1
  <1>4. Reported(n) <=> Reported(r) \/ e.about = "resume"
    BY <1>1, <1>2, <1>3 DEF Reported
  <1>5. OneReport(n) => OneReport(r)
    <2>1. SUFFICES ASSUME OneReport(n), NEW i \in 1 .. Len(r), NEW j \in 1 .. Len(r),
                          r[i].about = "resume", r[j].about = "resume"
                   PROVE  i = j
      BY DEF OneReport
    <2>2. i + 1 = j + 1
      BY <1>1, <1>2, <2>1 DEF OneReport
    <2> QED
      BY <2>2
  <1>6. OneReport(n) => ~(Reported(r) /\ e.about = "resume")
    BY <1>1, <1>2 DEF Reported, OneReport
  <1>7. AnyNews(n) <=> AnyNews(r) \/ e.about = "ec2"
    BY <1>1, <1>2, <1>3 DEF AnyNews
  <1>8. \A t : News(n, t) <=> News(r, t) \/ (e.about = "ec2" /\ e.status = t)
    BY <1>1, <1>2, <1>3 DEF News
  <1>9. NewsLast(n) => NewsLast(r)
    <2>1. SUFFICES ASSUME NewsLast(n), NEW i \in 1 .. Len(r), NEW j \in 1 .. Len(r), i < j,
                          r[i].about = "ec2", r[i].status = "stopped"
                   PROVE  r[j].about # "ec2"
      BY DEF NewsLast
    <2>2. i + 1 < j + 1
      BY <2>1
    <2> QED
      BY <1>1, <1>2, <2>1, <2>2 DEF NewsLast
  <1>10. NewsLast(n) /\ e.about = "ec2" /\ e.status = "stopped" => ~AnyNews(r)
    BY <1>1, <1>2 DEF NewsLast, AnyNews
  <1>11. ASSUME NEW ids, ReportsKnown(n, ids)
         PROVE  ReportsKnown(r, ids) /\ (e.about = "resume" => e.status # "Other" /\ e.id \in ids)
    BY <1>1, <1>2, <1>11 DEF ReportsKnown
  <1> QED
    BY <1>1, <1>4, <1>5, <1>6, <1>7, <1>8, <1>9, <1>10, <1>11 DEF r

\* In order, it is the first notification that leaves.
LEMMA RouteTakesFirst ==
  ASSUME Data, ~Reorder, NEW i \in 1 .. Len(notif), Route(i)
  PROVE  i = 1 /\ notif # <<>> /\ notif' = Tail(notif)
  <1>1. i = 1 /\ notif \in Seq(Notifications) /\ Len(notif) \in Nat /\ Len(notif) > 0
    BY DEF Route, Arrives, Data
  <1>2. notif' = SubSeq(notif, 1, 0) \o SubSeq(notif, 2, Len(notif))
    BY <1>1 DEF Route
  <1>3. SubSeq(notif, 1, 0) = <<>>
    BY <1>1
  <1>4. SubSeq(notif, 2, Len(notif)) = Tail(notif)
    BY <1>1
  <1>5. Tail(notif) \in Seq(Notifications) /\ <<>> \o Tail(notif) = Tail(notif)
    BY <1>1
  <1> QED
    BY <1>1, <1>2, <1>3, <1>4, <1>5

\* What EC2 announces is news.
LEMMA NewsIsNews ==
  ASSUME NEW n, NEW t, News(n, t)
  PROVE  AnyNews(n)
  BY DEF News, AnyNews

\* Without a resume command every row will do.
LEMMA NothingToKnow ==
  ASSUME NEW s, NEW n, NEW ids
  PROVE  /\ ~Runs(s) => RunsKnown(s, ids) /\ OneRuns(s)
         /\ ~Reported(n) => ReportsKnown(n, ids) /\ OneReport(n)
         /\ \A more : ids \subseteq more =>
               /\ RunsKnown(s, ids) => RunsKnown(s, more)
               /\ ReportsKnown(n, ids) => ReportsKnown(n, more)
  BY DEF Runs, RunsKnown, OneRuns, Reported, ReportsKnown, OneReport

\* A command is sent.
LEMMA CommandRuns ==
  ASSUME Data, NEW about \in {"resume", "cpu"}, SendCommand(about)
  PROVE  /\ ssm'.rows = ssm.rows /\ ssm'.sent = ssm.sent + 1
         /\ Runs(ssm') <=> Runs(ssm) \/ about = "resume"
         /\ OneRuns(ssm) /\ ~(Runs(ssm) /\ about = "resume") => OneRuns(ssm')
         /\ \A ids : RunsKnown(ssm, ids) /\ (about = "resume" => ssm.sent + 1 \in ids)
               => RunsKnown(ssm', ids)
  <1> DEFINE c == [about |-> about, id |-> ssm.sent + 1]
  <1>1. /\ ssm'.rows = ssm.rows /\ ssm'.sent = ssm.sent + 1
        /\ ssm'.running = ssm.running \cup {c}
    BY DEF SendCommand, Data, Commanded
  <1>2. c.about = about /\ c.id = ssm.sent + 1
    OBVIOUS
  <1> HIDE DEF c
  <1> QED
    BY <1>1, <1>2 DEF Runs, OneRuns, RunsKnown

\* A command ends.
LEMMA CommandStops ==
  ASSUME Data, NEW c \in ssm.running, ssm' = [ssm EXCEPT !.running = @ \ {c}]
  PROVE  /\ ssm'.rows = ssm.rows /\ ssm'.sent = ssm.sent
         /\ Runs(ssm') => Runs(ssm)
         /\ c.about = "resume" => Runs(ssm)
         /\ c.about # "resume" /\ Runs(ssm) => Runs(ssm')
         /\ c.about = "resume" /\ OneRuns(ssm) => ~Runs(ssm')
         /\ OneRuns(ssm) => OneRuns(ssm')
         /\ \A ids : RunsKnown(ssm, ids) => RunsKnown(ssm', ids) /\ (c.about = "resume" => c.id \in ids)
  <1>1. /\ ssm'.rows = ssm.rows /\ ssm'.sent = ssm.sent
        /\ ssm'.running = ssm.running \ {c}
    BY DEF Data, Commanded
  <1> QED
    BY <1>1 DEF Runs, OneRuns, RunsKnown

-----------------------------------------------------------------------------
(* Steps that change nothing of importance *)

\* An operation at a step the invariant says nothing about.
PlainJob ==
    /\ job.op # "create" /\ ~Passing /\ ~Resumes /\ ~Rebooting /\ ~Ending
    /\ ~Busy("validate_creation", "write") /\ ~Busy("rebooted", "call")

\* No resume command is sent or ends, and EC2 announces nothing.
SameCommands ==
    /\ Runs(ssm') <=> Runs(ssm)
    /\ OneRuns(ssm) => OneRuns(ssm')
    /\ Reported(notif') <=> Reported(notif)
    /\ OneReport(notif) => OneReport(notif')
    /\ RunsKnown(ssm, Written) => RunsKnown(ssm', Written')
    /\ ReportsKnown(notif, Written) => ReportsKnown(notif', Written')
    /\ AnyNews(notif') <=> AnyNews(notif)
    /\ NewsLast(notif) => NewsLast(notif')
    /\ \A t : News(notif', t) <=> News(notif, t)

\* A step that is alike for everything the invariant looks at preserves it.
LEMMA FrameCalm ==
  ASSUME Calm, job' = job \/ (PlainJob /\ PlainJob'), Alike(queue, queue'), Alike(Rest, Rest'),
         SameCommands, UNCHANGED <<row, server, ec2, host, alive, dcv>>
  PROVE  Calm'
  <1>1. /\ (job'.op = "create") <=> (job.op = "create")
        /\ Recording' <=> Recording
        /\ Passing' <=> Passing
        /\ Resumes' <=> Resumes
        /\ Rebooting' <=> Rebooting
        /\ Ending' <=> Ending
        /\ (Busy("resume_success", "write"))' <=> Busy("resume_success", "write")
        /\ (Busy("stop", "write"))' <=> Busy("stop", "write")
        /\ (Busy("stop", "publish"))' <=> Busy("stop", "publish")
        /\ (Busy("rebooted", "call"))' <=> Busy("rebooted", "call")
        /\ (Busy("validate_creation", "write"))' => Busy("validate_creation", "write") /\ job' = job
    BY DEF PlainJob, Recording, Passing, Resumes, Rebooting, Ending, Busy
  <1>2. Stage' = Stage /\ (Live' <=> Live) /\ (Parked' <=> Parked)
    BY <1>1 DEF Stage, Live, Parked
  <1>3. /\ \A t : t \notin Asides => (Waits(queue', t) <=> Waits(queue, t))
        /\ \A t : t \notin Asides => (Waits(Rest', t) <=> Waits(Rest, t))
        /\ Linked(Rest') <=> Linked(Rest)
        /\ OneLink(Rest) => OneLink(Rest')
        /\ StopLast(queue) => StopLast(queue')
    BY DEF Alike
  <1>4. \A t \in Links \cup Notices \cup {"VALIDATE_DELETION"} : t \notin Asides
    BY DEF Links, Notices, Asides
  <1>5. (Down' <=> Down) /\ (Booting' <=> Booting) /\ (Chained' <=> Chained)
    <2>1. Down' <=> Down
      BY <1>3, <1>4 DEF Down, SameCommands, Notices
    <2> QED
      BY <1>3, <2>1 DEF Booting, Chained, SameCommands
  <1>6. SUFFICES ASSUME Live
                 PROVE  /\ ChainInv' /\ StillInv' /\ UpInv' /\ DownInv' /\ ServerInv'
                        /\ DcvInv' /\ CommandInv' /\ StoppingInv' /\ ResumingInv'
    BY <1>2 DEF Calm
  <1>7. ChainInv'
    BY <1>1, <1>3, <1>5, <1>6 DEF Calm, ChainInv, SameCommands
  <1>8. StillInv'
    BY <1>1, <1>2, <1>5, <1>6 DEF Calm, StillInv
  <1>9. UpInv'
    BY <1>1, <1>2, <1>3, <1>5, <1>6 DEF Calm, UpInv, Up, SameCommands
  <1>10. DownInv'
    BY <1>1, <1>2, <1>3, <1>4, <1>5, <1>6 DEF Calm, DownInv, SameCommands, Notices
  <1>11. ServerInv'
    BY <1>1, <1>2, <1>3, <1>4, <1>6 DEF Calm, ServerInv, SameCommands, Links
  <1>12. DcvInv'
    BY <1>1, <1>3, <1>4, <1>6 DEF Calm, DcvInv, SameCommands, Links
  <1>13. CommandInv'
    BY <1>1, <1>6 DEF Calm, CommandInv, SameCommands
  <1>14. StoppingInv'
    BY <1>1, <1>2, <1>3, <1>4, <1>6 DEF Calm, StoppingInv
  <1>15. ResumingInv'
    BY <1>1, <1>2, <1>3, <1>4, <1>6 DEF Calm, ResumingInv, SameCommands, Links
  <1> QED
    BY <1>7, <1>8, <1>9, <1>10, <1>11, <1>12, <1>13, <1>14, <1>15

\* Nothing moves but an operation, between two such steps.
LEMMA MoveCalm ==
  ASSUME Calm, PlainJob, PlainJob', UNCHANGED <<queue, ssm, notif>>,
         UNCHANGED <<row, server, ec2, host, alive, dcv>>
  PROVE  Calm'
  <1>1. Alike(queue, queue') /\ Alike(Rest, Rest')
    BY AsidesAlike DEF PlainJob, Rest
  <1>2. SameCommands
    BY DEF SameCommands, Written, PlainJob, Passing
  <1> QED
    BY <1>1, <1>2, FrameCalm

\* A handler deletes a message of no importance.
LEMMA AsideCalm ==
  ASSUME Control, Calm, PlainJob, PlainJob', queue # <<>>, Head(queue).type \in Asides, Ignore,
         UNCHANGED <<ssm, notif>>, UNCHANGED <<row, server, ec2, host, alive, dcv>>
  PROVE  Calm'
  <1>1. PICK t : t = Head(queue).type
    OBVIOUS
  <1>2. Alike(queue, queue') /\ Rest = queue /\ Rest' = queue'
    BY <1>1, IgnoreShrinks, AsidesAlike DEF PlainJob
  <1>3. SameCommands
    BY DEF SameCommands, Written, PlainJob, Passing
  <1> QED
    BY <1>2, <1>3, FrameCalm

\* Somebody sends such an event.
LEMMA SendCalm ==
  ASSUME Control, SerialInv, Calm, UNCHANGED act,
         NEW e, e = NoEvent \/ (e \in Events /\ e.type \in Asides), Send(queue, e),
         UNCHANGED <<ssm, notif>>, UNCHANGED <<row, server, ec2, host, alive, dcv>>
  PROVE  Calm'
  <1>1. job' = job /\ (Passing' <=> Passing) /\ (Passing => queue # <<>>)
    <2>1. job' = job
      BY JobStays
    <2>2. Passing => handling
      BY DEF Passing, Recording, Busy, SerialInv, JobInv, ApiOps, SharedOps
    <2>3. handling => queue # <<>>
      BY DEF handling, Control, Held
    <2> QED
      BY <2>1, <2>2, <2>3 DEF Passing, Recording, Busy
  <1>2. Grows(queue, queue', e) /\ Grows(Rest, Rest', e)
    BY <1>1, RestGrows
  <1>3. ~Waits(queue', "NO_EVENT") /\ ~Waits(Rest', "NO_EVENT")
    <2>1. queue' \in Seq(Events)
      BY DEF Control, Send
    <2>2. queue' # <<>> => Tail(queue') \in Seq(Events)
      BY <2>1
    <2>3. Passing' => queue' # <<>>
      BY <1>1, SendHead DEF Control
    <2> QED
      BY <2>1, <2>2, <2>3, OnlyEvents DEF Rest
  <1>4. e.type \in Asides \cup {"NO_EVENT"}
    BY DEF NoEvent
  <1>5. Alike(queue, queue') /\ Alike(Rest, Rest')
    BY <1>2, <1>3, <1>4, AsidesAlike
  <1>6. SameCommands
    BY <1>1 DEF SameCommands, Written, Recording, Busy
  <1> QED
    BY <1>1, <1>5, <1>6, FrameCalm

\* Nobody does anything.
LEMMA IdlePlain ==
  /\ job.op = "idle" => PlainJob
  /\ job'.op = "idle" => PlainJob'
  BY DEF PlainJob, Passing, Recording, Resumes, Rebooting, Ending, Busy

\* A session that is gone does not come back.
LEMMA GoneStaysGone ==
  ASSUME Calm, UNCHANGED <<row, ec2>>, job'.op = "create" => job.op = "create", ~Live
  PROVE  Calm'
  BY DEF Calm, Live, Stage

-----------------------------------------------------------------------------
(* The steps *)

\* Requests begin operations.
LEMMA RequestCalm ==
  ASSUME Control, Data, FreshInv, Serial, SerialInv, Driven, EmptyInv, Calm,
         NEW a \in ApiWorkers, Request(a)
  PROVE  Calm'
  <1>0. a \in Actors /\ AloneInv /\ (CanStart(a) => job = Idle /\ job.op = "idle")
    BY ApiIsActor, JobStarts DEF SerialInv, Idle
  <1>1. CASE CreateProvision(a)
    <2>1. row.state = "NONE" /\ CanStart(a) /\ Begin(a, "create", "write", NoRow, FALSE)
      BY <1>1 DEF CreateProvision, FreshInv, Fresh
    <2>2. job' = [op |-> "create", pc |-> "write", snap |-> NoRow, force |-> FALSE, res |-> "NONE"]
      BY <1>0, <2>1, JobBegins
    <2>3. job'.op = "create" /\ job'.pc = "write"
      BY <2>2
    <2>4. /\ row'.state = "NONE" /\ server' = "CREATED" /\ ec2' = "pending" /\ host' = "first"
          /\ ~alive' /\ dcv' = "NONE" /\ queue' = <<>> /\ notif' = <<>> /\ ssm'.running = {}
      BY <1>1, <2>1 DEF CreateProvision, EmptyInv, Stay
    <2>5. ~Passing' /\ Rest' = <<>> /\ ~Recording'
      BY <2>3, <2>4 DEF Passing, Recording, Busy, Rest
    <2>6. ~Runs(ssm') /\ \A ids : RunsKnown(ssm', ids)
      BY <2>4 DEF Runs, RunsKnown
    <2>7. OneRuns(ssm')
      BY <2>6, NothingToKnow
    <2> QED
      BY <2>3, <2>4, <2>5, <2>6, <2>7, NothingQueued
         DEF Calm, ChainInv, StillInv, UpInv, DownInv, ServerInv, DcvInv, CommandInv, StoppingInv,
             ResumingInv, Stage, Parked, Resumes, Rebooting, Booting, Chained, Ending, Down, Busy
  <1>2. ASSUME NEW op \in {"resume", "stop", "reboot", "terminate"}, NEW pc \in {"call",
               "write", "host"},
               NEW force, Begin(a, op, pc, row, force), CanStart(a),
               op \in {"resume", "stop", "terminate"} => pc # "write",
               op = "reboot" => pc = "write",
               Stay, UNCHANGED <<db, world, ssm, notif>>
        PROVE  Calm'
    <2>1. job'.op = op /\ job'.pc = pc /\ job.op = "idle"
      BY <1>0, <1>2, JobBegins DEF Idle
    <2>2. PlainJob /\ PlainJob'
      BY <1>2, <2>1, IdlePlain
         DEF PlainJob, Passing, Recording, Resumes, Rebooting, Ending, Busy
    <2> QED
      BY <1>2, <2>2, MoveCalm DEF db, world, Stay
  <1>3. CASE ApiResume(a)
    BY <1>2, <1>3 DEF ApiResume, ResumeStart
  <1>4. ASSUME NEW force \in BOOLEAN, ApiStop(a, force)
        PROVE  Calm'
    <2>1. CASE Live
      <3>1. row.dcv
        BY <1>4, <2>1 DEF ApiStop, Calm, DcvInv
      <3> QED
        BY <1>2, <1>4, <3>1 DEF ApiStop, StopStart
    <2>2. CASE ~Live
      <3>1. job'.op = "stop"
        BY <1>0, <1>4, JobBegins DEF ApiStop, StopStart
      <3> QED
        BY <1>4, <2>2, <3>1, GoneStaysGone DEF ApiStop, db, world
    <2> QED
      BY <2>1, <2>2
  <1>5. ASSUME NEW force \in BOOLEAN, ApiReboot(a, force) \/ ApiTerminate(a, force)
        PROVE  Calm'
    BY <1>2, <1>5 DEF ApiReboot, ApiTerminate, TerminateStart
  <1> QED
    BY <1>1, <1>3, <1>4, <1>5 DEF Request

\* The steps of operations.
LEMMA StepCalm ==
  ASSUME Control, Data, FreshInv, ReleasedInv, Serial, SerialInv, Driven, Calm,
         NEW a \in Actors, Step(a)
  PROVE  Calm'
  <1>0. /\ AloneInv /\ JobInv /\ job \in ActorStates
        /\ act[a].op # "idle" => job = act[a]
    BY JobOf, JobTyped DEF SerialInv
  <1>1. CASE CreateWrite(a)
    <2>1. /\ job.op = "create" /\ job'.op = "idle" /\ act[a].op # "idle" /\ Return(a, NoEvent)
          /\ Send(queue, NoEvent)
      BY <1>0, <1>1, JobReturns DEF CreateWrite, At, Return, JobInv, ApiOps, handling
    <2>2. queue' = queue /\ row'.state = "PROVISIONING" /\ UNCHANGED <<ssm, notif>>
          /\ UNCHANGED <<server, ec2, host, alive, dcv>>
      BY <1>1, <2>1 DEF CreateWrite, world, Send, NoEvent
    <2>3. row.state = "NONE"
      BY <1>1 DEF CreateWrite, At, FreshInv, Fresh
    <2>4. ~Passing /\ ~Passing' /\ Rest' = Rest
      BY <2>1, <2>2 DEF Passing, Recording, Busy, Rest
    <2> QED
      BY <2>1, <2>2, <2>3, <2>4
         DEF Calm, ChainInv, StillInv, UpInv, DownInv, ServerInv, DcvInv, CommandInv,
             StoppingInv, ResumingInv, Live, Stage, Parked, Resumes, Rebooting, Recording,
             Passing, Booting, Chained, Up, Ending, Written, Down, Busy
  <1>2. CASE StopRead(a)
    <2>1. job.op = "stop" /\ job.pc = "read" /\ act[a].op # "idle"
          /\ UNCHANGED <<queue, ssm, notif>> /\ UNCHANGED <<row, server, ec2, host, alive, dcv>>
      BY <1>0, <1>2 DEF StopRead, At, Raise, Stay, db, world
    <2>2. CASE Live
      <3>1. job'.op \in {"idle", "stop"} /\ job'.pc \in {"idle", "call"}
        BY <1>0, <1>2, <2>1, <2>2, JobBegins, JobRaises
           DEF StopRead, StopStart, Calm, DcvInv
      <3> QED
        BY <2>1, <3>1, MoveCalm
           DEF PlainJob, Passing, Recording, Resumes, Rebooting, Ending, Busy
    <2>3. CASE ~Live
      <3>1. job'.op \in {"idle", "stop"}
        BY <1>0, <1>2, <2>1, JobBegins, JobRaises DEF StopRead, StopStart
      <3> QED
        BY <2>1, <2>3, <3>1, GoneStaysGone
    <2> QED
      BY <2>2, <2>3
  <1>3. CASE BrokerDelete(a)
    <2>1. /\ job.pc = "call" /\ job.op \in {"stop", "terminate"} /\ act[a].op # "idle"
          /\ UNCHANGED <<queue, ssm, notif>> /\ UNCHANGED <<row, server, ec2, host, alive>>
      BY <1>0, <1>3 DEF BrokerDelete, DeleteDcvSession, At, Raise, Stay, db, world
    <2>2. CASE Goto(a, "write") /\ DeleteDcvSession
      <3>1. job'.op = job.op /\ job'.pc = "write"
        BY <1>0, <2>1, <2>2, JobGoes
      <3>2. job.op = "stop" => row.state = "READY"
        BY <1>0, <2>1 DEF JobInv, Begun, Found
      <3>3. ~Passing /\ ~Passing' /\ Rest' = Rest
        BY <2>1, <3>1 DEF Passing, Recording, Busy, Rest
      <3> QED
        BY <2>1, <2>2, <3>1, <3>2, <3>3
           DEF DeleteDcvSession, BrokerForgot, Calm, ChainInv, StillInv, UpInv, DownInv,
               ServerInv, DcvInv, CommandInv, StoppingInv, ResumingInv, Live, Stage, Parked,
               Resumes, Rebooting, Recording, Passing, Booting, Chained, Up, Ending, Written,
               Down, Busy
    <2>3. CASE Raise(a) /\ UNCHANGED dcv
      <3>1. job'.op = "idle"
        BY <1>0, <2>1, <2>3, JobRaises
      <3>2. PlainJob /\ PlainJob'
        BY <2>1, <3>1, IdlePlain
           DEF PlainJob, Passing, Recording, Resumes, Rebooting, Ending, Busy
      <3> QED
        BY <2>1, <2>3, <3>2, MoveCalm
    <2> QED
      BY <1>3, <2>2, <2>3 DEF BrokerDelete, world
  <1>4. CASE StopWrite(a)
    <2>1. job.op = "stop" /\ job.pc = "write" /\ act[a].op # "idle" /\ job = act[a]
      BY <1>0, <1>4 DEF StopWrite, At
    <2>2. row.state = "READY" /\ row = job.snap
      BY <1>0, <2>1 DEF JobInv, Begun, Found
    <2>3. CASE ~Live
      <3>1. ec2 = "terminated"
        BY <2>1, <2>2, <2>3 DEF Live, Stage
      <3>2. ec2' = "terminated"
        BY <1>4, <3>1 DEF StopWrite, StopRefused, world
      <3> QED
        BY <3>2 DEF Calm, Live
    <2>4. CASE Live
      <3>1. row.dcv
        BY <2>2, <2>4 DEF Calm, DcvInv
      <3>2. /\ Goto(a, "publish") /\ UNCHANGED <<queue, ssm, notif>>
            /\ UNCHANGED <<server, ec2, host, alive, dcv>>
        BY <1>4, <2>1, <2>2, <3>1 DEF StopWrite, UpdateRaises, Stay, world
      <3>3. row'.state = "STOPPING" /\ row'.dcv
        BY <1>4, <2>1, <2>2, <3>1 DEF StopWrite, Update, Moved, Data, Rows
      <3>4. job'.op = "stop" /\ job'.pc = "publish"
        BY <1>0, <2>1, <3>2, JobGoes
      <3>5. ~Passing /\ ~Passing' /\ Rest' = Rest
        BY <2>1, <3>2, <3>4 DEF Passing, Recording, Busy, Rest
      <3> QED
        BY <2>1, <2>2, <2>4, <3>2, <3>3, <3>4, <3>5
           DEF Calm, ChainInv, StillInv, UpInv, DownInv, ServerInv, DcvInv, CommandInv,
               StoppingInv, ResumingInv, Live, Stage, Parked, Resumes, Rebooting, Recording,
               Passing, Booting, Chained, Up, Ending, Written, Down, Busy
    <2> QED
      BY <2>3, <2>4
  <1>5. CASE PublishDeletion(a)
    <2>1. /\ job.op \in {"stop", "terminate"} /\ job.pc = "publish" /\ job'.op = "idle"
          /\ act[a].op # "idle" /\ Return(a, Event("VALIDATE_DELETION"))
          /\ UNCHANGED <<ssm, notif>> /\ UNCHANGED <<row, server, ec2, host, alive, dcv>>
      BY <1>0, <1>5, JobReturns DEF PublishDeletion, At, db, world
    <2>2. row.state \in {"STOPPING", "DELETING"} /\ (job.op = "stop" => row.state = "STOPPING")
      BY <1>0, <2>1 DEF JobInv, Found, ActorStates, Rows
    <2>3. ~Passing /\ ~Passing'
      BY <2>1 DEF Passing, Recording, Busy
    <2>4. PICK e : e = Event("VALIDATE_DELETION") /\ e # NoEvent
      BY EventIsEvent DEF EventTypes, Undated
    <2>5. /\ Linked(queue') <=> Linked(queue)
          /\ OneLink(queue) => OneLink(queue')
          /\ StopLast(queue) => StopLast(queue')
          /\ \A t : t \notin Asides \cup {"VALIDATE_DELETION"} => (Waits(queue', t) <=> Waits(queue, t))
          /\ "VALIDATE_DELETION" \notin recent => Waits(queue', "VALIDATE_DELETION")
          /\ Rest = queue /\ Rest' = queue'
      BY <2>1, <2>3, <2>4, SharedReturns DEF SharedOps
    <2>6. \A t \in Links \cup Notices : t \notin Asides \cup {"VALIDATE_DELETION"}
      BY DEF Links, Notices, Asides
    <2>7. /\ \A t \in {"EC2_STOPPING", "EC2_STOPPED", "EC2_RUNNING", "REBOOT_COMPLETE", "RESUME_SUCCESS",
                       "RESUME_FAILED", "RESUME_OTHER", "VALIDATE_CREATION"} :
                Waits(queue', t) <=> Waits(queue, t)
      BY <2>5, <2>6 DEF Links, Notices
    <2>8. ~DedupWindow => "VALIDATE_DELETION" \notin recent
      BY DEF Driven, DeletionInv
    <2> QED
      BY <2>1, <2>2, <2>3, <2>5, <2>7, <2>8
         DEF Calm, ChainInv, StillInv, UpInv, DownInv, ServerInv, DcvInv, CommandInv,
             StoppingInv, ResumingInv, Live, Stage, Parked, Resumes, Rebooting, Recording,
             Passing, Booting, Chained, Up, Ending, Written, Down, Busy
  <1>6. CASE ResumeRead(a) \/ TerminateRead(a)
    <2>1. /\ job.op \in {"resume", "terminate"} /\ job.pc = "read" /\ act[a].op # "idle"
          /\ UNCHANGED <<queue, ssm, notif>> /\ UNCHANGED <<row, server, ec2, host, alive, dcv>>
      BY <1>0, <1>6 DEF ResumeRead, TerminateRead, At, Raise, Stay, db, world
    <2>2. /\ job'.op \in {"idle", "resume", "terminate"} /\ job'.pc \in {"idle", "call", "host"}
      <3>1. CASE ResumeStart(a)
        <4>1. Begin(a, "resume", "call", row, FALSE)
          BY <3>1 DEF ResumeStart
        <4>2. job' = [op |-> "resume", pc |-> "call", snap |-> row, force |-> FALSE, res |-> "NONE"]
          BY <1>0, <2>1, <4>1, JobBegins
        <4> QED
          BY <4>2
      <3>2. ASSUME NEW force, TerminateStart(a, force)
            PROVE  job'.op = "terminate" /\ job'.pc \in {"call", "host"}
        BY <1>0, <2>1, <3>2, JobBegins DEF TerminateStart
      <3>3. CASE Raise(a)
        BY <1>0, <2>1, <3>3, JobRaises
      <3> QED
        BY <1>6, <3>1, <3>2, <3>3 DEF ResumeRead, TerminateRead
    <2> QED
      BY <2>1, <2>2, MoveCalm
         DEF PlainJob, Passing, Recording, Resumes, Rebooting, Ending, Busy
  <1>7. CASE ResumeHost(a)
    <2>1. /\ job.op = "resume" /\ job.pc = "call" /\ act[a].op # "idle"
          /\ UNCHANGED <<queue, ssm, notif>> /\ UNCHANGED <<row, server, alive, dcv>>
      BY <1>0, <1>7 DEF ResumeHost, StartHost, At, Raise, Stay, db, world
    <2>2. row.state = "STOPPED"
      BY <1>0, <2>1 DEF JobInv, Begun, Found
    <2>3. CASE ~Live
      <3>1. ec2 = "terminated"
        BY <2>1, <2>2, <2>3 DEF Live, Stage
      <3>2. ec2' = "terminated"
        BY <1>7, <3>1 DEF ResumeHost, StartRefused, world
      <3> QED
        BY <3>2 DEF Calm, Live
    <2>4. CASE Live
      <3>1. ec2 = "stopped" /\ ~Passing
        BY <2>1, <2>2, <2>4
           DEF Calm, UpInv, Parked, Stage, Resumes, Passing, Recording, Busy
      <3>2. /\ Goto(a, "write") /\ ec2' = "pending"
            /\ host' = IF host = "asleep" THEN "waking" ELSE "booting"
        BY <1>7, <3>1 DEF ResumeHost, StartRefused, StartHost
      <3>3. job'.op = "resume" /\ job'.pc = "write"
        BY <1>0, <2>1, <3>2, JobGoes
      <3>4. ~Passing' /\ Rest' = Rest
        BY <2>1, <3>1, <3>3 DEF Passing, Recording, Busy, Rest
      <3> QED
        BY <2>1, <2>2, <2>4, <3>1, <3>2, <3>3, <3>4
           DEF Calm, ChainInv, StillInv, UpInv, DownInv, ServerInv, DcvInv, CommandInv,
               StoppingInv, ResumingInv, Live, Stage, Parked, Resumes, Rebooting, Recording,
               Passing, Booting, Chained, Up, Ending, Written, Down, Busy
    <2> QED
      BY <2>3, <2>4
  <1>8. CASE ResumeWrite(a)
    <2>1. /\ job.op = "resume" /\ job.pc = "write" /\ act[a].op # "idle"
          /\ UNCHANGED <<ssm, notif>> /\ UNCHANGED <<server, ec2, host, alive, dcv>>
      BY <1>0, <1>8 DEF ResumeWrite, At, world
    <2>2. row.state = "STOPPED"
      BY <1>0, <2>1 DEF JobInv, Begun, Found
    <2>3. row'.state = "RESUMING" /\ Return(a, NoEvent)
      BY <1>0, <1>8, <2>2, MovedTyped DEF ResumeWrite, Update, UpdateRaises, SessionStates
    <2>4. job'.op = "idle" /\ ~Passing /\ ~Passing'
      BY <1>0, <2>1, <2>3, JobReturns DEF Passing, Recording, Busy
    <2>5. Alike(queue, queue') /\ Rest = queue /\ Rest' = queue'
      BY <2>1, <2>3, <2>4, SharedReturns DEF SharedOps
    <2>6. \A t \in {"EC2_STOPPING", "EC2_STOPPED", "EC2_RUNNING", "REBOOT_COMPLETE", "RESUME_SUCCESS",
                    "RESUME_FAILED", "RESUME_OTHER", "VALIDATE_CREATION", "VALIDATE_DELETION"} :
                Waits(queue', t) <=> Waits(queue, t)
      BY <2>5 DEF Alike, Asides
    <2>7. /\ Linked(queue') <=> Linked(queue)
          /\ OneLink(queue) => OneLink(queue')
          /\ StopLast(queue) => StopLast(queue')
      BY <2>5 DEF Alike
    <2> QED
      BY <2>1, <2>2, <2>3, <2>4, <2>5, <2>6, <2>7
         DEF Calm, ChainInv, StillInv, UpInv, DownInv, ServerInv, DcvInv, CommandInv,
             StoppingInv, ResumingInv, Live, Stage, Parked, Resumes, Rebooting, Recording,
             Passing, Booting, Chained, Up, Ending, Written, Down, Busy
  <1>9. CASE RebootWrite(a)
    <2>1. job.op = "reboot" /\ job.pc = "write" /\ act[a].op # "idle"
      BY <1>0, <1>9 DEF RebootWrite, At
    <2>2. row.state \in {"READY", "ERROR"}
      BY <1>0, <2>1 DEF JobInv, Begun, Found
    <2>3. /\ row'.state = "RESUMING" /\ Goto(a, "host") /\ UNCHANGED <<queue, ssm, notif>>
          /\ UNCHANGED <<server, ec2, host, alive, dcv>>
      BY <1>0, <1>9, <2>2, MovedTyped
         DEF RebootWrite, Update, UpdateRaises, SessionStates, Stay, world
    <2>4. job'.op = "reboot" /\ job'.pc = "host"
      BY <1>0, <2>1, <2>3, JobGoes
    <2>5. ~Passing /\ ~Passing' /\ Rest' = Rest
      BY <2>1, <2>3, <2>4 DEF Passing, Recording, Busy, Rest
    <2> QED
      BY <2>1, <2>2, <2>3, <2>4, <2>5
         DEF Calm, ChainInv, StillInv, UpInv, DownInv, ServerInv, DcvInv, CommandInv,
             StoppingInv, ResumingInv, Live, Stage, Parked, Resumes, Rebooting, Recording,
             Passing, Booting, Chained, Up, Ending, Written, Down, Busy
  <1>10. CASE RebootHost(a)
    <2>1. /\ job.op = "reboot" /\ job.pc = "host" /\ job'.op = "idle" /\ act[a].op # "idle"
          /\ Return(a, NoEvent) /\ Send(queue, NoEvent)
      BY <1>0, <1>10, JobReturns DEF RebootHost, At, Return, JobInv, ApiOps, handling
    <2>2. row.state = "RESUMING"
      BY <1>0, <2>1 DEF JobInv, Found, ActorStates, Rows
    <2>3. /\ queue' = queue /\ UNCHANGED <<ssm, notif>> /\ UNCHANGED <<row, server, dcv, ec2>>
          /\ ec2 = "running" => host' = "booting" /\ ~alive'
      BY <1>10, <2>1 DEF RebootHost, Send, db, world
    <2>4. ~Passing /\ ~Passing' /\ Rest' = Rest
      BY <2>1, <2>3 DEF Passing, Recording, Busy, Rest
    <2> QED
      BY <2>1, <2>2, <2>3, <2>4
         DEF Calm, ChainInv, StillInv, UpInv, DownInv, ServerInv, DcvInv, CommandInv,
             StoppingInv, ResumingInv, Live, Stage, Parked, Resumes, Rebooting, Recording,
             Passing, Booting, Chained, Up, Ending, Written, Down, Busy
  <1>11. CASE TerminateWrite(a)
    <2>1. job.op = "terminate" /\ job.pc = "write" /\ row'.state = "DELETING" /\ act[a].op # "idle"
      BY <1>0, <1>11, MovedTyped DEF TerminateWrite, Update, At, SessionStates
    <2>2. row.state # "NONE"
      BY <2>1, RowIsThere
    <2>3. job'.op = "terminate" /\ job'.pc = "publish" /\ UNCHANGED <<queue, ssm, notif>>
          /\ UNCHANGED <<server, ec2, host, alive, dcv>>
      BY <1>0, <1>11, <2>1, <2>2, JobGoes DEF TerminateWrite, UpdateRaises, Stay, world
    <2>4. ~Passing /\ ~Passing' /\ Rest' = Rest
      BY <2>1, <2>3 DEF Passing, Recording, Busy, Rest
    <2> QED
      BY <2>1, <2>2, <2>3, <2>4
         DEF Calm, ChainInv, StillInv, UpInv, DownInv, ServerInv, DcvInv, CommandInv,
             StoppingInv, ResumingInv, Live, Stage, Parked, Resumes, Rebooting, Recording,
             Passing, Booting, Chained, Up, Ending, Written, Down, Busy
  <1>12. CASE TerminateStoppedHost(a)
    BY <1>12 DEF TerminateStoppedHost, TerminateHost, Calm, Live
  <1>13. CASE TerminateDelete(a)
    <2>1. row'.state = "NONE"
      BY <1>13, NoRowTyped DEF TerminateDelete
    <2>2. job'.op = "idle"
      BY <1>0, <1>13, JobReturns, JobRaises DEF TerminateDelete, At
    <2> QED
      BY <2>1, <2>2 DEF Calm, Live, Stage
  <1> QED
    BY <1>1, <1>2, <1>3, <1>4, <1>5, <1>6, <1>7, <1>8, <1>9, <1>10, <1>11, <1>12, <1>13
       DEF Step

\* A handler begins.
LEMMA StartCalm ==
  ASSUME Control, Serial, SerialInv, Calm, NEW r, Receives(r),
         NEW op \in Ops \ {"idle", "create", "reboot"}, NEW pc, NEW snap, NEW force,
         Begin(Handler, op, pc, snap, force), Stay,
         op = "rebooted" => pc = "host", op = "resume_success" => pc = "publish",
         op = "validate_creation" => pc = "call", op \in SharedOps => pc = "read",
         UNCHANGED <<ssm, notif>>, UNCHANGED <<row, server, ec2, host, alive, dcv>>
  PROVE  Calm'
  <1>1. CanStart(Handler) /\ AloneInv /\ job.op = "idle" /\ Handler \in Actors /\ op # "idle"
    BY JobReceives, HandlerIsActor DEF SerialInv, Idle
  <1>2. job'.op = op /\ job'.pc = pc
    BY <1>1, JobBegins
  <1>3. PlainJob /\ PlainJob'
    BY <1>1, <1>2, IdlePlain
       DEF PlainJob, Passing, Recording, Resumes, Rebooting, Ending, Busy, SharedOps
  <1> QED
    BY <1>3, MoveCalm DEF Stay

\* A handler that begins an operation of its own preserves it.
LEMMA RunCalm ==
  ASSUME Control, Serial, SerialInv, Calm, NEW r, Receives(r),
         NEW op \in Ops \ {"idle", "create", "reboot"}, NEW pc, Run(op, pc),
         op = "rebooted" => pc = "host", op = "resume_success" => pc = "publish",
         op = "validate_creation" => pc = "call", op \in SharedOps => pc = "read",
         UNCHANGED <<ssm, notif>>, UNCHANGED <<row, server, ec2, host, alive, dcv>>
  PROVE  Calm'
  <1>1. PICK force : force = FALSE
    OBVIOUS
  <1>2. Begin(Handler, op, pc, row, force) /\ Stay
    BY <1>1 DEF Run
  <1> QED
    BY <1>2, StartCalm

\* A handler deletes its message at once.
LEMMA IgnoreCalm ==
  ASSUME Control, Serial, SerialInv, Calm, NEW r, Receives(r), Ignore,
         UNCHANGED <<ssm, notif>>, UNCHANGED <<row, server, ec2, host, alive, dcv>>,
         r \in {"VALIDATE_DELETION", "EC2_STOPPED"} => row.state # "STOPPING",
         r \in {"REBOOT_COMPLETE", "RESUME_SUCCESS", "RESUME_FAILED", "VALIDATE_CREATION"} =>
            row.state # "RESUMING"
  PROVE  Calm'
  <1>1. CanStart(Handler) /\ AloneInv /\ job.op = "idle" /\ Handler \in Actors
        /\ queue # <<>> /\ Head(queue).type = r
    BY JobReceives, HandlerIsActor DEF SerialInv, Idle
  <1>2. job'.op = "idle" /\ ~Passing /\ ~Passing'
    BY <1>1, JobReturns DEF Ignore, Passing, Recording, Busy
  <1>3. Shrinks(queue, queue', r) /\ Rest = queue /\ Rest' = queue'
    BY <1>1, <1>2, IgnoreShrinks
  <1>4. /\ Linked(queue') => Linked(queue)
        /\ OneLink(queue) => OneLink(queue')
        /\ StopLast(queue) => StopLast(queue')
        /\ \A t : Waits(queue', t) => Waits(queue, t)
        /\ \A t : Waits(queue, t) => Waits(queue', t) \/ t = r
    BY <1>3 DEF Shrinks
  <1>5. /\ Stage' = Stage /\ (Parked' <=> Parked) /\ (Booting' <=> Booting)
        /\ (Down' => Down) /\ (Chained' => Chained)
        /\ ~Recording /\ ~Recording' /\ ~Rebooting /\ ~Rebooting' /\ ~Resumes' /\ ~Ending
    BY <1>1, <1>2, <1>3, <1>4
       DEF Stage, Parked, Booting, Down, Chained, Recording, Rebooting, Resumes, Ending, Busy
  <1>6. SUFFICES ASSUME Live
                 PROVE  /\ ChainInv' /\ StillInv' /\ UpInv' /\ DownInv' /\ ServerInv'
                        /\ DcvInv' /\ CommandInv' /\ StoppingInv' /\ ResumingInv'
    BY <1>5 DEF Calm, Live
  <1>7. Stage = row.state
    BY <1>1 DEF Stage
  <1>8. ChainInv' /\ StillInv' /\ UpInv'
    BY <1>2, <1>3, <1>4, <1>5, <1>6 DEF Calm, ChainInv, StillInv, UpInv, Up
  <1>9. DownInv'
    BY <1>2, <1>3, <1>4, <1>5, <1>6, <1>7 DEF Calm, DownInv
  <1>10. ServerInv' /\ CommandInv'
    BY <1>1, <1>2, <1>3, <1>4, <1>5, <1>6 DEF Calm, ServerInv, CommandInv, Written, Busy
  <1>11. DcvInv'
    <2>1. DcvInv /\ (Waits(Rest, "REBOOT_COMPLETE") /\ r # "REBOOT_COMPLETE" => Waits(Rest', "REBOOT_COMPLETE"))
      BY <1>3, <1>4, <1>6 DEF Calm
    <2> QED
      BY <1>1, <1>2, <1>5, <2>1 DEF DcvInv, Busy, Ending
  <1>12. StoppingInv' /\ ResumingInv'
    BY <1>1, <1>2, <1>3, <1>4, <1>5, <1>6, <1>7 DEF Calm, StoppingInv, ResumingInv, Busy
  <1> QED
    BY <1>8, <1>9, <1>10, <1>11, <1>12

\* The handler's steps on the way to a running session.
LEMMA HandleUpCalm ==
  ASSUME Control, Data, ReleasedInv, Serial, SerialInv, Driven, Calm,
         \/ HandleHostReady \/ ReadyCreate \/ ReadyWrite \/ ReadyPublish
         \/ HandleRebootComplete \/ HandleRebootCompleteByController
         \/ RebootedDescribe \/ RebootedResume \/ RebootedRecord
         \/ HandleValidateCreation \/ ValidateCreationDescribe \/ ValidateCreationWrite
  PROVE  Calm'
  <1>0. /\ AloneInv /\ JobInv /\ job \in ActorStates /\ Handler \in Actors
        /\ act[Handler].op # "idle" =>
              job = act[Handler] /\ queue # <<>> /\ Head(queue).type = EventOf(job.op)
    BY JobOf, JobTyped, HandlerIsActor DEF SerialInv, JobInv, Control, Held
  <1>1. CASE HandleHostReady
    BY <1>1, RunCalm, IgnoreCalm DEF HandleHostReady, db, Outside, world, Ops, SharedOps
  <1>2. CASE ReadyCreate
    <2>1. PICK r : act' = [act EXCEPT ![Handler] = [act[Handler] EXCEPT !.pc = "write", !.res = r]]
      BY <1>2 DEF ReadyCreate
    <2>2. PICK s : s = [act[Handler] EXCEPT !.pc = "write", !.res = r]
      OBVIOUS
    <2>3. job = act[Handler] /\ job.op = "ready" /\ job.pc = "call"
      BY <1>0, <1>2 DEF ReadyCreate, At
    <2>4. s.op = "ready"
      BY <1>0, <2>2, <2>3 DEF ActorStates
    <2>5. job' = s
      BY <1>0, <2>1, <2>2, <2>3, <2>4, JobMoves DEF AloneInv
    <2>6. row.state \in {"PROVISIONING", "CREATING"}
      BY <1>0, <2>3 DEF JobInv, Begun, Found
    <2>7. /\ UNCHANGED <<queue, ssm, notif>> /\ UNCHANGED <<row, server, ec2, host, alive>>
          /\ dcv' \in {dcv, "CREATING"}
      BY <1>2 DEF ReadyCreate, Stay, db
    <2>8. job'.op = "ready" /\ ~Passing /\ ~Passing' /\ Rest' = Rest
      BY <2>3, <2>4, <2>5, <2>7 DEF Passing, Recording, Busy, Rest
    <2> QED
      BY <2>3, <2>6, <2>7, <2>8
         DEF Calm, ChainInv, StillInv, UpInv, DownInv, ServerInv, DcvInv, CommandInv,
             StoppingInv, ResumingInv, Live, Stage, Parked, Resumes, Rebooting, Recording,
             Passing, Booting, Chained, Up, Ending, Written, Down, Busy
  <1>3. CASE ReadyWrite
    <2>1. /\ job = act[Handler] /\ job.op = "ready" /\ job.pc = "write" /\ act[Handler].op # "idle"
          /\ UNCHANGED <<ssm, notif>> /\ UNCHANGED <<server, ec2, host, alive, dcv>>
      BY <1>0, <1>3 DEF ReadyWrite, At, Outside, world
    <2>2. row.state # "NONE" /\ row.state \in {"PROVISIONING", "CREATING"}
      BY <1>0, <2>1 DEF JobInv, Begun, Found
    <2>3. Head(queue).type = "HOST_READY" /\ queue # <<>> /\ ~Passing /\ Rest = queue
      BY <1>0, <2>1 DEF EventOf, Passing, Recording, Busy, Rest
    <2>4. Linked(queue)
      BY <2>3, TailShrinks DEF Shrinks, Links, Control
    <2>5. CASE act[Handler].res = "CREATING"
      <3>1. job'.op = "ready" /\ job'.pc = "publish" /\ UNCHANGED queue /\ row'.state = "INITIALIZING"
        BY <1>0, <1>3, <2>1, <2>2, <2>5, JobGoes DEF ReadyWrite, Update, UpdateRaises, Stay
      <3>2. ~Passing' /\ Rest' = Rest
        BY <2>3, <3>1 DEF Passing, Recording, Busy, Rest
      <3> QED
        BY <2>1, <2>2, <2>3, <2>4, <3>1, <3>2
           DEF Calm, ChainInv, StillInv, UpInv, DownInv, ServerInv, DcvInv, CommandInv,
               StoppingInv, ResumingInv, Live, Stage, Parked, Resumes, Rebooting, Recording,
               Passing, Booting, Chained, Up, Ending, Written, Down, Busy
    <2>6. CASE act[Handler].res # "CREATING" /\ counters.creation < SESSION_CREATION_THRESHOLD_COUNT
      <3>1. job'.op = "idle" /\ UNCHANGED queue /\ row'.state \in {"PROVISIONING", "CREATING"}
        BY <1>0, <1>3, <2>1, <2>2, <2>6, JobRaises, MovedTyped
           DEF ReadyWrite, Update, Raise, SessionStates
      <3>2. ~Passing' /\ Rest' = Rest
        BY <2>3, <3>1 DEF Passing, Recording, Busy, Rest
      <3> QED
        BY <2>1, <2>2, <2>3, <2>4, <3>1, <3>2
           DEF Calm, ChainInv, StillInv, UpInv, DownInv, ServerInv, DcvInv, CommandInv,
               StoppingInv, ResumingInv, Live, Stage, Parked, Resumes, Rebooting, Recording,
               Passing, Booting, Chained, Up, Ending, Written, Down, Busy
    <2>7. CASE act[Handler].res # "CREATING" /\ ~(counters.creation < SESSION_CREATION_THRESHOLD_COUNT)
      <3>1. row'.state = "ERROR" /\ Ignore
        BY <1>3, <2>2, <2>7 DEF ReadyWrite, Update, UpdateRaises
      <3>2. job'.op = "idle" /\ ~Passing'
        BY <1>0, <2>1, <3>1, JobReturns DEF Ignore, Passing, Recording, Busy
      <3>3. Shrinks(queue, queue', "HOST_READY") /\ Rest' = queue'
        BY <2>3, <3>1, <3>2, IgnoreShrinks
      <3>4. /\ OneLink(queue) => OneLink(queue') /\ ~Linked(queue')
            /\ StopLast(queue) => StopLast(queue')
            /\ \A t : Waits(queue', t) => Waits(queue, t)
            /\ \A t : Waits(queue, t) => Waits(queue', t) \/ t = "HOST_READY"
        BY <3>3 DEF Shrinks, Links
      <3>5. Live' => Live
        BY <2>1, <2>2 DEF Live, Stage
      <3> QED
        BY <2>1, <2>2, <2>3, <2>4, <3>1, <3>2, <3>3, <3>4, <3>5
           DEF Calm, ChainInv, StillInv, UpInv, DownInv, ServerInv, DcvInv, CommandInv,
               StoppingInv, ResumingInv, Live, Stage, Parked, Resumes, Rebooting, Recording,
               Passing, Booting, Chained, Up, Ending, Written, Down, Busy
    <2> QED
      BY <2>5, <2>6, <2>7
  <1>4. CASE ReadyPublish
    <2>1. /\ job.op = "ready" /\ job.pc = "publish" /\ act[Handler].op # "idle"
          /\ Return(Handler, Event("VALIDATE_CREATION"))
          /\ UNCHANGED <<ssm, notif>> /\ UNCHANGED <<row, server, ec2, host, alive, dcv>>
      BY <1>0, <1>4 DEF ReadyPublish, At, Outside, world
    <2>2. job'.op = "idle" /\ row.state = "INITIALIZING" /\ ~Passing /\ ~Passing'
      BY <1>0, <2>1, JobReturns DEF JobInv, Found, Passing, Recording, Busy
    <2>3. PICK e : e = Event("VALIDATE_CREATION") /\ e \in Events /\ e.type = "VALIDATE_CREATION"
      BY EventIsEvent DEF EventTypes, Undated
    <2>4. queue # <<>> /\ Head(queue).type = "HOST_READY"
      BY <1>0, <2>1 DEF EventOf
    <2>5. /\ \E q : Shrinks(queue, q, "HOST_READY") /\ Grows(q, queue', e)
          /\ Rest = queue /\ Rest' = queue'
      BY <2>1, <2>2, <2>3, <2>4, ReturnMoves
    <2>6. PICK q : Shrinks(queue, q, "HOST_READY") /\ Grows(q, queue', e)
      BY <2>5
    <2>7. /\ Linked(queue) /\ (OneLink(queue) => OneLink(queue'))
          /\ StopLast(queue) => StopLast(queue')
          /\ \A t : Waits(queue', t) => Waits(queue, t) \/ t = "VALIDATE_CREATION"
          /\ \A t : Waits(queue, t) => Waits(queue', t) \/ t = "HOST_READY"
      <3>1. "HOST_READY" \in Links /\ "VALIDATE_CREATION" \notin Notices
        BY DEF Links, Notices
      <3> QED
        BY <2>3, <2>6, <3>1 DEF Shrinks, Grows
    <2> QED
      BY <2>1, <2>2, <2>5, <2>7
         DEF Calm, ChainInv, StillInv, UpInv, DownInv, ServerInv, DcvInv, CommandInv,
             StoppingInv, ResumingInv, Live, Stage, Parked, Resumes, Rebooting, Recording,
             Passing, Booting, Chained, Up, Ending, Written, Down, Busy
  <1>5. CASE HandleRebootComplete
    <2>1. CASE Run("rebooted", "call") /\ row.state = "READY"
      <3>0. Begin(Handler, "rebooted", "call", row, FALSE)
        BY <2>1 DEF Run
      <3>1. CanStart(Handler) /\ job.op = "idle"
        BY <1>0, <1>5, JobReceives DEF HandleRebootComplete, Idle
      <3>2. job' = [op |-> "rebooted", pc |-> "call", snap |-> row, force |-> FALSE, res |-> "NONE"]
        BY <1>0, <3>0, <3>1, JobBegins
      <3>3. job'.op = "rebooted" /\ job'.pc = "call"
        BY <3>2
      <3>4. UNCHANGED <<queue, ssm, notif>> /\ UNCHANGED <<row, server, ec2, host, alive, dcv>>
        BY <1>5, <2>1 DEF HandleRebootComplete, Run, Stay, db, Outside, world
      <3>5. ~Passing /\ ~Passing' /\ Rest' = Rest
        BY <3>1, <3>3, <3>4 DEF Passing, Recording, Busy, Rest
      <3> QED
        BY <2>1, <3>1, <3>3, <3>4, <3>5
           DEF Calm, ChainInv, StillInv, UpInv, DownInv, ServerInv, DcvInv, CommandInv,
               StoppingInv, ResumingInv, Live, Stage, Parked, Resumes, Rebooting, Recording,
               Passing, Booting, Chained, Up, Ending, Written, Down, Busy
    <2>2. CASE ~(Run("rebooted", "call") /\ row.state = "READY")
      BY <1>5, <2>2, RunCalm, IgnoreCalm
         DEF HandleRebootComplete, db, Outside, world, Ops, SharedOps
    <2> QED
      BY <2>1, <2>2
  <1>6. CASE HandleRebootCompleteByController
    BY <1>6, IgnoreCalm DEF HandleRebootCompleteByController, db, Outside, world
  <1>7. CASE RebootedDescribe
    <2>1. /\ job.op = "rebooted" /\ job.pc = "call" /\ act[Handler].op # "idle"
          /\ UNCHANGED <<row, ec2>>
      BY <1>0, <1>7, RebootedDescribeEffect DEF At, RebootedDescribe, Outside, world
    <2>2. job'.op # "create"
      <3>1. Raise(Handler) \/ Ignore \/ (\E pc : Goto(Handler, pc))
        BY <1>7, RebootedDescribeEffect
      <3> QED
        BY <1>0, <2>1, <3>1, JobRaises, JobReturns, JobGoes DEF Ignore
    <2>3. Head(queue).type = "REBOOT_COMPLETE" /\ queue # <<>> /\ ~Passing /\ Rest = queue
      BY <1>0, <2>1 DEF EventOf, Passing, Recording, Busy, Rest
    <2>4. Linked(Rest)
      BY <2>3, TailShrinks DEF Shrinks, Links, Control
    <2>5. ~Live
      BY <2>1, <2>4 DEF Calm, DcvInv, StillInv, Stage, Chained, Busy
    <2> QED
      BY <2>1, <2>2, <2>5, GoneStaysGone
  <1>8. CASE RebootedResume
    <2>1. /\ job.op = "rebooted" /\ job.pc = "host" /\ act[Handler].op # "idle"
          /\ UNCHANGED <<queue, notif>> /\ UNCHANGED <<row, server, ec2, host, alive, dcv>>
      BY <1>0, <1>8 DEF RebootedResume, At, Raise, Stay, db, world
    <2>2. CASE Raise(Handler) /\ UNCHANGED ssm
      <3>1. job'.op = "idle"
        BY <1>0, <2>1, <2>2, JobRaises
      <3>2. PlainJob /\ PlainJob'
        BY <2>1, <3>1, IdlePlain
           DEF PlainJob, Passing, Recording, Resumes, Rebooting, Ending, Busy
      <3> QED
        BY <2>1, <2>2, <3>2, MoveCalm
    <2>3. CASE SendCommand("resume") /\ Goto(Handler, "record")
      <3>1. job'.op = "rebooted" /\ job'.pc = "record"
        BY <1>0, <2>1, <2>3, JobGoes
      <3>2. Head(queue).type = "REBOOT_COMPLETE" /\ queue # <<>>
        BY <1>0, <2>1 DEF EventOf
      <3>3. ~Passing /\ Passing' /\ Rest = queue /\ Rest' = Tail(queue)
        BY <2>1, <3>1 DEF Passing, Recording, Busy, Rest
      <3>4. /\ Linked(Rest) /\ (OneLink(Rest) => OneLink(Rest') /\ ~Linked(Rest'))
            /\ \A t : Waits(Rest', t) => Waits(Rest, t)
        BY <3>2, <3>3, TailShrinks DEF Shrinks, Links, Control
      <3>5. CASE Live
        <4>1. ~Runs(ssm) /\ ~Reported(notif) /\ OneLink(Rest) /\ ~Booting
          BY <3>4, <3>5 DEF Calm, ChainInv
        <4>2. /\ Runs(ssm') /\ OneRuns(ssm') /\ RunsKnown(ssm', Written')
          <5>1. Written' = ssm'.rows \cup {ssm'.sent}
            BY <3>1 DEF Written, Recording, Busy
          <5>2. ssm'.sent = ssm.sent + 1
            BY <2>3, CommandRuns
          <5>3. RunsKnown(ssm, Written') /\ OneRuns(ssm)
            BY <4>1, NothingToKnow
          <5>4. ssm.sent + 1 \in Written'
            BY <5>1, <5>2
          <5> QED
            BY <2>3, <4>1, <5>3, <5>4, CommandRuns
        <4>3. ReportsKnown(notif', Written')
          BY <2>1, <4>1, NothingToKnow
        <4> HIDE DEF Rest
        <4> QED
          BY <2>1, <3>1, <3>3, <3>4, <3>5, <4>1, <4>2, <4>3
             DEF Calm, ChainInv, StillInv, UpInv, DownInv, ServerInv, DcvInv, CommandInv, StoppingInv,
                 ResumingInv, Live, Stage, Parked, Resumes, Rebooting, Recording, Passing, Booting,
                 Chained, Up, Ending, Down, Busy
      <3>6. CASE ~Live
        BY <2>1, <3>1, <3>6, GoneStaysGone
      <3> QED
        BY <3>5, <3>6
    <2> QED
      BY <1>8, <2>2, <2>3 DEF RebootedResume
  <1>9. CASE RebootedRecord
    <2>1. /\ job.op = "rebooted" /\ job.pc = "record" /\ act[Handler].op # "idle"
          /\ UNCHANGED notif /\ UNCHANGED <<row, ec2, host, alive, dcv>> /\ RecordCommand
      BY <1>0, <1>9 DEF RebootedRecord, At, world
    <2>2. row.state # "NONE"
      BY <2>1, RowIsThere
    <2>3. server # "NONE"
      BY <2>1, <2>2 DEF Driven, HostInv, Busy
    <2>4. Ignore /\ server' = "CREATED"
      BY <1>9, <2>3 DEF RebootedRecord
    <2>5. job'.op = "idle" /\ Passing /\ Recording /\ ~Passing' /\ ~Recording'
      BY <1>0, <2>1, <2>4, JobReturns DEF Ignore, Passing, Recording, Busy
    <2>6. queue # <<>> /\ Head(queue).type = "REBOOT_COMPLETE"
      BY <1>0, <2>1 DEF EventOf
    <2>7. Shrinks(queue, queue', "REBOOT_COMPLETE") /\ Rest' = Rest
      BY <2>4, <2>5, <2>6, IgnorePasses
    <2>8. /\ StopLast(queue) => StopLast(queue')
          /\ \A t : Waits(queue', t) => Waits(queue, t)
          /\ \A t : Waits(queue, t) => Waits(queue', t) \/ t = "REBOOT_COMPLETE"
      BY <2>7 DEF Shrinks
    <2>9. Written' = Written /\ ssm'.running = ssm.running
      BY <2>1, <2>5 DEF Written, RecordCommand, Data, Commanded
    <2>10. /\ (Runs(ssm') <=> Runs(ssm)) /\ (OneRuns(ssm) => OneRuns(ssm'))
           /\ (RunsKnown(ssm, Written) => RunsKnown(ssm', Written'))
      BY <2>9 DEF Runs, OneRuns, RunsKnown
    <2> QED
      BY <2>1, <2>2, <2>4, <2>5, <2>7, <2>8, <2>9, <2>10
         DEF Calm, ChainInv, StillInv, UpInv, DownInv, ServerInv, DcvInv, CommandInv, StoppingInv,
             ResumingInv, Live, Stage, Parked, Resumes, Rebooting, Booting, Chained, Up, Ending,
             Down, Busy
  <1>10. CASE HandleValidateCreation
    BY <1>10, RunCalm, IgnoreCalm DEF HandleValidateCreation, Outside, world, Ops, SharedOps
  <1>11. ASSUME ValidateCreationDescribe \/ ValidateCreationWrite, Live
         PROVE  /\ job = act[Handler] /\ job.op = "validate_creation" /\ act[Handler].op # "idle"
                /\ queue # <<>> /\ Head(queue).type = "VALIDATE_CREATION"
                /\ ~Passing /\ Rest = queue
                /\ Linked(queue) /\ OneLink(queue) /\ Waits(queue, "VALIDATE_CREATION")
                /\ Up /\ server = "CREATED" /\ ~(dcv = "READY" /\ ~alive)
                /\ row.state \notin {"READY", "ERROR", "STOPPING", "STOPPED"}
    <2>1. job = act[Handler] /\ job.op = "validate_creation" /\ act[Handler].op # "idle"
      BY <1>0, <1>11 DEF ValidateCreationDescribe, ValidateCreationWrite, At
    <2>2. /\ queue # <<>> /\ Head(queue).type = "VALIDATE_CREATION" /\ ~Passing /\ Rest = queue
      BY <1>0, <2>1 DEF EventOf, Passing, Recording, Busy, Rest
    <2>3. Waits(queue, "VALIDATE_CREATION")
      BY <2>2, TailWaits DEF Control
    <2>4. Linked(queue) /\ OneLink(queue) /\ ~Waits(queue, "REBOOT_COMPLETE")
      <3>1. OneLink(queue)
        BY <1>11, <2>2 DEF Calm, ChainInv
      <3> QED
        BY <2>3, <3>1, LinksWait DEF Links
    <2>5. Up /\ server = "CREATED" /\ ~Booting /\ ~Runs(ssm)
      BY <1>11, <2>2, <2>3, <2>4 DEF Calm, ChainInv, UpInv, ServerInv
    <2>6. ~(dcv = "READY" /\ ~alive)
      BY <1>11, <2>2, <2>4, <2>5 DEF Calm, DcvInv, Booting
    <2>7. row.state \notin {"READY", "ERROR", "STOPPING", "STOPPED"}
      BY <1>11, <2>1, <2>2, <2>4 DEF Calm, StillInv, Stage, Parked, Resumes, Chained, Busy
    <2> QED
      BY <2>1, <2>2, <2>3, <2>4, <2>5, <2>6, <2>7
  <1>12. CASE ValidateCreationDescribe
    <2>1. PICK s : s = [act[Handler] EXCEPT !.pc = "write", !.res = Described(Handler)]
      OBVIOUS
    <2>2. /\ job = act[Handler] /\ job.op = "validate_creation" /\ job.pc = "call"
          /\ act' = [act EXCEPT ![Handler] = s]
      BY <1>0, <1>12, <2>1 DEF ValidateCreationDescribe, At
    <2>3. s.op = "validate_creation" /\ s.pc = "write" /\ s.res = Described(Handler)
      BY <1>0, <2>1, <2>2 DEF ActorStates
    <2>4. job' = s
      BY <1>0, <2>2, <2>3, JobMoves DEF AloneInv
    <2>5. UNCHANGED <<queue, ssm, notif>> /\ UNCHANGED <<row, server, ec2, host, alive, dcv>>
      BY <1>12 DEF ValidateCreationDescribe, Stay, db, Outside, world
    <2>6. CASE ~Live
      BY <2>3, <2>4, <2>5, <2>6, GoneStaysGone
    <2>7. CASE Live
      <3>1. row = job.snap
        BY <1>0, <2>2 DEF JobInv, Found
      <3>2. job'.res = "READY" => dcv = "READY" /\ alive /\ row.dcv
        BY <1>11, <1>12, <2>2, <2>3, <2>4, <2>7, <3>1 DEF Described
      <3>3. ~Passing /\ ~Passing' /\ Rest' = Rest
        BY <2>2, <2>3, <2>4, <2>5 DEF Passing, Recording, Busy, Rest
      <3>4. job'.op = "validate_creation" /\ job'.pc = "write"
        BY <2>3, <2>4
      <3> QED
        BY <2>2, <2>5, <2>7, <3>2, <3>3, <3>4
           DEF Calm, ChainInv, StillInv, UpInv, DownInv, ServerInv, DcvInv, CommandInv,
               StoppingInv, ResumingInv, Live, Stage, Parked, Resumes, Rebooting, Recording,
               Passing, Booting, Chained, Up, Ending, Written, Down, Busy
    <2> QED
      BY <2>6, <2>7
  <1>13. CASE ValidateCreationWrite
    <2>1. /\ job.op = "validate_creation" /\ job = act[Handler] /\ act[Handler].op # "idle"
          /\ job.pc = "write"
          /\ UNCHANGED <<ssm, notif>> /\ UNCHANGED <<server, ec2, host, alive, dcv>>
      BY <1>0, <1>13, ValidateCreationWriteEffect DEF At, Outside, world
    <2>2. CASE ~Live
      <3>1. ec2 = "terminated"
        BY <1>13, <2>1, <2>2, ValidationEffect DEF Live, Stage
      <3> QED
        BY <2>1, <3>1 DEF Calm, Live
    <2>3. CASE Live /\ Raise(Handler) /\ row'.state = "INITIALIZING"
      <3>1. job'.op = "idle" /\ UNCHANGED queue
        BY <1>0, <2>1, <2>3, JobRaises DEF Raise
      <3>2. ~Passing /\ ~Passing' /\ Rest' = Rest
        BY <2>1, <3>1 DEF Passing, Recording, Busy, Rest
      <3> QED
        BY <1>11, <1>13, <2>1, <2>3, <3>1, <3>2
           DEF Calm, ChainInv, StillInv, UpInv, DownInv, ServerInv, DcvInv, CommandInv,
               StoppingInv, ResumingInv, Live, Stage, Parked, Resumes, Rebooting, Recording,
               Passing, Booting, Chained, Up, Ending, Written, Down, Busy
    <2>4. CASE Live /\ Ignore /\ row'.state \in {"READY", "ERROR"} /\ (row'.state = "READY" => row'.dcv)
               /\ (row'.state = "READY" => job.res = "READY")
      <3>1. job'.op = "idle" /\ ~Passing'
        BY <1>0, <2>1, <2>4, JobReturns DEF Ignore, Passing, Recording, Busy
      <3>2. Shrinks(queue, queue', "VALIDATE_CREATION") /\ Rest' = queue'
        BY <1>11, <1>13, <2>4, <3>1, IgnoreShrinks
      <3>3. /\ OneLink(queue) => OneLink(queue') /\ ~Linked(queue')
            /\ StopLast(queue) => StopLast(queue')
            /\ \A t : Waits(queue', t) => Waits(queue, t)
            /\ \A t : Waits(queue, t) => Waits(queue', t) \/ t = "VALIDATE_CREATION"
        BY <3>2 DEF Shrinks, Links
      <3> QED
        BY <1>11, <1>13, <2>1, <2>4, <3>1, <3>2, <3>3
           DEF Calm, ChainInv, StillInv, UpInv, DownInv, ServerInv, DcvInv, CommandInv,
               StoppingInv, ResumingInv, Live, Stage, Parked, Resumes, Rebooting, Recording,
               Passing, Booting, Chained, Up, Ending, Written, Down, Busy
    <2>5. CASE Live /\ row'.state = "STOPPING"
      BY <1>11, <1>13, <2>5, ValidationEffect
    <2>6. row' = Moved(Handler, "READY") /\ job.res = "READY" /\ Live => row'.dcv
      <3>1. (row.dcv /\ row = job.snap) \/ ~Live \/ job.res # "READY"
        BY <1>13, <2>1, ValidationEffect DEF Calm, DcvInv, Busy
      <3> QED
        BY <2>1, <3>1 DEF Moved, Data, Rows
    <2> QED
      BY <1>13, <2>2, <2>3, <2>4, <2>5, <2>6, ValidationEffect
  <1> QED
    BY <1>1, <1>2, <1>3, <1>4, <1>5, <1>6, <1>7, <1>8, <1>9, <1>10, <1>12, <1>13

\* The handler of EC2's state changes.
LEMMA HandleEc2Calm ==
  ASSUME Control, Data, Serial, SerialInv, Driven, Calm,
         HandleEc2Stopping \/ HandleEc2Stopped \/ Ec2StopWrite \/ HandleEc2Running
  PROVE  Calm'
  <1>0. /\ AloneInv /\ JobInv /\ job \in ActorStates /\ Handler \in Actors
        /\ act[Handler].op # "idle" =>
              job = act[Handler] /\ queue # <<>> /\ Head(queue).type = EventOf(job.op)
    BY JobOf, JobTyped, HandlerIsActor DEF SerialInv, JobInv, Control, Held
  <1>1. CASE HandleEc2Stopping \/ HandleEc2Stopped
    <2>1. "STOPPING" \notin StopIgnored
      BY DEF StopIgnored
    <2> QED
      BY <1>1, <2>1, RunCalm, IgnoreCalm
         DEF HandleEc2Stopping, HandleEc2Stopped, db, Outside, world, Ops, SharedOps
  <1>2. CASE Ec2StopWrite
    <2>1. /\ job = act[Handler] /\ job.op \in {"ec2_stopping", "ec2_stopped"} /\ job.pc = "write"
          /\ act[Handler].op # "idle"
          /\ UNCHANGED <<ssm, notif>> /\ UNCHANGED <<ec2, host, alive, dcv>>
      BY <1>0, <1>2 DEF Ec2StopWrite, At, Outside, world
    <2>2. row = job.snap /\ row.state \in SessionStates \ StopIgnored /\ row.state # "NONE"
      BY <1>0, <2>1, RowIsThere DEF JobInv, Begun, Found
    <2>3. CASE ~Live
      BY <2>1, <2>2, <2>3 DEF Calm, Live, Stage
    <2>4. CASE Live
      <3>1. /\ queue # <<>> /\ Head(queue).type = EventOf(job.op)
            /\ ~Passing /\ Rest = queue
        BY <1>0, <2>1 DEF Passing, Recording, Busy, Rest
      <3>2. EventOf(job.op) = IF job.op = "ec2_stopped" THEN "EC2_STOPPED" ELSE "EC2_STOPPING"
        BY <2>1 DEF EventOf
      <3>3. Waits(queue, EventOf(job.op))
        BY <3>1, TailWaits DEF Control
      <3>4. Down /\ row.state = "STOPPING"
        BY <2>1, <2>2, <2>4, <3>2, <3>3 DEF Calm, DownInv, Down, Stage, StopIgnored
      <3>5. server # "NONE" /\ ec2 # "terminated"
        BY <2>1, <2>2 DEF Driven, HostInv, Busy
      <3>6. /\ Ignore /\ row'.dcv = row.dcv
            /\ row'.state = IF job.op = "ec2_stopped" THEN "STOPPED" ELSE "STOPPING"
            /\ server' = IF job.op = "ec2_stopped" THEN "STOPPED" ELSE server
        BY <1>2, <2>1, <2>2, <3>4, <3>5
           DEF Ec2StopWrite, StopIsError, Update, UpdateRaises, Moved, Data, Rows
      <3>7. job'.op = "idle" /\ ~Passing'
        BY <1>0, <2>1, <3>6, JobReturns DEF Ignore, Passing, Recording, Busy
      <3>8. Shrinks(queue, queue', EventOf(job.op)) /\ Rest' = queue'
        BY <3>1, <3>6, <3>7, IgnoreShrinks
      <3>9. /\ Linked(queue') => Linked(queue)
            /\ OneLink(queue) => OneLink(queue')
            /\ StopLast(queue) => StopLast(queue')
            /\ \A t : Waits(queue', t) => Waits(queue, t)
            /\ \A t : Waits(queue, t) => Waits(queue', t) \/ t = EventOf(job.op)
        BY <3>8 DEF Shrinks
      <3>10. CASE job.op = "ec2_stopping"
        BY <2>1, <2>4, <3>1, <3>2, <3>4, <3>6, <3>7, <3>8, <3>9, <3>10
           DEF Calm, ChainInv, StillInv, UpInv, DownInv, ServerInv, DcvInv, CommandInv,
               StoppingInv, ResumingInv, Live, Stage, Parked, Resumes, Rebooting, Recording,
               Passing, Booting, Chained, Up, Ending, Written, Down, Busy
      <3>11. CASE job.op = "ec2_stopped"
        <4>1. /\ Waits(queue, "EC2_STOPPED") /\ ec2 = "stopped" /\ ~AnyNews(notif)
              /\ StopLast(queue) /\ ~Chained
          BY <2>4, <3>2, <3>3, <3>4, <3>11 DEF Calm, DownInv
        <4>2. ~Waits(queue', "EC2_STOPPING") /\ ~Waits(queue', "EC2_STOPPED")
              /\ ~Waits(queue', "EC2_RUNNING")
          BY <3>2, <3>8, <3>11, <4>1 DEF Shrinks, Notices
        <4>3. ~News(notif, "stopping") /\ ~News(notif, "stopped")
          BY <4>1, NewsIsNews
        <4>4. /\ Stage = "STOPPING" /\ Stage' = "STOPPED" /\ Live' /\ Parked' /\ ~Down'
              /\ ~Chained' /\ ~Linked(queue) /\ ~Linked(queue') /\ ~Recording' /\ ~Resumes'
              /\ ~Rebooting' /\ ~Ending' /\ ~Booting' /\ ~Runs(ssm') /\ ~Reported(notif')
          BY <2>1, <2>4, <3>1, <3>4, <3>6, <3>7, <3>8, <3>9, <3>11, <4>1, <4>2, <4>3
             DEF Live, Stage, Parked, Down, Chained, Booting, Recording, Resumes, Rebooting, Ending, Busy
        <4>5. /\ ~Waits(queue, "REBOOT_COMPLETE") /\ ~Waits(queue', "RESUME_SUCCESS")
              /\ ~Waits(queue', "RESUME_FAILED") /\ ~Waits(queue', "RESUME_OTHER")
              /\ ~Waits(queue', "VALIDATE_CREATION")
          BY <4>4, LinksWait DEF Links
        <4>6. ChainInv' /\ StillInv' /\ UpInv'
          BY <2>1, <2>4, <3>1, <3>7, <3>8, <3>9, <4>1, <4>4
             DEF Calm, ChainInv, StillInv, UpInv
        <4>7. DownInv'
          BY <2>1, <2>4, <3>9, <4>1, <4>2, <4>3, <4>4 DEF Calm, DownInv
        <4>8. ServerInv' /\ CommandInv'
          BY <2>1, <3>6, <3>7, <3>8, <3>11, <4>4, <4>5, NothingToKnow
             DEF ServerInv, CommandInv, Busy
        <4>9. DcvInv'
          BY <2>1, <2>4, <3>1, <3>4, <3>6, <3>7, <3>11, <4>4, <4>5
             DEF Calm, DcvInv, Chained, Booting, Busy
        <4>10. StoppingInv' /\ ResumingInv'
          BY <2>1, <2>4, <4>4 DEF Calm, StoppingInv, ResumingInv
        <4> QED
          BY <4>6, <4>7, <4>8, <4>9, <4>10 DEF Calm
      <3> QED
        BY <2>1, <3>10, <3>11
    <2> QED
      BY <2>3, <2>4
  <1>3. CASE HandleEc2Running
    <2>1. /\ CanStart(Handler) /\ job.op = "idle" /\ queue # <<>>
          /\ Head(queue).type = "EC2_RUNNING"
          /\ UNCHANGED <<ssm, notif>> /\ UNCHANGED <<row, ec2, host, alive, dcv>>
      BY <1>0, <1>3, JobReceives DEF HandleEc2Running, Idle, Outside, world
    <2>2. job'.op = "idle" /\ ~Passing /\ ~Passing'
      BY <1>0, <1>3, <2>1, JobEnds DEF HandleEc2Running, Return, Passing, Recording, Busy
    <2>3. CASE ~Live
      BY <2>1, <2>2, <2>3, GoneStaysGone
    <2>4. CASE Live
      <3>1. row.state # "NONE" /\ server # "NONE" /\ Stage = row.state
        BY <2>1, <2>4 DEF Live, Stage, Driven, HostInv, Busy
      <3>2. PICK e : /\ Return(Handler, e)
                     /\ e = NoEvent \/ e = Event("REBOOT_COMPLETE_BY_CONTROLLER")
        BY <1>3, <3>1 DEF HandleEc2Running
      <3>3. /\ e = NoEvent \/ e \in Events
            /\ e.type \in {"NO_EVENT", "REBOOT_COMPLETE_BY_CONTROLLER"}
        BY <3>2, EventIsEvent DEF NoEvent, EventTypes, Undated
      <3>4. server' = "CREATED"
        BY <1>3, <3>1 DEF HandleEc2Running
      <3>5. /\ \E q : Shrinks(queue, q, "EC2_RUNNING") /\ Grows(q, queue', e)
            /\ Rest = queue /\ Rest' = queue'
        BY <2>1, <2>2, <3>2, <3>3, ReturnMoves
      <3>6. PICK q : Shrinks(queue, q, "EC2_RUNNING") /\ Grows(q, queue', e)
        BY <3>5
      <3>7. /\ Linked(queue') => Linked(queue)
            /\ OneLink(queue) => OneLink(queue')
            /\ StopLast(queue) => StopLast(queue')
            /\ \A t : Waits(queue', t) => Waits(queue, t) \/ t \in {"NO_EVENT", "REBOOT_COMPLETE_BY_CONTROLLER"}
            /\ \A t : Waits(queue, t) => Waits(queue', t) \/ t = "EC2_RUNNING"
        <4>1. e.type \notin Links /\ e.type \notin Notices
          BY <3>3 DEF Links, Notices
        <4> QED
          BY <3>3, <3>6, <4>1 DEF Shrinks, Grows
      <3>8. Waits(queue, "EC2_RUNNING")
        BY <2>1, TailWaits DEF Control
      <3>9. ~Parked
        BY <2>4, <3>8 DEF Calm, DownInv
      <3> QED
        BY <2>1, <2>2, <2>4, <3>1, <3>4, <3>5, <3>7, <3>9
           DEF Calm, ChainInv, StillInv, UpInv, DownInv, ServerInv, DcvInv, CommandInv,
               StoppingInv, ResumingInv, Live, Stage, Parked, Resumes, Rebooting, Recording,
               Passing, Booting, Chained, Up, Ending, Written, Down, Busy
    <2> QED
      BY <2>3, <2>4
  <1> QED
    BY <1>1, <1>2, <1>3

\* The handler that validates the end of the DCV session.
LEMMA HandleDeletionCalm ==
  ASSUME Control, Data, Serial, SerialInv, Driven, Calm,
         \/ HandleValidateDeletion \/ ValidateDeletionDescribe
         \/ ContinueDelete \/ ContinueDeleteHost \/ ContinueStop
  PROVE  Calm'
  <1>0. /\ AloneInv /\ JobInv /\ job \in ActorStates /\ Handler \in Actors
        /\ act[Handler].op # "idle" =>
              job = act[Handler] /\ queue # <<>> /\ Head(queue).type = EventOf(job.op)
    BY JobOf, JobTyped, HandlerIsActor DEF SerialInv, JobInv, Control, Held
  <1>1. CASE HandleValidateDeletion
    BY <1>1, RunCalm, IgnoreCalm
       DEF HandleValidateDeletion, db, Outside, world, Ops, SharedOps
  <1>2. CASE ValidateDeletionDescribe
    <2>1. /\ job.op = "validate_deletion" /\ job'.op \in {"validate_deletion", "idle"}
          /\ UNCHANGED <<queue, ssm, notif>> /\ UNCHANGED <<row, server, ec2, host, alive, dcv>>
      BY <1>0, <1>2, JobGoes, JobRaises
         DEF ValidateDeletionDescribe, At, Raise, Stay, db, Outside, world
    <2>2. PlainJob /\ PlainJob'
      BY <2>1 DEF PlainJob, Passing, Recording, Resumes, Rebooting, Ending, Busy
    <2> QED
      BY <2>1, <2>2, MoveCalm
  <1>3. CASE ContinueDelete
    <2>1. job'.op \in {"validate_deletion", "idle"} /\ row'.state = "NONE"
      BY <1>0, <1>3, JobGoes, JobRaises, NoRowTyped DEF ContinueDelete, At
    <2> QED
      BY <2>1 DEF Calm, Live, Stage
  <1>4. CASE ContinueDeleteHost
    BY <1>4 DEF ContinueDeleteHost, TerminateHost, Calm, Live
  <1>5. CASE ContinueStop
    <2>1. /\ job.op = "validate_deletion" /\ job.pc = "host" /\ job.snap.state = "STOPPING"
          /\ act[Handler].op # "idle" /\ job'.op = "idle" /\ UNCHANGED <<row, ssm, dcv>>
      BY <1>0, <1>5, JobReturns, JobRaises DEF ContinueStop, StopHost, Ignore, At, world
    <2>2. row.state = "STOPPING"
      BY <1>0, <2>1 DEF JobInv, Found
    <2>3. PlainJob /\ PlainJob'
      BY <2>1 DEF PlainJob, Passing, Recording, Resumes, Rebooting, Ending, Busy
    <2>4. CASE StopRefused
      BY <1>5, <2>1, <2>3, <2>4, MoveCalm DEF ContinueStop, Raise, world
    <2>5. CASE ~StopRefused
      <3>1. server # "NONE"
        BY <2>1, <2>2 DEF Driven, HostInv, Busy
      <3>2. StopHost /\ Ignore
        BY <1>5, <2>5, <3>1 DEF ContinueStop, StopRaises
      <3>3. queue # <<>> /\ Head(queue).type = "VALIDATE_DELETION" /\ ~Passing /\ ~Passing'
        BY <1>0, <2>1, <2>3 DEF EventOf, PlainJob
      <3>4. Shrinks(queue, queue', "VALIDATE_DELETION") /\ Rest = queue /\ Rest' = queue'
        BY <3>2, <3>3, IgnoreShrinks
      <3>5. /\ Linked(queue') => Linked(queue)
            /\ OneLink(queue) => OneLink(queue')
            /\ StopLast(queue) => StopLast(queue')
            /\ \A t : Waits(queue', t) => Waits(queue, t)
            /\ \A t : Waits(queue, t) => Waits(queue', t) \/ t = "VALIDATE_DELETION"
        BY <3>4 DEF Shrinks
      <3>6. Live /\ Stage = "STOPPING" /\ Stage' = "STOPPING"
        BY <2>1, <2>2, <2>5 DEF Live, Stage, StopRefused
      <3>7. ~Chained
        BY <3>6 DEF Calm, StillInv
      <3>8. CASE ec2 = "running"
        <4>1. /\ ec2' = "stopping" /\ Notify("stopping") /\ ~alive'
              /\ host' = IF Hibernation THEN "asleep" ELSE "down"
          BY <3>2, <3>8 DEF StopHost
        <4>2. PICK n : n = [about |-> "ec2", status |-> "stopping", id |-> 0]
          OBVIOUS
        <4>3. /\ n \in Notifications /\ n.about = "ec2" /\ n.status = "stopping"
              /\ notif' = Append(notif, n) /\ notif \in Seq(Notifications)
          BY <4>1, <4>2 DEF Notify, Notifications, Data
        <4>4. ~News(notif, "stopped") /\ ~Waits(queue, "EC2_STOPPED") /\ NewsLast(notif)
          BY <3>6, <3>8 DEF Calm, DownInv
        <4>5. /\ Reported(notif') <=> Reported(notif)
              /\ ~News(notif', "stopped") /\ NewsLast(notif')
          BY <4>3, <4>4, LastNews
        <4>6. ~Linked(queue') /\ ~Runs(ssm') /\ ~Reported(notif') /\ ~Booting' /\ ~Chained'
          BY <2>1, <3>4, <3>5, <3>7, <4>1, <4>5 DEF Chained, Booting
        <4>7. /\ ~Recording' /\ ~Resumes' /\ ~Rebooting' /\ ~Ending' /\ ~Parked'
          BY <2>3, <3>6 DEF PlainJob, Passing, Parked
        <4>8. ~Waits(queue', "EC2_STOPPED")
          BY <3>5, <4>4
        <4>9. ChainInv' /\ StillInv' /\ UpInv'
          BY <3>3, <3>4, <3>5, <3>6, <4>1, <4>6, <4>7, NothingToKnow
             DEF Calm, ChainInv, StillInv, UpInv
        <4>10. DownInv'
          BY <3>3, <3>5, <3>6, <4>1, <4>5, <4>6, <4>7, <4>8 DEF Calm, DownInv
        <4>11. ServerInv' /\ CommandInv'
          <5>1. /\ ~Waits(queue', "RESUME_SUCCESS") /\ ~Waits(queue', "RESUME_FAILED")
                /\ ~Waits(queue', "RESUME_OTHER") /\ ~Waits(queue', "VALIDATE_CREATION")
            BY <4>6, LinksWait DEF Links
          <5> QED
            BY <2>1, <3>4, <3>6, <4>6, <4>7, <5>1, NothingToKnow
               DEF ServerInv, CommandInv, Busy
        <4>12. DcvInv'
          BY <2>1, <2>2, <3>6, <4>1 DEF Calm, DcvInv, Busy
        <4>13. StoppingInv' /\ ResumingInv'
          BY <2>1, <3>6, <4>1, <4>7 DEF Calm, StoppingInv, ResumingInv
        <4> QED
          BY <4>9, <4>10, <4>11, <4>12, <4>13 DEF Calm
      <3>9. CASE ec2 # "running"
        <4>1. UNCHANGED <<ec2, notif, alive, host>>
          BY <3>2, <3>9 DEF StopHost
        <4>2. ec2 \in {"stopping", "stopped"}
          BY <2>5, <3>9 DEF StopRefused, Data
        <4>3. /\ ~Waits(queue', "RESUME_SUCCESS") /\ ~Waits(queue', "RESUME_FAILED")
              /\ ~Waits(queue', "RESUME_OTHER") /\ ~Waits(queue', "VALIDATE_CREATION")
              /\ ~Linked(queue) /\ ~Linked(queue')
          BY <3>4, <3>5, <3>7, LinksWait DEF Chained, Links
        <4> QED
          BY <2>1, <2>2, <2>3, <3>3, <3>4, <3>5, <3>6, <3>7, <4>1, <4>2, <4>3
             DEF PlainJob, Calm, ChainInv, StillInv, UpInv, DownInv, ServerInv, DcvInv,
                 CommandInv, StoppingInv, ResumingInv, Live, Stage, Parked, Resumes,
                 Rebooting, Recording, Passing, Booting, Chained, Up, Ending, Written, Down,
                 Busy
      <3> QED
        BY <3>8, <3>9
    <2> QED
      BY <2>4, <2>5
  <1> QED
    BY <1>1, <1>2, <1>3, <1>4, <1>5

\* The handlers of schedules, of the CPU's load and of forced terminations.
LEMMA HandleAsideCalm ==
  ASSUME Control, Data, Serial, SerialInv, Driven, Calm,
         \/ HandleScheduledResume \/ HandleScheduledStop \/ CpuRecord
         \/ HandleCpuSuccess \/ HandleCpuOther \/ HandleTerminate
  PROVE  Calm'
  <1>0. /\ AloneInv /\ JobInv /\ job \in ActorStates /\ Handler \in Actors
        /\ act[Handler].op # "idle" =>
              job = act[Handler] /\ queue # <<>> /\ Head(queue).type = EventOf(job.op)
    BY JobOf, JobTyped, HandlerIsActor DEF SerialInv, JobInv, Control, Held
  <1>1. CASE HandleScheduledResume
    BY <1>1, RunCalm, IgnoreCalm
       DEF HandleScheduledResume, db, Outside, world, Ops, SharedOps
  <1>2. CASE HandleScheduledStop
    <2>1. CASE Ignore /\ UNCHANGED ssm
      BY <1>2, <2>1, IgnoreCalm DEF HandleScheduledStop, db, world
    <2>2. /\ job.op = "idle" /\ CanStart(Handler) /\ PlainJob
          /\ UNCHANGED notif /\ UNCHANGED <<row, server, ec2, host, alive, dcv>>
      BY <1>0, <1>2, JobReceives, IdlePlain DEF HandleScheduledStop, Idle, db, world
    <2>3. CASE Raise(Handler) /\ UNCHANGED ssm
      <3>1. job'.op = "idle" /\ UNCHANGED queue
        BY <1>0, <2>2, <2>3, JobRaises DEF Raise
      <3> QED
        BY <2>2, <2>3, <3>1, IdlePlain, MoveCalm
    <2>4. CASE SendCommand("cpu") /\ Run("cpu", "record")
      <3>1. Begin(Handler, "cpu", "record", row, FALSE) /\ UNCHANGED queue
        BY <2>4 DEF Run, Stay
      <3>2. job' = [op |-> "cpu", pc |-> "record", snap |-> row, force |-> FALSE, res |-> "NONE"]
        BY <1>0, <2>2, <3>1, JobBegins
      <3>3. job'.op = "cpu"
        BY <3>2
      <3>4. PlainJob'
        BY <3>3 DEF PlainJob, Passing, Recording, Resumes, Rebooting, Ending, Busy
      <3>5. Alike(queue, queue') /\ Alike(Rest, Rest')
        BY <2>2, <3>1, <3>4, AsidesAlike DEF PlainJob, Rest
      <3>6. Written = ssm.rows /\ Written' = ssm'.rows /\ ssm'.rows = ssm.rows
        BY <2>2, <2>4, <3>4, CommandRuns DEF Written, PlainJob, Passing
      <3>7. /\ Runs(ssm') <=> Runs(ssm)
            /\ OneRuns(ssm) => OneRuns(ssm')
            /\ \A ids : RunsKnown(ssm, ids) => RunsKnown(ssm', ids)
        BY <2>4, CommandRuns
      <3>8. SameCommands
        BY <2>2, <3>6, <3>7 DEF SameCommands
      <3> QED
        BY <2>2, <3>4, <3>5, <3>8, FrameCalm
    <2> QED
      BY <1>2, <2>1, <2>3, <2>4 DEF HandleScheduledStop
  <1>3. CASE CpuRecord
    <2>1. /\ job.op = "cpu" /\ job.pc = "record" /\ act[Handler].op # "idle" /\ Ignore
          /\ UNCHANGED notif /\ UNCHANGED <<row, server, ec2, host, alive, dcv>>
      BY <1>0, <1>3 DEF CpuRecord, At, db, world
    <2>2. job'.op = "idle"
      BY <1>0, <2>1, JobReturns DEF Ignore
    <2>3. PlainJob /\ PlainJob'
      BY <2>1, <2>2 DEF PlainJob, Passing, Recording, Resumes, Rebooting, Ending, Busy
    <2>4. queue # <<>> /\ Head(queue).type = "SCHEDULED_STOP"
      BY <1>0, <2>1 DEF EventOf
    <2>5. Shrinks(queue, queue', "SCHEDULED_STOP") /\ Rest = queue /\ Rest' = queue'
      BY <2>1, <2>3, <2>4, IgnoreShrinks DEF PlainJob
    <2>6. Alike(queue, queue') /\ Alike(Rest, Rest')
      BY <2>5, AsidesAlike DEF Asides
    <2>7. ssm'.running = ssm.running /\ ssm.rows \subseteq ssm'.rows
      BY <1>3 DEF CpuRecord, RecordCommand, Data, Commanded
    <2>8. Written = ssm.rows /\ Written' = ssm'.rows
      BY <2>3 DEF Written, PlainJob, Passing
    <2>9. /\ Runs(ssm') <=> Runs(ssm)
          /\ OneRuns(ssm) => OneRuns(ssm')
          /\ \A ids : RunsKnown(ssm, ids) => RunsKnown(ssm', ids)
      BY <2>7 DEF Runs, OneRuns, RunsKnown
    <2>10. /\ RunsKnown(ssm, Written) => RunsKnown(ssm', Written')
           /\ ReportsKnown(notif, Written) => ReportsKnown(notif, Written')
      BY <2>7, <2>8, <2>9, NothingToKnow
    <2>11. SameCommands
      BY <2>1, <2>9, <2>10 DEF SameCommands
    <2> QED
      BY <2>1, <2>3, <2>6, <2>11, FrameCalm
  <1>4. CASE HandleCpuSuccess
    BY <1>4, RunCalm, IgnoreCalm DEF HandleCpuSuccess, db, Outside, world, Ops, SharedOps
  <1>5. CASE HandleCpuOther
    BY <1>5, IgnoreCalm DEF HandleCpuOther, db, Outside, world
  <1>6. CASE HandleTerminate
    <2>1. PICK force : force = TRUE
      OBVIOUS
    <2>2. /\ Receives("TERMINATE") /\ Begin(Handler, "terminate", "read", NoRow, force) /\ Stay
          /\ UNCHANGED <<ssm, notif>> /\ UNCHANGED <<row, server, ec2, host, alive, dcv>>
      BY <1>6, <2>1 DEF HandleTerminate, db, Outside, world
    <2> QED
      BY <2>2, StartCalm DEF Ops, SharedOps
  <1> QED
    BY <1>1, <1>2, <1>3, <1>4, <1>5, <1>6

\* The handler of the resume command's status.
LEMMA HandleResumeCalm ==
  ASSUME Control, Data, Serial, SerialInv, Driven, Calm,
         \/ HandleResumeSuccess \/ ResumeSuccessPublish \/ HandleResumeFailed
         \/ HandleResumeOther \/ ResumeStatusWrite
  PROVE  Calm'
  <1>0. /\ AloneInv /\ JobInv /\ job \in ActorStates /\ Handler \in Actors
        /\ act[Handler].op # "idle" =>
              job = act[Handler] /\ queue # <<>> /\ Head(queue).type = EventOf(job.op)
    BY JobOf, JobTyped, HandlerIsActor DEF SerialInv, JobInv, Control, Held
  <1>1. CASE HandleResumeSuccess \/ HandleResumeFailed
    <2>1. CASE Raise(Handler)
      <3>1. job.op = "idle" /\ job'.op = "idle"
            /\ UNCHANGED <<queue, ssm, notif>> /\ UNCHANGED <<row, server, ec2, host, alive, dcv>>
        BY <1>0, <1>1, <2>1, JobReceives, JobRaises
           DEF HandleResumeSuccess, HandleResumeFailed, Idle, Raise, db, Outside, world
      <3> QED
        BY <3>1, IdlePlain, MoveCalm
    <2> QED
      BY <1>1, <2>1, RunCalm
         DEF HandleResumeSuccess, HandleResumeFailed, db, Outside, world, Ops, SharedOps
  <1>2. CASE HandleResumeOther
    BY <1>2, IgnoreCalm DEF HandleResumeOther, db, Outside, world
  <1>3. ASSUME Live, ~Passing, NEW t \in {"RESUME_SUCCESS", "RESUME_FAILED"}, queue # <<>>,
               Head(queue).type = t
        PROVE  /\ Rest = queue /\ Linked(queue) /\ OneLink(queue) /\ ~Booting
               /\ ~Runs(ssm) /\ ~Reported(notif) /\ Up /\ server = "CREATED" /\ ~Down
               /\ ~(dcv = "READY" /\ ~alive)
               /\ Stage \notin {"READY", "ERROR", "STOPPING"} /\ ~Parked /\ ~Rebooting
               /\ Waits(queue, t)
    <2>1. Rest = queue /\ Waits(queue, t)
      BY <1>3, TailWaits DEF Rest, Control
    <2>2. Linked(queue)
      BY <2>1, LinksWait DEF Links
    <2>3. Chained /\ ~Runs(ssm) /\ ~Reported(notif) /\ ~Booting /\ OneLink(queue)
      BY <1>3, <2>1, <2>2 DEF Calm, ChainInv, Chained
    <2>4. Up /\ server = "CREATED" /\ ~Down
      BY <1>3, <2>1, <2>2, <2>3 DEF Calm, UpInv, ServerInv, DownInv
    <2>5. ~Waits(queue, "REBOOT_COMPLETE")
      BY <2>1, <2>3, LinksWait DEF Links
    <2>6. ~(dcv = "READY" /\ ~alive)
      BY <1>3, <2>1, <2>3, <2>5 DEF Calm, DcvInv, Booting
    <2>7. Stage \notin {"READY", "ERROR", "STOPPING"} /\ ~Parked /\ ~Rebooting
      BY <1>3, <2>3 DEF Calm, StillInv
    <2> QED
      BY <2>1, <2>2, <2>3, <2>4, <2>6, <2>7
  <1>4. CASE ResumeSuccessPublish
    <2>1. /\ job.op = "resume_success" /\ job.pc = "publish" /\ act[Handler].op # "idle"
          /\ job'.op = "resume_success" /\ job'.pc = "write"
          /\ Send(queue, Event("VALIDATE_CREATION"))
          /\ UNCHANGED notif /\ UNCHANGED <<row, server, ec2, host, alive, dcv>>
      BY <1>0, <1>4, JobGoes DEF ResumeSuccessPublish, At, db, world
    <2>2. CASE ~Live
      BY <2>1, <2>2, GoneStaysGone
    <2>3. CASE Live
      <3>1. queue # <<>> /\ Head(queue).type = "RESUME_SUCCESS" /\ queue \in Seq(Events)
        BY <1>0, <2>1 DEF EventOf, Control
      <3>2. ~Passing /\ Passing' /\ ~Recording' /\ Rest' = Tail(queue')
        BY <2>1 DEF Passing, Recording, Busy, Rest
      <3>3. PICK e : e = Event("VALIDATE_CREATION") /\ e \in Events /\ e.type = "VALIDATE_CREATION"
                     /\ e # NoEvent
        BY EventIsEvent DEF EventTypes, Undated
      <3>4. queue' = Append(queue, e)
        BY <2>1, <3>3 DEF Send, Control, Undated
      <3>5. Rest' = Append(Tail(queue), e) /\ Tail(queue) \in Seq(Events)
        BY <3>1, <3>2, <3>3, <3>4
      <3>6. PICK r : r = Tail(queue)
        OBVIOUS
      <3>7. /\ OneLink(r) /\ ~Linked(r) /\ \A t : Waits(r, t) => Waits(queue, t)
        BY <1>3, <2>3, <3>1, <3>2, <3>6, TailShrinks DEF Shrinks, Links
      <3>8. /\ OneLink(Rest') /\ \A t : Waits(Rest', t) => Waits(r, t) \/ t = "VALIDATE_CREATION"
        BY <3>3, <3>5, <3>6, <3>7, LastEvent
      <3>9. /\ StopLast(queue) => StopLast(queue')
            /\ \A t : Waits(queue', t) <=> Waits(queue, t) \/ t = "VALIDATE_CREATION"
        BY <3>1, <3>3, <3>4, LastEvent DEF Notices
      <3>10. /\ Rest = queue /\ Linked(queue) /\ OneLink(queue) /\ ~Booting
             /\ ~Runs(ssm) /\ ~Reported(notif) /\ Up /\ server = "CREATED" /\ ~Down
             /\ ~(dcv = "READY" /\ ~alive)
             /\ Stage \notin {"READY", "ERROR", "STOPPING"} /\ ~Parked /\ ~Rebooting
             /\ Waits(queue, "RESUME_SUCCESS")
        BY <1>3, <2>3, <3>1, <3>2
      <3>11. ~Runs(ssm') /\ OneRuns(ssm') /\ RunsKnown(ssm', Written')
        <4>1. ssm'.running = ssm.running
          BY <1>4 DEF ResumeSuccessPublish, Data, Commanded
        <4>2. ~Runs(ssm')
          BY <3>10, <4>1 DEF Runs
        <4> QED
          BY <4>2, NothingToKnow
      <3>12. ReportsKnown(notif', Written') /\ OneReport(notif')
        BY <2>1, <3>10, NothingToKnow
      <3>13. /\ Stage' = Stage /\ Live' /\ ~Parked' /\ ~Rebooting' /\ ~Resumes' /\ ~Ending' /\ ~Down'
             /\ ~Booting' /\ ~Reported(notif') /\ Up'
        BY <2>1, <2>3, <3>9, <3>10
           DEF Stage, Live, Parked, Rebooting, Resumes, Ending, Down, Booting, Up, Busy
      <3>14. ChainInv' /\ StillInv' /\ UpInv' /\ CommandInv'
        BY <2>1, <3>2, <3>8, <3>10, <3>11, <3>12, <3>13, <2>3
           DEF ChainInv, StillInv, UpInv, CommandInv, Up, Calm
      <3>15. DownInv'
        BY <2>1, <2>3, <3>9, <3>10, <3>13 DEF Calm, DownInv
      <3>16. ServerInv' /\ DcvInv'
        BY <2>1, <2>3, <3>10, <3>11, <3>13 DEF Calm, ServerInv, DcvInv, Busy, Ending
      <3>17. StoppingInv' /\ ResumingInv'
        BY <2>1, <2>3, <3>9, <3>10, <3>13 DEF Calm, StoppingInv, ResumingInv, Busy
      <3> QED
        BY <3>14, <3>15, <3>16, <3>17 DEF Calm
    <2> QED
      BY <2>2, <2>3
  <1>5. CASE ResumeStatusWrite
    <2>1. /\ job.op \in {"resume_success", "resume_failed"} /\ job.pc = "write" /\ job = act[Handler]
          /\ act[Handler].op # "idle"
      BY <1>0, <1>5 DEF ResumeStatusWrite, At
    <2>2. row.state # "NONE"
      BY <2>1, RowIsThere
    <2>3. /\ Ignore /\ UNCHANGED <<ssm, notif>> /\ UNCHANGED <<server, ec2, host, alive, dcv>>
          /\ row'.state = IF job.op = "resume_success" THEN "INITIALIZING" ELSE "ERROR"
      BY <1>0, <1>5, <2>1, <2>2, MovedTyped
         DEF ResumeStatusWrite, Update, UpdateRaises, SessionStates, Outside, world
    <2>4. job'.op = "idle" /\ ~Passing'
      BY <1>0, <2>1, <2>3, JobReturns DEF Ignore, Passing, Recording, Busy
    <2>5. CASE ~Live
      BY <2>1, <2>2, <2>3, <2>5 DEF Calm, Live, Stage
    <2>6. CASE Live /\ job.op = "resume_success"
      <3>1. queue # <<>> /\ Head(queue).type = "RESUME_SUCCESS" /\ Passing /\ Rest = Tail(queue)
        BY <1>0, <2>1, <2>6 DEF EventOf, Passing, Busy, Rest
      <3>2. Shrinks(queue, queue', "RESUME_SUCCESS") /\ Rest' = Rest
        BY <2>3, <2>4, <3>1, IgnorePasses
      <3>3. /\ StopLast(queue) => StopLast(queue')
            /\ \A t : Waits(queue', t) => Waits(queue, t)
            /\ \A t : Waits(queue, t) => Waits(queue', t) \/ t = "RESUME_SUCCESS"
        BY <3>2 DEF Shrinks
      <3>4. Waits(queue, "VALIDATE_CREATION")
        BY <2>1, <2>6 DEF Driven, CreationInv, Busy
      <3>5. Waits(Rest, "VALIDATE_CREATION")
        BY <3>1, <3>4, TailWaits DEF Control
      <3>6. /\ OneLink(Rest) /\ Linked(Rest) /\ ~Waits(Rest, "REBOOT_COMPLETE")
        <4>1. OneLink(Rest)
          BY <2>6 DEF Calm, ChainInv
        <4> QED
          BY <3>5, <4>1, LinksWait DEF Links
      <3>7. ~Runs(ssm) /\ ~Reported(notif) /\ ~Booting /\ Up /\ server = "CREATED" /\ ~Down
        BY <2>6, <3>1, <3>6, <2>1
           DEF Calm, ChainInv, UpInv, ServerInv, DownInv, Busy
      <3>8. ~(dcv = "READY" /\ ~alive)
        BY <2>6, <3>6, <3>7 DEF Calm, DcvInv, Booting
      <3>9. ~Recording /\ ~Recording'
        BY <2>4, <2>6 DEF Recording, Passing, Busy
      <3> QED
        BY <2>1, <2>2, <2>3, <2>4, <2>6, <3>2, <3>3, <3>6, <3>7, <3>8, <3>9
           DEF Calm, ChainInv, StillInv, UpInv, DownInv, ServerInv, DcvInv, CommandInv,
               StoppingInv, ResumingInv, Live, Stage, Parked, Resumes, Rebooting, Recording,
               Passing, Booting, Chained, Up, Ending, Written, Down, Busy
    <2>7. CASE Live /\ job.op = "resume_failed"
      <3>1. queue # <<>> /\ Head(queue).type = "RESUME_FAILED" /\ ~Passing
        BY <1>0, <2>1, <2>7 DEF EventOf, Passing, Recording, Busy
      <3>2. Shrinks(queue, queue', "RESUME_FAILED") /\ Rest' = queue'
        BY <2>3, <2>4, <3>1, IgnoreShrinks
      <3>3. /\ OneLink(queue) => OneLink(queue') /\ ~Linked(queue')
            /\ StopLast(queue) => StopLast(queue')
            /\ \A t : Waits(queue', t) => Waits(queue, t)
            /\ \A t : Waits(queue, t) => Waits(queue', t) \/ t = "RESUME_FAILED"
        BY <3>2 DEF Shrinks, Links
      <3>4. /\ Rest = queue /\ Linked(queue) /\ OneLink(queue) /\ ~Booting
            /\ ~Runs(ssm) /\ ~Reported(notif) /\ Up /\ server = "CREATED" /\ ~Down
            /\ ~(dcv = "READY" /\ ~alive)
        BY <1>3, <2>7, <3>1
      <3> QED
        BY <2>1, <2>2, <2>3, <2>4, <2>7, <3>1, <3>2, <3>3, <3>4
           DEF Calm, ChainInv, StillInv, UpInv, DownInv, ServerInv, DcvInv, CommandInv,
               StoppingInv, ResumingInv, Live, Stage, Parked, Resumes, Rebooting, Recording,
               Passing, Booting, Chained, Up, Ending, Written, Down, Busy
    <2> QED
      BY <2>1, <2>5, <2>6, <2>7
  <1> QED
    BY <1>1, <1>2, <1>4, <1>5

\* Whoever passes from one link to the next holds the message of the first.
LEMMA PassingHolds ==
  ASSUME Control, SerialInv, UNCHANGED act
  PROVE  /\ job' = job /\ (Passing' <=> Passing) /\ (Passing => queue # <<>>)
         /\ Recording => act[Handler].pc = "record"
         /\ (Recording' <=> Recording)
  <1>1. job' = job
    BY JobStays
  <1>2. Passing => handling
    BY DEF Passing, Recording, Busy, SerialInv, JobInv, ApiOps, SharedOps
  <1>3. handling => queue # <<>> /\ job = act[Handler]
    BY JobOf, HandlerIsActor DEF handling, Control, Held, SerialInv
  <1> QED
    BY <1>1, <1>2, <1>3 DEF Passing, Recording, Busy

\* The monitor turns a notification into an event.
LEMMA RouteCalm ==
  ASSUME Control, Data, ReleasedInv, Serial, SerialInv, Driven, Calm, ~Reorder, Routes
  PROVE  Calm'
  <1>1. PICK i \in 1 .. Len(notif) : Route(i)
    BY DEF Routes
  <1>2. /\ i = 1 /\ notif # <<>> /\ notif' = Tail(notif) /\ notif \in Seq(Notifications)
        /\ notif[1] \in Notifications
    BY <1>1, RouteTakesFirst, FirstNews DEF Data
  <1>3. PICK n : n = notif[1]
    OBVIOUS
  <1>4. UNCHANGED act /\ UNCHANGED ssm /\ UNCHANGED <<row, server, ec2, host, alive, dcv>>
    BY <1>1 DEF Route, db, world
  <1>5. /\ job' = job /\ (Passing' <=> Passing) /\ (Passing => queue # <<>>)
        /\ Recording => act[Handler].pc = "record"
        /\ (Recording' <=> Recording)
    BY <1>4, PassingHolds
  <1>6. PICK e : /\ Send(queue, e)
                 /\ e = IF Known(n) THEN [type |-> EventType(n), id |-> n.id] ELSE NoEvent
    BY <1>1, <1>2, <1>3 DEF Route
  <1>7. EventType(n) \in EventTypes /\ n.id \in Nat
    BY <1>2, <1>3 DEF EventType, EventTypes, Notifications
  <1>8. /\ e = NoEvent \/ e \in Events
        /\ Known(n) => e.type = EventType(n) /\ e # NoEvent
        /\ ~Known(n) => e.type = "NO_EVENT"
    BY <1>6, <1>7 DEF Events, NoEvent, EventTypes, Undated
  <1>9. /\ Grows(queue, queue', e) /\ Grows(Rest, Rest', e)
        /\ e # NoEvent /\ e.type \notin recent => Waits(queue', e.type) /\ Waits(Rest', e.type)
    BY <1>5, <1>6, <1>8, RestGrows
  <1>10. /\ Reported(notif) <=> Reported(notif') \/ n.about = "resume"
         /\ OneReport(notif) => OneReport(notif') /\ ~(Reported(notif') /\ n.about = "resume")
         /\ AnyNews(notif) <=> AnyNews(notif') \/ n.about = "ec2"
         /\ \A t : News(notif, t) <=> News(notif', t) \/ (n.about = "ec2" /\ n.status = t)
         /\ NewsLast(notif) => NewsLast(notif')
         /\ NewsLast(notif) /\ n.about = "ec2" /\ n.status = "stopped" => ~AnyNews(notif')
         /\ \A ids : ReportsKnown(notif, ids) =>
               /\ ReportsKnown(notif', ids)
               /\ n.about = "resume" => n.status # "Other" /\ n.id \in ids
    BY <1>2, <1>3, FirstNews
  <1>11. Written' = Written /\ Stage' = Stage /\ (Live' <=> Live) /\ (Parked' <=> Parked)
    BY <1>4, <1>5 DEF Written, Stage, Live, Parked, Resumes, Busy
  <1>12. CASE ~Live
    BY <1>4, <1>5, <1>12, GoneStaysGone
  <1>13. CASE Live /\ n.about = "ec2"
    <2>1. Known(n)
      <3>1. Busy("terminate", "delete") => ec2 = "terminated"
        <4>1. ASSUME Busy("terminate", "delete")
              PROVE  ec2 = "terminated"
          <5>1. PICK a \in Actors : act[a].op # "idle"
            BY <4>1, NoJob DEF Busy, Idle
          <5>2. job = act[a]
            BY <5>1, JobOf DEF SerialInv
          <5> QED
            BY <4>1, <5>1, <5>2 DEF Busy, At, ReleasedInv
        <4> QED
          BY <4>1
      <3>2. server # "NONE"
        BY <1>13, <3>1 DEF Live, Stage, Driven, HostInv
      <3> QED
        BY <1>13, <3>2 DEF Known
    <2>2. /\ n.status \in {"stopping", "stopped", "running"}
          /\ n.status = "stopping" => e.type = "EC2_STOPPING"
          /\ n.status = "stopped" => e.type = "EC2_STOPPED"
          /\ n.status = "running" => e.type = "EC2_RUNNING"
      BY <1>2, <1>3, <1>8, <1>13, <2>1 DEF Notifications, EventType
    <2>3. e.type \notin Links /\ e.type \in Notices /\ e.type \notin recent /\ e # NoEvent
      BY <1>8, <2>1, <2>2 DEF Links, Notices, Control, Undated
    <2>4. ~Waits(queue, "EC2_STOPPED") /\ ~Parked /\ NewsLast(notif) /\ StopLast(queue)
      BY <1>10, <1>13 DEF Calm, DownInv
    <2>5. /\ Linked(Rest') <=> Linked(Rest)
          /\ OneLink(Rest) => OneLink(Rest')
          /\ StopLast(queue')
          /\ \A t : Waits(queue, t) => Waits(queue', t)
          /\ \A t : Waits(queue', t) => Waits(queue, t) \/ t = e.type
          /\ \A t : Waits(Rest, t) => Waits(Rest', t)
          /\ \A t : Waits(Rest', t) => Waits(Rest, t) \/ t = e.type
          /\ Waits(queue', e.type)
      BY <1>9, <2>3, <2>4 DEF Grows
    <2>6. Down' => Down
      BY <1>4, <1>10, <1>13, <2>2, <2>5 DEF Down
    <2>7. Chained' <=> Chained
      BY <1>4, <1>10, <1>13, <2>5 DEF Chained, Booting
    <2>8. ChainInv' /\ StillInv' /\ UpInv'
      BY <1>4, <1>5, <1>10, <1>11, <1>13, <2>5, <2>7
         DEF Calm, ChainInv, StillInv, UpInv, Up, Booting, Rebooting, Resumes, Busy
    <2>9. DownInv'
      <3>1. Waits(queue', "EC2_STOPPED") => n.status = "stopped" /\ ~AnyNews(notif')
        BY <1>10, <1>13, <2>2, <2>4, <2>5
      <3>2. News(notif', "stopped") \/ Waits(queue', "EC2_STOPPED") => News(notif, "stopped")
        BY <1>10, <1>13, <3>1
      <3>3. News(notif, "stopped") => News(notif', "stopped") \/ Waits(queue', "EC2_STOPPED")
        BY <1>10, <2>2, <2>5
      <3> QED
        BY <1>4, <1>5, <1>10, <1>11, <1>13, <2>4, <2>5, <2>6, <2>7, <3>1, <3>2, <3>3
           DEF Calm, DownInv
    <2>10. ServerInv' /\ DcvInv' /\ CommandInv'
      BY <1>4, <1>5, <1>10, <1>11, <1>13, <2>2, <2>5
         DEF Calm, ServerInv, DcvInv, CommandInv, Ending, Busy
    <2>11. StoppingInv' /\ ResumingInv'
      BY <1>4, <1>5, <1>10, <1>11, <1>13, <2>5
         DEF Calm, StoppingInv, ResumingInv, Resumes, Rebooting, Busy
    <2> QED
      BY <2>8, <2>9, <2>10, <2>11 DEF Calm
  <1>14. CASE Live /\ n.about = "resume"
    <2>1. ~Recording
      BY <1>1, <1>2, <1>3, <1>5, <1>14 DEF Route, Arrives
    <2>2. n.status # "Other" /\ n.id \in ssm.rows
      BY <1>10, <1>14, <2>1 DEF Calm, CommandInv, Written
    <2>3. e.type \in {"RESUME_SUCCESS", "RESUME_FAILED"} /\ e # NoEvent
      BY <1>2, <1>3, <1>8, <1>14, <2>2 DEF Known, EventType, Notifications
    <2>4. e.type \in Links /\ e.type \notin Notices /\ e.type \notin recent
      BY <2>3 DEF Links, Notices, Control, Undated
    <2>5. /\ Reported(notif) /\ ~Reported(notif') /\ OneReport(notif')
          /\ ~Linked(Rest) /\ ~Runs(ssm) /\ ~Booting /\ Chained /\ OneLink(Rest)
      BY <1>10, <1>14 DEF Calm, ChainInv, Chained
    <2>6. Up /\ server = "CREATED" /\ ~Down
      BY <1>14, <2>1, <2>5 DEF Calm, UpInv, ServerInv, DownInv
    <2>7. /\ Linked(Rest') /\ OneLink(Rest')
          /\ StopLast(queue) => StopLast(queue')
          /\ \A t : Waits(queue, t) => Waits(queue', t)
          /\ \A t : Waits(queue', t) => Waits(queue, t) \/ t = e.type
          /\ Waits(queue', e.type)
      <3>1. Waits(queue', e.type) /\ Waits(Rest', e.type)
        BY <1>9, <2>3, <2>4
      <3> QED
        BY <1>9, <2>4, <2>5, <3>1, LinksWait DEF Grows
    <2>8. ~Down' /\ Chained' /\ ~Booting' /\ ~Runs(ssm')
      BY <1>4, <1>10, <1>14, <2>3, <2>5, <2>6, <2>7 DEF Down, Chained, Booting
    <2>9. ~(dcv = "READY" /\ ~alive)
      <3>1. ~Waits(Rest, "REBOOT_COMPLETE")
        BY <2>5, LinksWait DEF Links
      <3> QED
        BY <1>14, <2>5, <3>1 DEF Calm, DcvInv, Booting
    <2>10. ChainInv' /\ StillInv' /\ UpInv'
      BY <1>4, <1>5, <1>10, <1>11, <1>14, <2>5, <2>6, <2>7, <2>8, NothingToKnow
         DEF Calm, ChainInv, StillInv, UpInv, Up, Rebooting, Resumes, Busy
    <2>11. DownInv'
      <3>1. \A t : News(notif', t) <=> News(notif, t)
        BY <1>10, <1>14
      <3>2. AnyNews(notif') <=> AnyNews(notif)
        BY <1>10, <1>14
      <3>3. \A t \in Notices : Waits(queue', t) <=> Waits(queue, t)
        BY <2>4, <2>7
      <3> QED
        BY <1>4, <1>5, <1>10, <1>11, <1>14, <2>7, <2>8, <3>1, <3>2, <3>3
           DEF Calm, DownInv, Notices
    <2>12. ServerInv' /\ DcvInv'
      BY <1>4, <1>5, <1>11, <1>14, <2>1, <2>5, <2>6, <2>9
         DEF Calm, ServerInv, DcvInv, Ending, Busy
    <2>13. CommandInv'
      BY <1>4, <1>5, <1>10, <1>11, <1>14, <2>1 DEF Calm, CommandInv
    <2>14. StoppingInv' /\ ResumingInv'
      BY <1>4, <1>5, <1>11, <1>14, <2>3, <2>7
         DEF Calm, StoppingInv, ResumingInv, Resumes, Rebooting, Busy
    <2> QED
      BY <2>10, <2>11, <2>12, <2>13, <2>14 DEF Calm
  <1>15. CASE n.about = "cpu"
    <2>1. e.type \in Asides \cup {"NO_EVENT"}
      BY <1>2, <1>3, <1>8, <1>15 DEF Notifications, EventType, Asides
    <2>2. ~Waits(queue', "NO_EVENT") /\ ~Waits(Rest', "NO_EVENT")
      <3>1. queue \in Seq(Events) /\ queue' \in Seq(Events)
        BY <1>6, <1>8 DEF Control, Send
      <3>2. Passing' => queue' # <<>>
        BY <1>5, <1>6, <3>1, SendHead
      <3>3. queue' # <<>> => Tail(queue') \in Seq(Events)
        BY <3>1
      <3> QED
        BY <3>1, <3>2, <3>3, OnlyEvents DEF Rest
    <2>3. Alike(queue, queue') /\ Alike(Rest, Rest')
      BY <1>9, <2>1, <2>2, AsidesAlike
    <2>4. SameCommands
      BY <1>4, <1>10, <1>11, <1>15 DEF SameCommands
    <2> QED
      BY <1>4, <1>5, <2>3, <2>4, FrameCalm
  <1> QED
    BY <1>2, <1>3, <1>12, <1>13, <1>14, <1>15 DEF Notifications

\* EC2, the host's boot and the broker.
LEMMA WorldCalm ==
  ASSUME Control, Data, Serial, SerialInv, Driven, Calm,
         Ec2Settles \/ HostUp \/ BrokerWorks \/ BrokerNotices
  PROVE  Calm'
  <1>0. UNCHANGED act /\ UNCHANGED <<row, server, ssm>>
    BY DEF Ec2Settles, HostUp, BrokerWorks, BrokerNotices, db
  <1>1. /\ job' = job /\ (Passing' <=> Passing) /\ (Passing => queue # <<>>)
        /\ (Recording' <=> Recording)
    BY <1>0, PassingHolds
  <1>2. /\ Stage' = Stage /\ (Resumes' <=> Resumes) /\ (Rebooting' <=> Rebooting)
        /\ (Ending' <=> Ending) /\ (Parked' <=> Parked) /\ Written' = Written
    BY <1>0, <1>1 DEF Stage, Resumes, Rebooting, Ending, Parked, Written, Busy
  <1>3. CASE Ec2Settles
    <2>1. UNCHANGED <<queue, host, alive, dcv>> /\ Rest' = Rest
      BY <1>1, <1>3 DEF Ec2Settles, Rest
    <2>2. Live' <=> Live
      BY <1>2, <1>3 DEF Ec2Settles, Live
    <2>3. SUFFICES ASSUME Live
                   PROVE  Calm'
      BY <2>2 DEF Calm
    <2>4. PICK s \in {"running", "stopped"} :
             /\ Notify(s) /\ ec2' = s
             /\ s = "running" => ec2 = "pending"
             /\ s = "stopped" => ec2 = "stopping"
      BY <1>3 DEF Ec2Settles
    <2>5. PICK n : n = [about |-> "ec2", status |-> s, id |-> 0]
      OBVIOUS
    <2>6. /\ n \in Notifications /\ n.about = "ec2" /\ n.status = s
          /\ notif' = Append(notif, n) /\ notif \in Seq(Notifications)
      BY <2>4, <2>5 DEF Notify, Notifications, Data
    <2>7. /\ ~News(notif, "stopped") /\ ~Waits(queue, "EC2_STOPPED") /\ ~Parked
      BY <2>3, <2>4 DEF Calm, DownInv, UpInv
    <2>8. /\ Reported(notif') <=> Reported(notif)
          /\ OneReport(notif) => OneReport(notif')
          /\ \A t : News(notif', t) <=> News(notif, t) \/ t = s
          /\ NewsLast(notif) => NewsLast(notif')
          /\ \A ids : ReportsKnown(notif, ids) => ReportsKnown(notif', ids)
      BY <2>6, <2>7, LastNews
    <2>9. (Booting' <=> Booting) /\ (Chained' <=> Chained)
      BY <1>0, <2>1, <2>8 DEF Booting, Chained
    <2>10. /\ ~Linked(Rest) /\ ~Runs(ssm) /\ ~Reported(notif) /\ ~Passing /\ ~Rebooting
           /\ Stage \notin {"READY", "ERROR", "INITIALIZING"}
      BY <2>3, <2>4 DEF Calm, UpInv, Up
    <2>11. ChainInv' /\ StillInv'
      BY <1>0, <1>1, <1>2, <2>1, <2>3, <2>8, <2>9 DEF Calm, ChainInv, StillInv
    <2>12. CASE s = "running"
      <3>1. ~Down
        BY <2>3, <2>4, <2>12 DEF Calm, DownInv
      <3>2. ~Down'
        BY <2>1, <2>4, <2>8, <2>12, <3>1 DEF Down
      <3>3. UpInv' /\ DownInv'
        BY <1>0, <1>1, <1>2, <2>1, <2>3, <2>4, <2>7, <2>8, <2>9, <2>10, <2>12, <3>1, <3>2
           DEF Calm, UpInv, DownInv
      <3>4. ServerInv' /\ DcvInv' /\ CommandInv'
        BY <1>0, <1>1, <1>2, <2>1, <2>3, <2>8
           DEF Calm, ServerInv, DcvInv, CommandInv, Busy
      <3>5. StoppingInv' /\ ResumingInv'
        BY <1>0, <1>1, <1>2, <2>1, <2>3, <2>4, <2>8, <2>12
           DEF Calm, StoppingInv, ResumingInv, Busy
      <3> QED
        BY <2>11, <3>3, <3>4, <3>5 DEF Calm
    <2>13. CASE s = "stopped"
      <3>1. Down /\ ~Chained /\ Stage \in {"STOPPING", "DELETING"}
        BY <2>3, <2>4, <2>13 DEF Calm, DownInv, Down
      <3>2. ~Resumes
        BY <2>3, <2>4, <2>13 DEF Calm, UpInv
      <3>3. UpInv' /\ DownInv'
        BY <1>0, <1>1, <1>2, <2>1, <2>3, <2>4, <2>7, <2>8, <2>9, <2>10, <2>13, <3>1, <3>2
           DEF Calm, UpInv, DownInv, Chained
      <3>4. ServerInv' /\ DcvInv' /\ CommandInv'
        BY <1>0, <1>1, <1>2, <2>1, <2>3, <2>8
           DEF Calm, ServerInv, DcvInv, CommandInv, Busy
      <3>5. StoppingInv' /\ ResumingInv'
        BY <1>0, <1>1, <1>2, <2>1, <2>3, <2>4, <2>8, <2>13
           DEF Calm, StoppingInv, ResumingInv, Busy
      <3> QED
        BY <2>11, <3>3, <3>4, <3>5 DEF Calm
    <2> QED
      BY <2>4, <2>12, <2>13
  <1>4. CASE HostUp
    <2>1. /\ ec2 = "running" /\ host' = "up" /\ UNCHANGED <<ec2, alive, dcv, notif>>
          /\ host \in {"first", "booting", "waking"} /\ (Live' <=> Live)
      BY <1>2, <1>4 DEF HostUp, Live
    <2>2. SUFFICES ASSUME Live
                   PROVE  Calm'
      BY <2>1 DEF Calm
    <2>3. Up' /\ ~Booting' /\ ~Up
      BY <2>1 DEF Up, Booting
    <2>4. /\ ~Linked(Rest) /\ ~Runs(ssm) /\ ~Reported(notif) /\ ~Passing /\ ~Rebooting
          /\ Stage \notin {"READY", "ERROR", "INITIALIZING"} /\ ~Parked
      BY <2>1, <2>2, <2>3 DEF Calm, UpInv
    <2>5. ~Down
      BY <2>1, <2>2 DEF Calm, DownInv
    <2>6. ASSUME NEW t \in {"HOST_READY", "REBOOT_COMPLETE"}, Send(queue, Event(t)),
                 host = IF t = "HOST_READY" THEN "first" ELSE "booting"
          PROVE  Calm'
      <3>1. Booting /\ Chained
        BY <2>6 DEF Booting, Chained
      <3>2. PICK e : e = Event(t) /\ e \in Events /\ e.type = t /\ e # NoEvent
        BY <2>6, EventIsEvent DEF EventTypes
      <3>3. t \in Links /\ t \notin Notices /\ t \notin recent
        BY <2>6 DEF Links, Notices, Control, Undated
      <3>4. /\ Grows(queue, queue', e) /\ Grows(Rest, Rest', e)
            /\ Waits(queue', t) /\ Waits(Rest', t)
        BY <1>1, <2>6, <3>2, <3>3, RestGrows
      <3>5. /\ OneLink(Rest') /\ Linked(Rest')
            /\ StopLast(queue) => StopLast(queue')
            /\ \A u : Waits(queue, u) => Waits(queue', u)
            /\ \A u : Waits(queue', u) => Waits(queue, u) \/ u = t
        <4>1. OneLink(Rest)
          BY <2>2 DEF Calm, ChainInv
        <4> QED
          BY <2>4, <3>2, <3>3, <3>4, <4>1, LinksWait DEF Grows
      <3>6. ~Down'
        BY <2>1, <2>5, <3>5 DEF Down
      <3>7. ChainInv' /\ StillInv' /\ UpInv'
        BY <1>0, <1>1, <1>2, <2>1, <2>2, <2>3, <2>4, <3>1, <3>5
           DEF Calm, ChainInv, StillInv, UpInv
      <3>8. DownInv'
        <4>1. \A u \in Notices : Waits(queue', u) <=> Waits(queue, u)
          BY <3>3, <3>5
        <4> QED
          BY <1>2, <2>1, <2>2, <2>4, <3>5, <3>6, <4>1 DEF Calm, DownInv, Notices
      <3>9. ServerInv' /\ CommandInv'
        <4>1. \A u \in {"RESUME_SUCCESS", "RESUME_FAILED", "RESUME_OTHER", "VALIDATE_CREATION"} :
                 ~Waits(Rest', u)
          BY <3>3, <3>4, <3>5, LinksWait DEF Links
        <4> QED
          BY <1>0, <1>1, <1>2, <2>1, <2>2, <4>1 DEF Calm, ServerInv, CommandInv, Busy
      <3>10. DcvInv'
        <4>1. ~Waits(Rest, "REBOOT_COMPLETE")
          BY <2>4, LinksWait DEF Links
        <4> QED
          BY <1>0, <1>1, <1>2, <2>1, <2>2, <2>4, <2>6, <3>4, <4>1 DEF Calm, DcvInv, Busy
      <3>11. StoppingInv' /\ ResumingInv'
        BY <1>0, <1>1, <1>2, <2>1, <2>2, <2>6, <3>4, <3>5
           DEF Calm, StoppingInv, ResumingInv, Busy
      <3> QED
        BY <3>7, <3>8, <3>9, <3>10, <3>11 DEF Calm
    <2>7. CASE host = "waking"
      <3>1. UNCHANGED queue /\ Rest' = Rest
        BY <1>1, <1>4, <2>7 DEF HostUp, Send, NoEvent, Rest
      <3> QED
        BY <1>0, <1>1, <1>2, <2>1, <2>2, <2>3, <2>4, <2>5, <2>7, <3>1
           DEF Calm, ChainInv, StillInv, UpInv, DownInv, ServerInv, DcvInv, CommandInv,
               StoppingInv, ResumingInv, Chained, Booting, Up, Down, Busy
    <2>8. CASE host = "first"
      BY <1>4, <2>6, <2>8 DEF HostUp
    <2>9. CASE host = "booting"
      BY <1>4, <2>6, <2>9 DEF HostUp
    <2> QED
      BY <2>1, <2>7, <2>8, <2>9
  <1>5. CASE BrokerWorks \/ BrokerNotices
    <2>1. UNCHANGED <<queue, notif, ec2, host>> /\ Rest' = Rest
      BY <1>1, <1>5 DEF BrokerWorks, BrokerNotices, Rest
    <2>2. DcvInv => DcvInv'
      <3>1. \/ dcv = "CREATING" /\ dcv' = "READY" /\ alive'
            \/ dcv = "CREATING" /\ dcv' = "DELETED"
            \/ dcv = "DELETING" /\ dcv' = "DELETED" /\ ~alive'
            \/ dcv = "READY" /\ ~alive /\ dcv' = "DELETED" /\ ~alive'
            \/ dcv = "DELETED" /\ alive /\ dcv' = "READY" /\ alive'
        BY <1>5 DEF BrokerWorks, BrokerNotices, Data
      <3> QED
        BY <1>0, <1>1, <1>2, <2>1, <3>1 DEF DcvInv, Busy
    <2> QED
      BY <1>0, <1>1, <1>2, <2>1, <2>2
         DEF Calm, ChainInv, StillInv, UpInv, DownInv, ServerInv, CommandInv,
             StoppingInv, ResumingInv, Live, Chained, Booting, Up, Down, Busy
  <1> QED
    BY <1>3, <1>4, <1>5

\* A command ends.
LEMMA CommandCalm ==
  ASSUME Control, Data, FreshInv, Serial, SerialInv, Driven, Calm, Commands, budget'.faults = 0
  PROVE  Calm'
  <1>1. PICK c \in ssm.running : CommandEnds(c)
    BY DEF Commands
  <1>2. /\ UNCHANGED act /\ UNCHANGED <<row, server, queue, ec2, host, dcv>>
        /\ ssm' = [ssm EXCEPT !.running = @ \ {c}]
    BY <1>1 DEF CommandEnds, db
  <1>3. /\ job' = job /\ (Passing' <=> Passing) /\ (Recording' <=> Recording) /\ Rest' = Rest
    BY <1>2, PassingHolds DEF Rest
  <1>4. PICK status \in {"Success", "Failed", "Other"} :
           /\ IF status = "Success" THEN host = "up" /\ UNCHANGED budget
              ELSE IF host = "up" THEN Fault ELSE status = "Failed" /\ UNCHANGED budget
           /\ notif' = Append(notif, [about |-> c.about, status |-> status, id |-> c.id])
           /\ alive' = (alive \/ (c.about = "resume" /\ status = "Success"))
    BY <1>1 DEF CommandEnds
  <1>5. PICK n : n = [about |-> c.about, status |-> status, id |-> c.id]
    OBVIOUS
  <1>6. c.about \in {"resume", "cpu"} /\ c.id \in Nat
    BY DEF Data, Commanded
  <1>7. /\ n \in Notifications /\ n.about = c.about /\ n.status = status /\ n.id = c.id
        /\ notif' = Append(notif, n) /\ notif \in Seq(Notifications)
    BY <1>4, <1>5, <1>6 DEF Notifications, Data
  <1>8. /\ ssm'.rows = ssm.rows /\ ssm'.sent = ssm.sent
        /\ Runs(ssm') => Runs(ssm)
        /\ c.about = "resume" => Runs(ssm)
        /\ c.about # "resume" /\ Runs(ssm) => Runs(ssm')
        /\ c.about = "resume" /\ OneRuns(ssm) => ~Runs(ssm')
        /\ OneRuns(ssm) => OneRuns(ssm')
        /\ \A ids : RunsKnown(ssm, ids) =>
              RunsKnown(ssm', ids) /\ (c.about = "resume" => c.id \in ids)
    BY <1>2, CommandStops
  <1>9. /\ Reported(notif') <=> Reported(notif) \/ c.about = "resume"
        /\ OneReport(notif) /\ ~(Reported(notif) /\ c.about = "resume") => OneReport(notif')
        /\ AnyNews(notif') <=> AnyNews(notif)
        /\ \A t : News(notif', t) <=> News(notif, t)
        /\ NewsLast(notif) => NewsLast(notif')
        /\ \A ids : ReportsKnown(notif, ids)
                    /\ (c.about = "resume" => status # "Other" /\ c.id \in ids)
              => ReportsKnown(notif', ids)
    BY <1>6, <1>7, LastNews
  <1>10. Written' = Written
    BY <1>3, <1>8 DEF Written
  <1>11. CASE c.about = "cpu"
    <2>1. SameCommands
      BY <1>8, <1>9, <1>10, <1>11 DEF SameCommands
    <2>2. alive' = alive
      BY <1>4, <1>11 DEF Data
    <2> QED
      BY <1>2, <1>3, <2>1, <2>2, AsidesAlike, FrameCalm
  <1>12. CASE c.about = "resume" /\ ~Live
    BY <1>2, <1>3, <1>12, GoneStaysGone
  <1>13. CASE c.about = "resume" /\ Live
    <2>1. /\ Runs(ssm) /\ OneRuns(ssm) /\ ~Reported(notif) /\ ~Resumes /\ ~Linked(Rest) /\ ~Booting
          /\ Chained
      BY <1>8, <1>13 DEF Calm, ChainInv, Chained
    <2>2. Up /\ ~Down
      BY <1>13, <2>1 DEF Calm, UpInv, DownInv
    <2>3. status = "Success" /\ alive'
      <3>1. ~Fault
        BY FaultTyped DEF Data
      <3> QED
        BY <1>4, <1>13, <2>2, <3>1 DEF Up
    <2>4. /\ ~Runs(ssm') /\ OneRuns(ssm') /\ Reported(notif') /\ OneReport(notif')
          /\ RunsKnown(ssm', Written') /\ ReportsKnown(notif', Written')
      BY <1>8, <1>9, <1>10, <1>13, <2>1, <2>3, NothingToKnow DEF Calm, CommandInv
    <2>5. /\ Stage' = Stage /\ (Resumes' <=> Resumes) /\ (Rebooting' <=> Rebooting)
          /\ (Ending' <=> Ending) /\ (Parked' <=> Parked) /\ Chained' /\ ~Down' /\ ~Booting' /\ Up'
          /\ Stage \notin {"READY", "ERROR", "STOPPING"} /\ ~Parked /\ ~Rebooting
      BY <1>2, <1>3, <1>9, <1>13, <2>1, <2>2, <2>4
         DEF Stage, Resumes, Rebooting, Ending, Parked, Chained, Down, Booting, Up, Busy, Calm, StillInv
    <2>6. ChainInv' /\ StillInv' /\ UpInv' /\ CommandInv'
      BY <1>2, <1>3, <1>13, <2>1, <2>4, <2>5
         DEF Calm, ChainInv, StillInv, UpInv, CommandInv, Up
    <2>7. DownInv' /\ ServerInv'
      BY <1>2, <1>3, <1>9, <1>13, <2>1, <2>4, <2>5 DEF Calm, DownInv, ServerInv, Busy
    <2>8. DcvInv'
      <3>1. job.op = "create" => row.state = "NONE"
        <4>1. SUFFICES ASSUME job.op = "create"
                       PROVE  row.state = "NONE"
          OBVIOUS
        <4>2. PICK a \in Actors : act[a].op # "idle"
          BY <4>1, NoJob DEF Idle
        <4> QED
          BY <4>1, <4>2, JobOf DEF SerialInv, FreshInv, Fresh
      <3>2. row.state \notin {"READY", "STOPPING", "STOPPED"}
        BY <2>1, <2>5, <3>1 DEF Stage, Parked
      <3>3. ~Busy("stop", "write")
        BY <3>2 DEF Busy, SerialInv, JobInv, Begun, Found
      <3> QED
        BY <1>2, <1>3, <1>13, <2>1, <2>3, <2>4, <2>5, <3>2, <3>3 DEF Calm, DcvInv, Busy
    <2>9. StoppingInv' /\ ResumingInv'
      BY <1>2, <1>3, <1>13, <2>4, <2>5 DEF Calm, StoppingInv, ResumingInv, Busy
    <2> QED
      BY <2>6, <2>7, <2>8, <2>9 DEF Calm
  <1> QED
    BY <1>6, <1>11, <1>12, <1>13

\* Schedules, a user who is disabled, and SQS that forgets.
LEMMA OthersCalm ==
  ASSUME Control, Data, Serial, SerialInv, Calm,
         TriggerSchedule \/ UserDisabled \/ DedupExpires
  PROVE  Calm'
  <1>1. UNCHANGED act /\ UNCHANGED <<ssm, notif>> /\ UNCHANGED <<row, server, ec2, host, alive, dcv>>
    BY DEF TriggerSchedule, UserDisabled, DedupExpires, db, world
  <1>2. ASSUME NEW t \in {"SCHEDULED_RESUME", "SCHEDULED_STOP", "TERMINATE"}, Send(queue,
               Event(t))
        PROVE  Calm'
    <2>1. PICK e : e = Event(t) /\ e \in Events /\ e.type = t
      BY <1>2, EventIsEvent DEF EventTypes, Undated
    <2>2. e.type \in Asides
      BY <1>2, <2>1 DEF Asides
    <2> QED
      BY <1>1, <1>2, <2>1, <2>2, SendCalm
  <1>3. CASE DedupExpires
    <2>1. UNCHANGED queue /\ job' = job /\ Rest' = Rest /\ (Recording' <=> Recording)
      BY <1>1, <1>3, PassingHolds DEF DedupExpires, Rest
    <2>2. SameCommands
      BY <1>1, <2>1 DEF SameCommands, Written
    <2> QED
      BY <1>1, <2>1, <2>2, AsidesAlike, FrameCalm
  <1>4. CASE TriggerSchedule
    BY <1>2, <1>4 DEF TriggerSchedule
  <1>5. CASE UserDisabled
    BY <1>2, <1>5 DEF UserDisabled
  <1> QED
    BY <1>3, <1>4, <1>5

-----------------------------------------------------------------------------
(* The whole *)

\* Outages are counted and never forgotten.
LEMMA OutagesStay ==
  ASSUME Data, Next, budget'.outages = 0
  PROVE  budget.outages = 0 /\ ~Outage
  <1>0. /\ budget \in Budgets
        /\ Call => budget'.outages = budget.outages
        /\ Fault => budget'.outages = budget.outages
        /\ UNCHANGED budget => budget'.outages = budget.outages
    BY DEF Data, Budgets, Call, Fault
  <1>1. ASSUME NEW a \in ApiWorkers, Request(a)
        PROVE  UNCHANGED budget \/ Call
    BY <1>1 DEF Request, CreateProvision, ApiResume, ApiStop, ApiReboot, ApiTerminate
  <1>2. ASSUME NEW a \in Actors, Step(a) \/ Fail(a)
        PROVE  UNCHANGED budget \/ Fault
    BY <1>2
       DEF Step, CreateWrite, StopRead, BrokerDelete, StopWrite, PublishDeletion, ResumeRead,
           ResumeHost, ResumeWrite, RebootWrite, RebootHost, TerminateRead, TerminateWrite,
           TerminateStoppedHost, TerminateDelete, Fail
  <1>3. CASE Handle
    <2>1. ASSUME HandleHostReady \/ ReadyCreate \/ ReadyPublish \/ HandleRebootComplete
                 \/ HandleRebootCompleteByController \/ RebootedDescribe \/ RebootedResume
                 \/ RebootedRecord \/ ReadyWrite
          PROVE  UNCHANGED budget
      BY <2>1
         DEF HandleHostReady, ReadyCreate, ReadyPublish, HandleRebootComplete,
             HandleRebootCompleteByController, RebootedDescribe, RebootedResume,
             RebootedRecord, ReadyWrite, Outside
    <2>2. ASSUME HandleEc2Stopping \/ HandleEc2Stopped \/ HandleEc2Running \/ Ec2StopWrite
                 \/ HandleValidateCreation \/ ValidateCreationDescribe \/ HandleValidateDeletion
                 \/ ValidateDeletionDescribe \/ ContinueDelete \/ ContinueDeleteHost \/ ContinueStop
          PROVE  UNCHANGED budget
      BY <2>2
         DEF HandleEc2Stopping, HandleEc2Stopped, HandleEc2Running, HandleValidateCreation,
             ValidateCreationDescribe, HandleValidateDeletion, ValidateDeletionDescribe,
             ContinueDelete, ContinueDeleteHost, ContinueStop, Ec2StopWrite, Outside
    <2>3. ASSUME HandleScheduledResume \/ HandleScheduledStop \/ CpuRecord \/ HandleCpuSuccess
                 \/ HandleCpuOther \/ HandleTerminate \/ HandleResumeSuccess
                 \/ ResumeSuccessPublish \/ HandleResumeFailed \/ HandleResumeOther
                 \/ ResumeStatusWrite \/ ValidateCreationWrite
          PROVE  UNCHANGED budget
      BY <2>3
         DEF HandleScheduledResume, HandleScheduledStop, CpuRecord, HandleCpuSuccess,
             HandleCpuOther, HandleTerminate, HandleResumeSuccess, ResumeSuccessPublish,
             HandleResumeFailed, HandleResumeOther, ResumeStatusWrite, ValidateCreationWrite, Outside
    <2>4. UNCHANGED budget
      BY <1>3, <2>1, <2>2, <2>3 DEF Handle
    <2> QED
      BY <1>0, <2>4 DEF Outage, Budgets
  <1>4. ASSUME Environment \/ TriggerSchedule \/ UserDisabled \/ DedupExpires
        PROVE  UNCHANGED budget \/ Fault \/ Call
    BY <1>4
       DEF Environment, Routes, Route, Ec2Settles, HostUp, BrokerWorks, BrokerNotices, Commands,
           CommandEnds, TriggerSchedule, UserDisabled, DedupExpires
  <1>5. ~Outage
    BY <1>0 DEF Outage, Budgets
  <1> QED
    BY <1>0, <1>1, <1>2, <1>3, <1>4, <1>5 DEF Next

\* Before the creation nothing happens.
LEMMA EmptyStep ==
  ASSUME Control, Data, FreshInv, Serial, SerialInv, EmptyInv, Next
  PROVE  EmptyInv'
  <1>1. SUFFICES ASSUME ec2' = "none"
                 PROVE  EmptyInv'
    BY DEF EmptyInv
  <1>2. ASSUME ec2 = "none"
        PROVE  /\ row.state = "NONE" /\ queue = <<>> /\ notif = <<>> /\ ssm.running = {}
               /\ dcv = "NONE" /\ ~alive /\ act[Handler].op = "idle"
               /\ \A a \in Actors : act[a].op = "idle" \/ act[a].pc = "read"
    BY <1>2, HandlerIsActor DEF EmptyInv, FreshInv, Fresh, Control, Held
  <1>3. ASSUME NEW a \in ApiWorkers, Request(a)
        PROVE  FALSE
    <2>1. CASE CreateProvision(a)
      BY <1>1, <2>1 DEF CreateProvision
    <2>2. CASE ~CreateProvision(a)
      BY <1>1, <1>2, <1>3, <2>2
         DEF Request, ApiResume, ApiStop, ApiReboot, ApiTerminate, world
    <2> QED
      BY <2>1, <2>2
  <1>4. ASSUME NEW a \in Actors, Step(a) \/ Fail(a)
        PROVE  ec2 = "none" /\ UNCHANGED <<queue, notif, ssm, dcv, alive>>
    <2>1. ec2 = "none"
      BY <1>1, <1>4
         DEF Step, CreateWrite, StopRead, BrokerDelete, DeleteDcvSession, StopWrite, StopHost,
             PublishDeletion, ResumeRead, ResumeHost, StartHost, ResumeWrite, RebootWrite, RebootHost,
             TerminateRead, TerminateWrite, TerminateStoppedHost, TerminateHost, TerminateDelete,
             Fail, world
    <2>2. CASE Fail(a)
      BY <2>1, <2>2 DEF Fail, Raise, world
    <2>3. CASE StopRead(a) \/ ResumeRead(a) \/ TerminateRead(a)
      BY <1>2, <2>1, <2>3 DEF StopRead, ResumeRead, TerminateRead, Raise, world
    <2>4. CASE ~Fail(a) /\ ~(StopRead(a) \/ ResumeRead(a) \/ TerminateRead(a))
      BY <1>2, <1>4, <2>1, <2>4
         DEF Step, CreateWrite, BrokerDelete, StopWrite, PublishDeletion, ResumeHost, ResumeWrite,
             RebootWrite, RebootHost, TerminateWrite, TerminateStoppedHost, TerminateDelete, At
    <2> QED
      BY <2>2, <2>3, <2>4
  <1>5. CASE Handle
    <2>1. ASSUME HandleHostReady \/ ReadyCreate \/ ReadyPublish \/ HandleRebootComplete
                 \/ HandleRebootCompleteByController \/ RebootedDescribe \/ RebootedResume
                 \/ RebootedRecord \/ ReadyWrite
          PROVE  FALSE
      BY <1>1, <1>2, <2>1
         DEF HandleHostReady, ReadyCreate, ReadyPublish, HandleRebootComplete,
             HandleRebootCompleteByController, RebootedDescribe, RebootedResume,
             RebootedRecord, ReadyWrite, Outside, world, Receives, At
    <2>2. ASSUME HandleEc2Stopping \/ HandleEc2Stopped \/ HandleEc2Running \/ Ec2StopWrite
                 \/ HandleValidateCreation \/ ValidateCreationDescribe \/ HandleValidateDeletion
                 \/ ValidateDeletionDescribe \/ ContinueDelete \/ ContinueDeleteHost \/ ContinueStop
          PROVE  FALSE
      BY <1>1, <1>2, <2>2
         DEF HandleEc2Stopping, HandleEc2Stopped, HandleEc2Running, HandleValidateCreation,
             ValidateCreationDescribe, HandleValidateDeletion, ValidateDeletionDescribe,
             ContinueDelete, ContinueDeleteHost, ContinueStop, Ec2StopWrite, Outside, world,
             StopHost, TerminateHost, Receives, At
    <2>3. ASSUME HandleScheduledResume \/ HandleScheduledStop \/ CpuRecord \/ HandleCpuSuccess
                 \/ HandleCpuOther \/ HandleTerminate \/ HandleResumeSuccess
                 \/ ResumeSuccessPublish \/ HandleResumeFailed \/ HandleResumeOther
                 \/ ResumeStatusWrite \/ ValidateCreationWrite
          PROVE  FALSE
      BY <1>1, <1>2, <2>3
         DEF HandleScheduledResume, HandleScheduledStop, CpuRecord, HandleCpuSuccess,
             HandleCpuOther, HandleTerminate, HandleResumeSuccess, ResumeSuccessPublish,
             HandleResumeFailed, HandleResumeOther, ResumeStatusWrite, ValidateCreationWrite,
             Outside, world, Receives, At
    <2> QED
      BY <1>5, <2>1, <2>2, <2>3 DEF Handle
  <1>6. CASE Environment
    <2>1. CASE Routes
      <3>1. ec2 = "none" /\ 1 .. Len(notif) # {}
        BY <1>1, <2>1 DEF Routes, Route, world
      <3>2. 1 .. Len(<<>>) = {}
        OBVIOUS
      <3> QED
        BY <1>2, <3>1, <3>2
    <2>2. CASE ~Routes
      BY <1>1, <1>2, <1>6, <2>2
         DEF Environment, Ec2Settles, HostUp, BrokerWorks, BrokerNotices, Commands, CommandEnds
    <2> QED
      BY <2>1, <2>2
  <1>7. CASE Outage \/ TriggerSchedule \/ UserDisabled
    BY <1>1, <1>2, <1>7 DEF Outage, TriggerSchedule, UserDisabled, world
  <1>8. CASE DedupExpires
    BY <1>1, <1>2, <1>8 DEF DedupExpires, world, EmptyInv
  <1> QED
    BY <1>2, <1>3, <1>4, <1>5, <1>6, <1>7, <1>8 DEF Next, EmptyInv

\* terminate_sessions finds a session that is being stopped with its DCV session.
LEMMA SparedStep ==
  ASSUME Control, Data, Serial, SerialInv, Driven, Calm, SparedInv, Next
  PROVE  SparedInv'
  <1>0. /\ act \in [Actors -> ActorStates]
        /\ \A a \in Actors : (CanStart(a) \/ At(a, "terminate", "read")) /\ row.state = "STOPPING"
              => row.dcv
    <2>1. ASSUME NEW a \in Actors, CanStart(a) \/ At(a, "terminate", "read"),
                 row.state = "STOPPING"
          PROVE  row.dcv
      <3>1. job.op = "idle" \/ Busy("terminate", "read")
        BY <2>1, JobStarts, JobOf DEF SerialInv, At, Busy, Idle
      <3>2. Live
        BY <2>1, <3>1 DEF Driven, HostInv, Busy, Live, Stage
      <3> QED
        BY <2>1, <3>2 DEF Calm, DcvInv
    <2> QED
      BY <2>1 DEF Control
  <1>1. ASSUME NEW a \in ApiWorkers, Request(a)
        PROVE  SparedInv'
    <2>1. CASE CreateProvision(a) \/ ApiResume(a)
      BY <2>1, <1>0, HandlerIsActor, ApiIsActor
         DEF CreateProvision, ApiResume, Stay, Begin, CanStart, ResumeStart, db, world,
             NoRow, At, ActorStates, SparedInv
    <2>2. ASSUME NEW force \in BOOLEAN,
                 ApiStop(a, force) \/ ApiReboot(a, force) \/ ApiTerminate(a, force)
          PROVE  SparedInv'
      BY <2>2, <1>0, HandlerIsActor, ApiIsActor
         DEF ApiStop, ApiReboot, ApiTerminate, Stay, Begin, CanStart, StopStart,
             TerminateStart, db, world, At, ActorStates, SparedInv
    <2> QED
      BY <1>1, <2>1, <2>2 DEF Request
  <1>2. ASSUME NEW a \in Actors, Step(a) \/ Fail(a)
        PROVE  SparedInv'
    <2>1. CASE CreateWrite(a) \/ StopRead(a) \/ BrokerDelete(a) \/ StopWrite(a)
               \/ PublishDeletion(a) \/ ResumeRead(a) \/ ResumeHost(a) \/ ResumeWrite(a)
      BY <2>1, <1>0, HandlerIsActor
         DEF CreateWrite, StopRead, BrokerDelete, StopWrite, PublishDeletion, ResumeRead,
             ResumeHost, ResumeWrite, Stay, Goto, Begin, Return, Raise, StopStart,
             ResumeStart, Update, db, world, StopHost, StartHost, DeleteDcvSession,
             StopRefused, NoRow, Idle, At, ActorStates, SparedInv
    <2>2. CASE RebootWrite(a) \/ RebootHost(a) \/ TerminateRead(a) \/ TerminateWrite(a)
               \/ TerminateStoppedHost(a) \/ TerminateDelete(a) \/ Fail(a)
      BY <2>2, <1>0, HandlerIsActor
         DEF RebootWrite, RebootHost, TerminateRead, TerminateWrite, TerminateStoppedHost,
             TerminateDelete, Fail, Stay, Goto, Begin, Return, Raise, TerminateStart,
             Update, db, world, TerminateHost, NoRow, Idle, At, ActorStates, SparedInv
    <2> QED
      BY <1>2, <2>1, <2>2 DEF Step
  <1>3. CASE Handle
    <2>1. CASE HandleHostReady \/ ReadyCreate \/ ReadyPublish \/ HandleRebootComplete
               \/ HandleRebootCompleteByController \/ RebootedResume \/ RebootedRecord
               \/ HandleEc2Stopping
      BY <2>1, <1>0, HandlerIsActor
         DEF HandleHostReady, ReadyCreate, ReadyPublish, HandleRebootComplete,
             HandleRebootCompleteByController, RebootedResume, RebootedRecord,
             HandleEc2Stopping, Stay, Goto, Begin, Return, Raise, Run, Ignore, Outside,
             Receives, CanStart, db, world, NoRow, Idle, At, ActorStates, SparedInv
    <2>2. CASE ReadyWrite
      BY <2>2, ReadyWriteEffect, HandlerIsActor, <1>0
         DEF At, Goto, Return, Raise, Ignore, Outside, world, Idle, ActorStates, SparedInv
    <2>3. CASE RebootedDescribe
      BY <2>3, RebootedDescribeEffect, HandlerIsActor, <1>0
         DEF At, Goto, Return, Raise, Ignore, Outside, world, Idle, ActorStates, SparedInv
    <2>4. CASE HandleEc2Stopped \/ Ec2StopWrite \/ HandleEc2Running
               \/ HandleValidateCreation \/ ValidateCreationDescribe
               \/ HandleValidateDeletion \/ ValidateDeletionDescribe \/ ContinueDelete
      BY <2>4, <1>0, HandlerIsActor
         DEF HandleEc2Stopped, Ec2StopWrite, HandleEc2Running, HandleValidateCreation,
             ValidateCreationDescribe, HandleValidateDeletion, ValidateDeletionDescribe,
             ContinueDelete, Stay, Goto, Begin, Return, Raise, Run, Ignore, Outside,
             Receives, CanStart, Update, db, world, NoRow, Idle, At, ActorStates,
             SparedInv
    <2>5. CASE ValidateCreationWrite
      BY <2>5, ValidateCreationWriteEffect, HandlerIsActor, <1>0
         DEF At, Return, Raise, Ignore, Outside, world, Idle, SparedInv
    <2>6. CASE ContinueDeleteHost \/ ContinueStop \/ HandleScheduledResume
               \/ HandleScheduledStop \/ CpuRecord \/ HandleCpuSuccess \/ HandleCpuOther
               \/ HandleTerminate
      BY <2>6, <1>0, HandlerIsActor
         DEF ContinueDeleteHost, ContinueStop, HandleScheduledResume, HandleScheduledStop,
             CpuRecord, HandleCpuSuccess, HandleCpuOther, HandleTerminate, Stay, Begin,
             Return, Raise, Run, Ignore, Outside, Receives, CanStart, db, world,
             TerminateHost, StopHost, StopRefused, NoRow, Idle, At, ActorStates, SparedInv
    <2>7. CASE HandleResumeSuccess \/ ResumeSuccessPublish \/ HandleResumeFailed
               \/ HandleResumeOther \/ ResumeStatusWrite
      BY <2>7, <1>0, HandlerIsActor
         DEF HandleResumeSuccess, ResumeSuccessPublish, HandleResumeFailed,
             HandleResumeOther, ResumeStatusWrite, Stay, Goto, Begin, Return, Raise, Run,
             Ignore, Outside, Receives, CanStart, Update, db, world, NoRow, Idle, At,
             ActorStates, SparedInv
    <2> QED
      BY <1>3, <2>1, <2>2, <2>3, <2>4, <2>5, <2>6, <2>7 DEF Handle
  <1>4. CASE Environment
    <2>1. CASE Routes
      BY <2>1 DEF Routes, Route, world, At, SparedInv
    <2>2. CASE Ec2Settles \/ HostUp \/ BrokerWorks \/ BrokerNotices
      BY <2>2
         DEF Ec2Settles, HostUp, BrokerWorks, BrokerNotices, db, At, ActorStates,
             SparedInv
    <2>3. CASE Commands
      BY <2>3 DEF Commands, CommandEnds, At, SparedInv
    <2> QED
      BY <1>4, <2>1, <2>2, <2>3 DEF Environment
  <1>5. CASE Outage \/ TriggerSchedule \/ UserDisabled \/ DedupExpires
    <2>1. CASE Outage \/ TriggerSchedule \/ UserDisabled \/ DedupExpires
      BY <2>1
         DEF Outage, TriggerSchedule, UserDisabled, DedupExpires, db, world, At,
             ActorStates, SparedInv
    <2> QED
      BY <1>5, <2>1 DEF Outage
  <1> QED
    BY <1>1, <1>2, <1>3, <1>4, <1>5 DEF Next

\* As long as nothing fails, nobody touches the host behind the controller's back
\* and notifications keep their order, operations that do not overlap leave
\* every session that has its host in the state the host is in.
THEOREM UndisturbedHolds ==
  ASSUME Serial
  PROVE  Spec => []UndisturbedInv
  <1>1. Init => UndisturbedInv
    <2>1. SUFFICES ASSUME Init
                   PROVE  EmptyInv /\ Calm /\ SparedInv
      BY DEF UndisturbedInv
    <2>2. \A a \in Actors : act[a].op = "idle"
      BY <2>1 DEF Init, Idle
    <2>3. job.op = "idle"
      BY <2>2, NoJob DEF Idle
    <2> QED
      BY <2>1, <2>2, <2>3, NoRowTyped DEF Init, EmptyInv, Calm, Live, Stage, SparedInv, At
  <1>2. IInv /\ SerialInv /\ FaultlessInv /\ UndisturbedInv /\ [Next]_vars => UndisturbedInv'
    <2>1. ASSUME IInv, SerialInv, FaultlessInv, UndisturbedInv, Next,
                 ~Reorder, budget'.faults = 0, budget'.outages = 0
          PROVE  EmptyInv' /\ Calm' /\ SparedInv'
      <3>1. /\ Driven /\ EmptyInv /\ Calm /\ SparedInv /\ ~Outage /\ \A a \in Actors : ~Fail(a)
            /\ Control /\ Data /\ FreshInv /\ ReleasedInv
        BY <2>1, FaultsStay, OutagesStay DEF IInv, FaultlessInv, UndisturbedInv
      <3>2. EmptyInv' /\ SparedInv'
        BY <2>1, <3>1, EmptyStep, SparedStep
      <3>3. ASSUME NEW a \in ApiWorkers, Request(a)
            PROVE  Calm'
        BY <2>1, <3>1, <3>3, RequestCalm
      <3>4. ASSUME NEW a \in Actors, Step(a)
            PROVE  Calm'
        BY <2>1, <3>1, <3>4, StepCalm
      <3>5. CASE Handle
        <4>1. CASE \/ HandleHostReady \/ ReadyCreate \/ ReadyWrite \/ ReadyPublish
                   \/ HandleRebootComplete \/ HandleRebootCompleteByController
                   \/ RebootedDescribe \/ RebootedResume \/ RebootedRecord
                   \/ HandleValidateCreation \/ ValidateCreationDescribe \/ ValidateCreationWrite
          BY <2>1, <3>1, <3>2, <4>1, HandleUpCalm
        <4>2. CASE HandleEc2Stopping \/ HandleEc2Stopped \/ Ec2StopWrite \/ HandleEc2Running
          BY <2>1, <3>1, <3>2, <4>2, HandleEc2Calm
        <4>3. CASE \/ HandleValidateDeletion \/ ValidateDeletionDescribe
                   \/ ContinueDelete \/ ContinueDeleteHost \/ ContinueStop
          BY <2>1, <3>1, <3>2, <4>3, HandleDeletionCalm
        <4>4. CASE \/ HandleScheduledResume \/ HandleScheduledStop \/ CpuRecord
                   \/ HandleCpuSuccess \/ HandleCpuOther \/ HandleTerminate
          BY <2>1, <3>1, <3>2, <4>4, HandleAsideCalm
        <4>5. CASE \/ HandleResumeSuccess \/ ResumeSuccessPublish \/ HandleResumeFailed
                   \/ HandleResumeOther \/ ResumeStatusWrite
          BY <2>1, <3>1, <3>2, <4>5, HandleResumeCalm
        <4> QED
          BY <3>5, <4>1, <4>2, <4>3, <4>4, <4>5 DEF Handle
      <3>6. CASE Environment
        <4>1. CASE Routes
          BY <2>1, <3>1, <3>2, <4>1, RouteCalm
        <4>2. CASE Ec2Settles \/ HostUp \/ BrokerWorks \/ BrokerNotices
          BY <2>1, <3>1, <3>2, <4>2, WorldCalm
        <4>3. CASE Commands
          BY <2>1, <3>1, <3>2, <4>3, CommandCalm
        <4> QED
          BY <3>6, <4>1, <4>2, <4>3 DEF Environment
      <3>7. CASE TriggerSchedule \/ UserDisabled \/ DedupExpires
        BY <2>1, <3>1, <3>2, <3>7, OthersCalm
      <3> QED
        BY <2>1, <3>1, <3>2, <3>3, <3>4, <3>5, <3>6, <3>7 DEF Next
    <2>2. ASSUME IInv, SerialInv, UndisturbedInv, UNCHANGED vars
          PROVE  UndisturbedInv'
      <3>1. /\ UNCHANGED act /\ UNCHANGED <<queue, ssm, notif, budget>>
            /\ UNCHANGED <<row, server, ec2, host, alive, dcv>>
        BY <2>2 DEF vars
      <3>2. job' = job /\ Rest' = Rest /\ (Recording' <=> Recording)
        BY <2>2, <3>1, PassingHolds DEF Rest, IInv
      <3>3. SameCommands
        BY <3>1, <3>2 DEF SameCommands, Written
      <3>4. Calm => Calm'
        BY <3>1, <3>2, <3>3, AsidesAlike, FrameCalm
      <3> QED
        BY <2>2, <3>1, <3>4 DEF UndisturbedInv, EmptyInv, SparedInv, At
    <2> QED
      BY <2>1, <2>2 DEF UndisturbedInv
  <1> QED
    BY <1>1, <1>2, InvariantHolds, SerialHolds, FaultlessHolds, PTL DEF Spec

\* What UndisturbedInv, with the invariants below it, says of a session nothing
\* disturbed.
LEMMA Undisturbed ==
  ASSUME IInv, SerialInv, FaultlessInv, UndisturbedInv, ~Reorder, budget.faults = 0,
         budget.outages = 0, row.state # "NONE"
  PROVE  /\ Stage = row.state
         /\ Live \/ Busy("terminate", "delete")
         /\ row.state = "STOPPING" => Live
         /\ job.op = "idle" => Live
         /\ Live => /\ UpInv /\ DownInv /\ ServerInv /\ DcvInv
                    /\ CommandInv /\ StoppingInv /\ ResumingInv
  <1>1. Driven /\ Calm /\ SparedInv /\ Control /\ FreshInv
    BY DEF IInv, FaultlessInv, UndisturbedInv
  <1>2. job.op # "create"
    <2>1. SUFFICES ASSUME job.op = "create"
                   PROVE  FALSE
      OBVIOUS
    <2>2. PICK a \in Actors : act[a].op # "idle"
      BY <2>1, NoJob DEF Idle
    <2> QED
      BY <1>1, <2>1, <2>2, JobOf DEF SerialInv, FreshInv, Fresh
  <1>3. Stage = row.state
    BY <1>2 DEF Stage
  <1>4. Live \/ Busy("terminate", "delete")
    BY <1>1, <1>3 DEF Driven, HostInv, Live
  <1>5. Busy("terminate", "delete") => row.state # "STOPPING"
    <2>1. SUFFICES ASSUME Busy("terminate", "delete")
                   PROVE  row.state # "STOPPING"
      OBVIOUS
    <2>2. PICK a \in Actors : act[a].op # "idle"
      BY <2>1, NoJob DEF Busy, Idle
    <2>3. job = act[a]
      BY <2>2, JobOf DEF SerialInv
    <2>4. row = job.snap
      BY <2>1 DEF Busy, SerialInv, JobInv, Found
    <2> QED
      BY <1>1, <2>1, <2>2, <2>3, <2>4 DEF Busy, At, SparedInv
  <1> QED
    BY <1>1, <1>3, <1>4, <1>5 DEF Calm, Busy

\* What is on its way, as the properties look at it.
LEMMA WordsOfCommands ==
  ASSUME Data
  PROVE  /\ News(notif, "stopped") => Coming("ec2", {"stopped"})
         /\ \A ids : Reported(notif) /\ ReportsKnown(notif, ids) =>
               Coming("resume", {"Success", "Failed"})
  <1>1. DOMAIN notif = 1 .. Len(notif) /\ \A i \in 1 .. Len(notif) : notif[i] \in Notifications
    BY DEF Data
  <1>2. News(notif, "stopped") => Coming("ec2", {"stopped"})
    BY <1>1 DEF News, Coming
  <1>3. ASSUME NEW ids, Reported(notif), ReportsKnown(notif, ids)
        PROVE  Coming("resume", {"Success", "Failed"})
    <2>1. PICK i \in 1 .. Len(notif) : notif[i].about = "resume"
      BY <1>3 DEF Reported
    <2>2. notif[i].status \in {"Success", "Failed", "Other"} /\ notif[i].status # "Other"
      BY <1>1, <1>3, <2>1 DEF Notifications, ReportsKnown
    <2> QED
      BY <1>1, <2>1, <2>2 DEF Coming
  <1> QED
    BY <1>2, <1>3

\* A session that nothing disturbed and that is STOPPING always has its
\* VALIDATE_DELETION event, or the stop_sessions that is about to publish it, or
\* its instance is stopping, or the news that it stopped is still to be handled:
\* the EC2_STOPPED handler, which alone writes STOPPED, will run.
THEOREM StopsDriven ==
  ASSUME Serial, ~DedupWindow, ~Reorder
  PROVE  Spec => [](budget.faults = 0 /\ budget.outages = 0 => StopIsDriven)
  <1>1. IInv /\ SerialInv /\ FaultlessInv /\ UndisturbedInv
        => (budget.faults = 0 /\ budget.outages = 0 => StopIsDriven)
    <2>1. SUFFICES ASSUME IInv, SerialInv, FaultlessInv, UndisturbedInv, budget.faults = 0,
                          budget.outages = 0, row.state = "STOPPING"
                   PROVE  \/ Queued("VALIDATE_DELETION") \/ Doing("stop", "publish")
                          \/ ec2 = "stopping" \/ Coming("ec2", {"stopped"}) \/ Queued("EC2_STOPPED")
      BY DEF StopIsDriven
    <2>2. Stage = "STOPPING" /\ DownInv /\ StoppingInv /\ Control /\ Data
      BY <2>1, Undisturbed DEF IInv
    <2>3. \/ Waits(queue, "VALIDATE_DELETION") \/ Busy("stop", "publish")
          \/ ec2 = "stopping" \/ News(notif, "stopped") \/ Waits(queue, "EC2_STOPPED")
      BY <2>2 DEF DownInv, StoppingInv
    <2> QED
      BY <2>1, <2>2, <2>3, WordsOfProperties, WordsOfCommands
  <1> QED
    BY <1>1, InvariantHolds, SerialHolds, FaultlessHolds, UndisturbedHolds, PTL

\* A session that nothing disturbed, that does not hibernate and that is RESUMING
\* always has the next link of the chain that brings it up: the boot, the event
\* of the boot, the resume command, its status, or the validation.
THEOREM ResumesDriven ==
  ASSUME Serial, ~Hibernation, ~Reorder
  PROVE  Spec => [](budget.faults = 0 /\ budget.outages = 0 => ResumeIsDriven)
  <1>1. IInv /\ SerialInv /\ FaultlessInv /\ UndisturbedInv
        => (budget.faults = 0 /\ budget.outages = 0 => ResumeIsDriven)
    <2>1. SUFFICES ASSUME IInv, SerialInv, FaultlessInv, UndisturbedInv, budget.faults = 0,
                          budget.outages = 0, row.state = "RESUMING"
                   PROVE  ResumeIsDriven
      BY DEF ResumeIsDriven
    <2>2. Stage = "RESUMING" /\ Control /\ Data
      BY <2>1, Undisturbed DEF IInv
    <2>3. CASE Busy("terminate", "delete")
      BY <2>1, <2>2, <2>3, WordsOfProperties DEF ResumeIsDriven
    <2>4. CASE Live
      <3>1. /\ ReportsKnown(notif, Written)
            /\ \/ host = "booting" \/ Runs(ssm) \/ Reported(notif) \/ Rebooting
               \/ Waits(queue, "REBOOT_COMPLETE") \/ Waits(queue, "RESUME_SUCCESS")
               \/ Waits(queue, "RESUME_FAILED") \/ Waits(queue, "VALIDATE_CREATION")
        BY <2>1, <2>2, <2>4, Undisturbed DEF CommandInv, ResumingInv
      <3>2. Reported(notif) => Coming("resume", {"Success", "Failed"})
        BY <2>2, <3>1, WordsOfCommands
      <3> QED
        BY <2>1, <2>2, <3>1, <3>2, WordsOfProperties DEF ResumeIsDriven, Runs, Rebooting
    <2> QED
      BY <2>1, <2>3, <2>4, Undisturbed
  <1> QED
    BY <1>1, InvariantHolds, SerialHolds, FaultlessHolds, UndisturbedHolds, PTL

\* The row tells the truth whenever nobody works on the session, whatever is on
\* its way.
TruthfulRow ==
    InFlight = {} =>
        /\ row.state = "READY" => ec2 = "running" /\ alive /\ server = "CREATED"
        /\ row.state = "STOPPED" => ec2 = "stopped" /\ server \in {"STOPPED", "HIBERNATED"}

\* Between two operations on a session that nothing disturbed, READY means that
\* the instance runs, the DCV session exists on it and the host's row is CREATED,
\* and STOPPED that the instance is stopped and the host's row says so: the
\* handlers write these states only when EC2 and the broker have arrived there.
THEOREM RowsAreTrue ==
  ASSUME Serial, ~Reorder
  PROVE  Spec => [](budget.faults = 0 /\ budget.outages = 0 => TruthfulRow)
  <1>1. IInv /\ SerialInv /\ FaultlessInv /\ UndisturbedInv
        => (budget.faults = 0 /\ budget.outages = 0 => TruthfulRow)
    <2>1. SUFFICES ASSUME IInv, SerialInv, FaultlessInv, UndisturbedInv, budget.faults = 0,
                          budget.outages = 0, InFlight = {}, row.state \in {"READY", "STOPPED"}
                   PROVE  TruthfulRow
      BY DEF TruthfulRow
    <2>2. job.op = "idle"
      BY <2>1, WordsOfProperties DEF IInv, Idle
    <2>3. Stage = row.state /\ UpInv /\ ServerInv /\ DcvInv
      BY <2>1, <2>2, Undisturbed
    <2> QED
      BY <2>2, <2>3
         DEF TruthfulRow, UpInv, ServerInv, DcvInv, Up, Ending, Parked, Resumes, Busy
  <1> QED
    BY <1>1, InvariantHolds, SerialHolds, FaultlessHolds, UndisturbedHolds, PTL

\* In particular when everything has come to rest, which is when the session_serial
\* run looks.
THEOREM RestMatchesHost ==
  ASSUME Serial, ~Reorder
  PROVE  Spec => [](budget.faults = 0 /\ budget.outages = 0 => QuietStateMatchesHost)
  <1>1. TruthfulRow => QuietStateMatchesHost
    BY DEF TruthfulRow, QuietStateMatchesHost, Quiet
  <1> QED
    BY <1>1, RowsAreTrue, PTL
=============================================================================
