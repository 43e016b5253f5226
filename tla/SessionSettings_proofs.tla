------------------------ MODULE SessionSettings_proofs ------------------------
(***************************************************************************)
(* What holds of SessionSettings for every set of guests, profiles, wishes  *)
(* and requests, every list of checks and every number of requests and      *)
(* crashes, whoever reads and writes the session's row and the rows of its  *)
(* guests at the same time.                                                 *)
(***************************************************************************)
EXTENDS SessionSettings, SequenceTheorems, TLAPS

-----------------------------------------------------------------------------
(* The inductive invariant *)

\* The rows of the tables, and what the threads remember.
Schedules == [id : Nat, type : ScheduleTypes, start : 0..1439, stop : 0..1439]
PermRows == [Guests -> Rows \cup {Gone}]

Editing == [at : {"remove", "create", "save"}, row : SessionRows, old : Schedules, wish : Wishes]
Changing == [at : {"write"}, row : SessionRows]
Removing == [at : {"delete_schedule"}, sched : Schedules] \cup [at : {"delete_rows"}, todo : SUBSET Guests]
            \cup [at : {"delete_session"}]
Updating == [at : {"update"}, rows : PermRows, todo : SUBSET Guests]
Sharing == {x \in [at : {"write", "publish"}, request : Requests, todo : SUBSET Guests] :
                \A g \in x.todo : x.request[g] # Keep}
Triggering == [at : {"trigger"}, time : Nat]
Expiring == [at : {"expire"}, time : Nat, fired : SUBSET {"stop", "resume"}, hit : BOOLEAN,
             todo : SUBSET Guests]
Events == {"enforce", "update", "resume", "delete"}

TypeInv ==
    /\ session \in SessionRows \cup {Gone} /\ schedules \subseteq Schedules /\ ids \in Nat
    /\ edit \in {Idle} \cup Editing /\ asked \in Wishes /\ excuse \subseteq Labels
    /\ perms \in PermRows /\ profile \in [Profiles -> {"limited", "full", Gone}]
    /\ file \in Files \cup {Gone} /\ command \in Files \cup {Gone}
    /\ inbox \in Seq(Events) /\ tries \in 0..MaxReceive
    /\ worker \in {Idle} \cup Updating \cup Removing
    /\ pending \in [session : Nat, profile : Seq(Profiles)]
    /\ share \in {Idle} \cup Sharing
    /\ granted \in [Guests -> [row : Rows \cup {Gone}, at : Nat]]
    /\ change \in {Idle} \cup Changing /\ removal \in {Idle} \cup Removing
    /\ check \in {Idle} \cup Triggering \cup Expiring /\ now \in 0..Len(Times)
    /\ events \in 0..MaxEvents /\ faults \in 0..MaxFaults

\* A schedule in a row or in the hands of a thread has an id that was given
\* out, or is none at all.
Sound(s, n) == s = Empty \/ (s.id \in 1..n /\ s.type # "NO_SCHEDULE")
SoundInv ==
    /\ session # Gone => Sound(session.sched, ids)
    /\ edit.at # "idle" => Sound(edit.row.sched, ids) /\ Sound(edit.old, ids)
    /\ edit.at \in {"remove", "create"} => edit.row.sched = Empty
    /\ edit.at = "create" => edit.wish.type # "NO_SCHEDULE"
    /\ change.at # "idle" => Sound(change.row.sched, ids)
    /\ worker.at = "delete_schedule" => Sound(worker.sched, ids)
    /\ removal.at = "delete_schedule" => Sound(removal.sched, ids)
    /\ \A s \in schedules : s.id \in 1..ids /\ s.type # "NO_SCHEDULE"

\* The event a thread is busy with is the oldest of the group.
QueueInv ==
    /\ tries > 0 => inbox # <<>>
    /\ worker.at # "idle" => inbox # <<>> /\ tries < MaxReceive
    /\ worker.at = "update" => Head(inbox) = "update"
    /\ worker.at \notin {"idle", "update"} => Head(inbox) = "delete"

\* Without an overlap one thread at a time works on the session's row, and
\* has read what is still there.
WritersInv ==
    "overlap" \notin excuse =>
        /\ edit.at # "idle" => /\ change.at = "idle" /\ ~Deleting(worker) /\ ~Deleting(removal)
                               /\ session # Gone /\ edit.old = session.sched
                               /\ edit.row.state = session.state
        /\ change.at # "idle" => /\ ~Deleting(worker) /\ ~Deleting(removal)
                                 /\ session # Gone /\ change.row.sched = session.sched
                                 /\ session.state # "DELETING"
        /\ Deleting(worker) => ~Deleting(removal) /\ session # Gone /\ session.state = "DELETING"
        /\ worker.at = "delete_schedule" => worker.sched = session.sched
        /\ Deleting(removal) => session # Gone /\ session.state = "STOPPED"
        /\ removal.at = "delete_schedule" => removal.sched = session.sched

\* The row of the session says what was asked for last.
AskedInv ==
    excuse \cap {"overlap", "custom"} = {} =>
        /\ session # Gone => session.sched = Named(session.sched.id, asked)
        /\ edit.at = "save" => edit.row.sched = Named(edit.row.sched.id, edit.wish)
        /\ edit.at = "remove" /\ ~CreatesEntry(edit.wish, edit.old) => edit.wish = NoSchedule

\* A deletion removed the schedule and then failed, and will be repeated.
Broken ==
    /\ "midair" \in excuse
    /\ session # Gone /\ session.state = "DELETING"
    /\ inbox # <<>> /\ Head(inbox) = "delete"
    /\ schedules = {}

Only(s) == schedules = {s} \ {Empty}

\* The schedules table has the schedule of the row, or what an edit or a
\* deletion has made of it so far.
ScheduleInv ==
    excuse \cap {"overlap", "crashed", "undeleted"} = {} =>
        /\ edit.at = "idle" /\ ~Deleting(worker) /\ ~Deleting(removal) /\ session # Gone
            => Only(session.sched) \/ Broken
        /\ edit.at = "remove" => Only(edit.old) \/ Broken
        /\ edit.at = "create" => schedules = {}
        /\ edit.at = "save" => Only(edit.row.sched) \/ (Broken /\ edit.row.sched = session.sched)
        /\ worker.at = "delete_schedule" => Only(worker.sched) \/ Broken
        /\ removal.at = "delete_schedule" => Only(removal.sched)
        /\ worker.at \in {"delete_rows", "delete_session"} => schedules = {}
        /\ removal.at \in {"delete_rows", "delete_session"} => schedules = {}
        /\ session = Gone => schedules = {}

\* Nobody changes the rows of the guests behind the back of a handler or a
\* deletion, unless it is noted.
RowsInv ==
    /\ "midair" \notin excuse /\ worker.at = "update" => worker.rows = perms
    /\ excuse \cap {"overlap", "midair", "crashed"} = {} =>
        /\ worker.at = "delete_rows" => worker.todo = Shared
        /\ worker.at = "delete_session" => Shared = {}
        /\ removal.at = "delete_rows" => removal.todo = Shared
        /\ removal.at = "delete_session" => Shared = {}
        /\ session = Gone => Shared = {}
        /\ tries > 0 => Head(inbox) # "delete"
        /\ "undeleted" \notin excuse

\* What the last request left of the row of guest g after n checks.
Expected(g, n) ==
    IF granted[g].row # Gone /\ granted[g].at < n /\ granted[g].row.expiry <= Times[n]
    THEN Gone ELSE granted[g].row

GrantInv ==
    /\ \A g \in Guests : granted[g].at <= now
    /\ check.at # "idle" => now > 0 /\ check.time = Times[now]
    /\ session # Gone /\ excuse \cap {"midair", "overlap", "crashed", "undeleted"} = {}
       /\ ~DeletesRows(worker) /\ ~DeletesRows(removal) =>
        \A g \in Guests :
            /\ check.at = "idle" => perms[g] = Expected(g, now)
            /\ check.at # "idle" => granted[g].at < now
            /\ check.at = "trigger" => perms[g] \in {Expected(g, now - 1), Expected(g, now)}
            /\ check.at = "expire" =>
                /\ g \in check.todo => /\ perms[g] = granted[g].row /\ perms[g] # Gone
                                       /\ perms[g] = Expected(g, now - 1)
                                       /\ perms[g].expiry <= check.time
                /\ g \notin check.todo => perms[g] = Expected(g, now)

IInv == TypeInv /\ SoundInv /\ QueueInv /\ WritersInv /\ AskedInv /\ ScheduleInv /\ RowsInv /\ GrantInv

-----------------------------------------------------------------------------
(* Threads, queues and frames *)

\* Where a thread is tells what it remembers.
LEMMA Forms ==
    ASSUME TypeInv
    PROVE  /\ edit.at \in {"idle", "remove", "create", "save"} /\ (edit.at = "idle" <=> edit = Idle)
           /\ edit.at # "idle" => edit \in Editing
           /\ change.at \in {"idle", "write"} /\ (change.at = "idle" <=> change = Idle)
           /\ change.at # "idle" => change \in Changing
           /\ share.at \in {"idle", "write", "publish"} /\ (share.at = "idle" <=> share = Idle)
           /\ share.at # "idle" => share \in Sharing
           /\ worker.at \in {"idle", "update", "delete_schedule", "delete_rows", "delete_session"}
           /\ (worker.at = "idle" <=> worker = Idle)
           /\ worker.at = "update" => worker \in Updating
           /\ worker.at = "delete_schedule" => worker.sched \in Schedules
           /\ worker.at = "delete_rows" => worker.todo \in SUBSET Guests
           /\ removal.at \in {"idle", "delete_schedule", "delete_rows", "delete_session"}
           /\ (removal.at = "idle" <=> removal = Idle)
           /\ removal.at = "delete_schedule" => removal.sched \in Schedules
           /\ removal.at = "delete_rows" => removal.todo \in SUBSET Guests
           /\ check.at \in {"idle", "trigger", "expire"} /\ (check.at = "idle" <=> check = Idle)
           /\ check.at = "trigger" => check \in Triggering
           /\ check.at = "expire" => check \in Expiring
<1>1. Idle.at = "idle"
  BY DEF Idle
<1> HIDE DEF Idle
<1>2. /\ edit.at \in {"idle", "remove", "create", "save"} /\ (edit.at = "idle" <=> edit = Idle)
      /\ edit.at # "idle" => edit \in Editing
  BY <1>1 DEF TypeInv, Editing
<1>3. /\ change.at \in {"idle", "write"} /\ (change.at = "idle" <=> change = Idle)
      /\ change.at # "idle" => change \in Changing
  BY <1>1 DEF TypeInv, Changing
<1>4. /\ share.at \in {"idle", "write", "publish"} /\ (share.at = "idle" <=> share = Idle)
      /\ share.at # "idle" => share \in Sharing
  BY <1>1 DEF TypeInv, Sharing
<1>5. /\ worker.at \in {"idle", "update", "delete_schedule", "delete_rows", "delete_session"}
      /\ (worker.at = "idle" <=> worker = Idle)
      /\ worker.at = "update" => worker \in Updating
      /\ worker.at = "delete_schedule" => worker.sched \in Schedules
      /\ worker.at = "delete_rows" => worker.todo \in SUBSET Guests
  BY <1>1 DEF TypeInv, Updating, Removing
<1>6. /\ removal.at \in {"idle", "delete_schedule", "delete_rows", "delete_session"}
      /\ (removal.at = "idle" <=> removal = Idle)
      /\ removal.at = "delete_schedule" => removal.sched \in Schedules
      /\ removal.at = "delete_rows" => removal.todo \in SUBSET Guests
  BY <1>1 DEF TypeInv, Removing
<1>7. /\ check.at \in {"idle", "trigger", "expire"} /\ (check.at = "idle" <=> check = Idle)
      /\ check.at = "trigger" => check \in Triggering
      /\ check.at = "expire" => check \in Expiring
  BY <1>1 DEF TypeInv, Triggering, Expiring
<1> QED
  BY <1>2, <1>3, <1>4, <1>5, <1>6, <1>7

\* An event is published behind the others.
LEMMA Published ==
    ASSUME NEW q \in Seq(Events), NEW e \in Events
    PROVE  /\ Append(q, e) \in Seq(Events) /\ Append(q, e) # <<>>
           /\ q # <<>> => Head(Append(q, e)) = Head(q)
<1>1. /\ Append(q, e) \in Seq(Events) /\ Len(Append(q, e)) = Len(q) + 1 /\ Len(q) \in Nat
      /\ \A i \in 1..Len(q) : Append(q, e)[i] = q[i]
  BY AppendProperties, LenProperties
<1>2. Append(q, e) # <<>>
  BY <1>1, EmptySeq
<1>3. ASSUME q # <<>> PROVE Head(Append(q, e)) = Head(q)
  <2>1. Len(q) >= 1 /\ Append(q, e)[1] = q[1]
    BY <1>1, <1>3, EmptySeq
  <2> QED
    BY <1>1, <1>2, <1>3, <2>1
<1> QED
  BY <1>1, <1>2, <1>3

\* A handler may return to the queue what is left of it.
LEMMA Rest ==
    ASSUME NEW S, NEW q \in Seq(S), q # <<>>
    PROVE  Tail(q) \in Seq(S) /\ Head(q) \in S
  BY HeadTailProperties

\* A step that leaves the schedules and the writers of the session's row alone.
LEMMA ScheduleFrame ==
    ASSUME SoundInv, WritersInv, AskedInv, ScheduleInv,
           UNCHANGED <<scheduleVars, change, removal>>, excuse \subseteq excuse',
           worker' = worker \/ (~Deleting(worker) /\ ~Deleting(worker)'),
           inbox # <<>> /\ Head(inbox) = "delete" =>
               (inbox' # <<>> /\ Head(inbox') = "delete") \/ "undeleted" \in excuse'
    PROVE  SoundInv' /\ WritersInv' /\ AskedInv' /\ ScheduleInv'
<1>1. SoundInv'
  BY DEF SoundInv, scheduleVars, Deleting
<1>2. WritersInv'
  BY DEF WritersInv, scheduleVars, Deleting
<1>3. AskedInv'
  BY DEF AskedInv, scheduleVars
<1>4. Broken => Broken' \/ "undeleted" \in excuse'
  BY DEF Broken, scheduleVars
<1>5. ScheduleInv'
  BY <1>4 DEF ScheduleInv, scheduleVars, Deleting, Only
<1> QED
  BY <1>1, <1>2, <1>3, <1>5

\* A step that leaves the rows of the guests alone, and everybody who has
\* read them.
LEMMA RowsFrame ==
    ASSUME RowsInv, UNCHANGED <<perms, removal>>, excuse \subseteq excuse',
           session' = Gone => session = Gone,
           worker' = worker \/ worker'.at \in {"idle", "delete_schedule"},
           tries' > 0 => inbox # <<>> /\ inbox' # <<>> /\ Head(inbox') = Head(inbox)
                         /\ (tries > 0 \/ Head(inbox) # "delete"),
           "undeleted" \in excuse' => "undeleted" \in excuse
    PROVE  RowsInv'
  BY DEF RowsInv, Shared

\* A step that leaves the rows, the grants and the check alone.
LEMMA GrantFrame ==
    ASSUME GrantInv, UNCHANGED <<perms, granted, check, now>>, excuse \subseteq excuse',
           session = Gone => session' = Gone \/ excuse' \cap {"midair", "overlap", "crashed", "undeleted"} # {},
           DeletesRows(worker) \/ DeletesRows(removal) =>
               \/ DeletesRows(worker)' \/ DeletesRows(removal)' \/ session' = Gone
               \/ excuse' \cap {"midair", "overlap", "crashed", "undeleted"} # {}
    PROVE  GrantInv'
  BY DEF GrantInv, Expected

-----------------------------------------------------------------------------
(* Every action preserves the invariant: permissions *)

\* A request begins: it has written nothing yet.
LEMMA ShareStarts ==
    ASSUME IInv, NEW request \in Requests, Share(request)
    PROVE  IInv'
<1> DEFINE new == [at |-> "write", request |-> request, todo |-> {g \in Guests : request[g] # Keep}]
<1>1. /\ IInv /\ UNCHANGED <<scheduleVars, excuse, actorVars, perms, profile, file, command, inbox, tries,
                             worker, pending, granted, faults>>
      /\ share' = new /\ events < MaxEvents /\ events' = events + 1
  BY DEF Share, ShareBegin, Event
<1>2. new \in Sharing
  BY DEF Sharing
<1> HIDE DEF new
<1>3. TypeInv'
  <2>1. events' \in 0..MaxEvents
    BY <1>1, SettingsParameters DEF IInv, TypeInv
  <2> QED
    BY <1>1, <1>2, <2>1 DEF IInv, TypeInv, scheduleVars, actorVars
<1>4. QueueInv'
  BY <1>1 DEF IInv, QueueInv
<1>5. SoundInv' /\ WritersInv' /\ AskedInv' /\ ScheduleInv'
  BY <1>1, ScheduleFrame DEF IInv, actorVars
<1>6. RowsInv'
  BY <1>1 DEF IInv, RowsInv, Shared, scheduleVars, actorVars
<1>7. GrantInv'
  BY <1>1, GrantFrame DEF IInv, scheduleVars, actorVars, DeletesRows
<1> QED
  BY <1>3, <1>4, <1>5, <1>6, <1>7 DEF IInv

\* A profile changes, and with it what the file should say.
LEMMA UpdateProfileStep ==
    ASSUME IInv, NEW p \in Profiles, NEW content \in {"limited", "full", Gone}, UpdateProfile(p, content)
    PROVE  IInv'
<1>1. /\ IInv /\ UNCHANGED <<scheduleVars, actorVars, perms, file, command, inbox, tries, worker, share, granted, faults>>
      /\ profile' = [profile EXCEPT ![p] = content] /\ events < MaxEvents /\ events' = events + 1
      /\ pending' = [pending EXCEPT !.profile = IF profile[p] # Gone /\ content # Gone THEN Append(@, p) ELSE @]
      /\ excuse \subseteq excuse' /\ excuse' \subseteq excuse \cup {"recreated"}
  BY DEF UpdateProfile, SetProfile, Event, Note
<1>2. TypeInv'
  <2>1. events' \in 0..MaxEvents
    BY <1>1, SettingsParameters DEF IInv, TypeInv
  <2>2. pending.profile \in Seq(Profiles) /\ Append(pending.profile, p) \in Seq(Profiles)
    BY AppendProperties DEF IInv, TypeInv
  <2>3. pending' \in [session : Nat, profile : Seq(Profiles)]
    BY <1>1, <2>2 DEF IInv, TypeInv
  <2>4. profile' \in [Profiles -> {"limited", "full", Gone}]
    BY <1>1 DEF IInv, TypeInv
  <2>5. excuse' \subseteq Labels
    BY <1>1 DEF IInv, TypeInv, Labels
  <2> QED
    BY <1>1, <2>1, <2>3, <2>4, <2>5 DEF IInv, TypeInv, scheduleVars, actorVars
<1>3. QueueInv'
  BY <1>1 DEF IInv, QueueInv
<1>4. SoundInv' /\ WritersInv' /\ AskedInv' /\ ScheduleInv'
  BY <1>1, ScheduleFrame DEF IInv, actorVars
<1>5. RowsInv'
  BY <1>1 DEF IInv, RowsInv, Shared, scheduleVars, actorVars
<1>6. GrantInv'
  BY <1>1, GrantFrame DEF IInv, scheduleVars, actorVars, DeletesRows
<1> QED
  BY <1>2, <1>3, <1>4, <1>5, <1>6 DEF IInv

\* A step that only publishes events, or runs a command.
LEMMA PublishingStep ==
    ASSUME IInv, UNCHANGED <<scheduleVars, excuse, change, removal, now, bounds, perms, profile, tries, worker, granted>>,
           share' \in {Idle} \cup Sharing, pending' \in [session : Nat, profile : Seq(Profiles)],
           file' \in Files \cup {Gone}, command' \in Files \cup {Gone},
           inbox' = inbox \/ \E e \in Events : inbox' = Append(inbox, e),
           check' \in {Idle} \cup Triggering \cup Expiring, GrantInv'
    PROVE  IInv'
<1>1. /\ inbox' \in Seq(Events)
      /\ inbox' = inbox \/ (inbox' # <<>> /\ (inbox # <<>> => Head(inbox') = Head(inbox)))
  BY Published DEF IInv, TypeInv
<1>2. TypeInv'
  BY <1>1 DEF IInv, TypeInv, scheduleVars, bounds
<1>3. QueueInv'
  BY <1>1 DEF IInv, QueueInv
<1>4. SoundInv' /\ WritersInv' /\ AskedInv' /\ ScheduleInv'
  BY <1>1, ScheduleFrame DEF IInv
<1>5. RowsInv'
  BY <1>1 DEF IInv, RowsInv, QueueInv, Shared, scheduleVars
<1> QED
  BY <1>2, <1>3, <1>4, <1>5 DEF IInv

\* The request tells the broker's handler of the new rows.
LEMMA SharePublishStep ==
    ASSUME IInv, SharePublish, UNCHANGED <<scheduleVars, actorVars, bounds>>
    PROVE  IInv'
<1>1. GrantInv'
  BY GrantFrame DEF IInv, SharePublish, scheduleVars, actorVars, DeletesRows
<1> QED
  BY <1>1, PublishingStep DEF SharePublish, Publish, Events, IInv, TypeInv, actorVars

\* A change of a profile is announced to the sessions that use it.
LEMMA ProfileUpdatedStep ==
    ASSUME IInv, ProfileUpdated, UNCHANGED <<scheduleVars, actorVars, bounds>>
    PROVE  IInv'
<1>1. GrantInv'
  BY GrantFrame DEF IInv, ProfileUpdated, scheduleVars, actorVars, DeletesRows
<1>2. pending' \in [session : Nat, profile : Seq(Profiles)]
  <2>1. Tail(pending.profile) \in Seq(Profiles)
    BY Rest DEF IInv, TypeInv, ProfileUpdated
  <2> QED
    BY <2>1 DEF IInv, TypeInv, ProfileUpdated
<1>3. inbox' = inbox \/ \E e \in Events : inbox' = Append(inbox, e)
  BY DEF ProfileUpdated, Publish, Events
<1> QED
  BY <1>1, <1>2, <1>3, PublishingStep DEF ProfileUpdated, IInv, TypeInv, actorVars

\* A change of the session's state is announced.
LEMMA SessionUpdatedStep ==
    ASSUME IInv, SessionUpdated, UNCHANGED <<scheduleVars, actorVars, bounds>>
    PROVE  IInv'
<1>1. GrantInv'
  BY GrantFrame DEF IInv, SessionUpdated, scheduleVars, actorVars, DeletesRows
<1>2. pending' \in [session : Nat, profile : Seq(Profiles)]
  <2> DEFINE n == pending.session - 1
  <2>1. pending \in [session : Nat, profile : Seq(Profiles)] /\ pending.session > 0
        /\ pending' = [pending EXCEPT !.session = n]
    BY DEF IInv, TypeInv, SessionUpdated
  <2>2. n \in Nat
    BY <2>1
  <2> HIDE DEF n
  <2> QED
    BY <2>1, <2>2
<1>3. inbox' = inbox \/ \E e \in Events : inbox' = Append(inbox, e)
  BY DEF SessionUpdated, Publish, Events
<1> QED
  BY <1>1, <1>2, <1>3, PublishingStep DEF SessionUpdated, IInv, TypeInv, actorVars

\* The DCV session starts with the file of the command.
LEMMA CommandRunsStep ==
    ASSUME IInv, CommandRuns
    PROVE  IInv'
<1>1. GrantInv'
  BY GrantFrame DEF IInv, CommandRuns, scheduleVars, actorVars, DeletesRows
<1> QED
  BY <1>1, PublishingStep DEF CommandRuns, IInv, TypeInv, actorVars

\* A check ends, and announces the rows it removed.
LEMMA CheckPublishStep ==
    ASSUME IInv, CheckPublish
    PROVE  IInv'
<1>1. check.at = "expire" /\ check.todo = {} /\ check' = Idle /\ check'.at = "idle"
  BY DEF CheckPublish, Idle
<1>2. UNCHANGED <<session, perms, granted, now, worker, removal, excuse>>
  BY DEF CheckPublish, scheduleVars
<1>3. GrantInv'
  BY <1>1, <1>2 DEF IInv, GrantInv, Expected, DeletesRows
<1>4. inbox' = inbox \/ \E e \in Events : inbox' = Append(inbox, e)
  BY DEF CheckPublish, Publish, Events
<1> QED
  BY <1>1, <1>3, <1>4, PublishingStep DEF CheckPublish, IInv, TypeInv

\* What the file says is of its type.
LEMMA ContentTyped ==
    ASSUME perms \in PermRows, profile \in [Profiles -> {"limited", "full", Gone}]
    PROVE  Content \in Files
<1>1. ASSUME NEW g \in Guests, perms[g] # Gone
      PROVE  profile[perms[g].profile] \in {"limited", "full", Gone}
  <2>1. perms[g] \in Rows
    BY <1>1 DEF PermRows
  <2>2. perms[g].profile \in Profiles
    BY <2>1 DEF Rows
  <2> QED
    BY <2>2
<1> QED
  BY <1>1 DEF Content, Files

\* A handler that does not touch the rows returns or raises.
LEMMA HandlingStep ==
    ASSUME IInv, UNCHANGED <<scheduleVars, actorVars, bounds, perms, profile, pending, share, granted>>,
           file' \in Files \cup {Gone}, command' \in Files \cup {Gone},
           excuse \subseteq excuse', excuse' \subseteq Labels, "undeleted" \in excuse' => "undeleted" \in excuse,
           inbox # <<>>, Head(inbox) # "delete", worker.at \in {"idle", "update"}, tries < MaxReceive,
           Handled \/ Raised
    PROVE  IInv'
<1>1. /\ inbox' \in Seq(Events) /\ tries' \in 0..MaxReceive /\ worker' = Idle /\ worker'.at = "idle"
      /\ tries' > 0 => inbox' = inbox
  <2>1. inbox \in Seq(Events) /\ Tail(inbox) \in Seq(Events)
    BY Rest DEF IInv, TypeInv
  <2>2. tries \in 0..MaxReceive /\ tries + 1 \in 0..MaxReceive /\ 0 \in 0..MaxReceive /\ ~(0 > 0)
    BY PermissionParameters DEF IInv, TypeInv
  <2>3. CASE Handled
    BY <2>1, <2>2, <2>3 DEF Handled, HandledBy, Idle
  <2>4. CASE Raised
    BY <2>1, <2>2, <2>4 DEF Raised, Idle
  <2> QED
    BY <2>3, <2>4
<1>2. TypeInv'
  BY <1>1 DEF IInv, TypeInv, scheduleVars, actorVars, bounds
<1>3. QueueInv'
  BY <1>1 DEF IInv, QueueInv
<1>4. SoundInv' /\ WritersInv' /\ AskedInv' /\ ScheduleInv'
  BY <1>1, ScheduleFrame DEF IInv, Deleting, actorVars
<1>5. RowsInv'
  BY <1>1 DEF IInv, RowsInv, Shared, scheduleVars, actorVars
<1>6. GrantInv'
  BY <1>1, GrantFrame DEF IInv, scheduleVars, actorVars, DeletesRows
<1> QED
  BY <1>2, <1>3, <1>4, <1>5, <1>6 DEF IInv

\* The handler that sends the broker a file.
LEMMA EnforceStep ==
    ASSUME IInv, Enforce, UNCHANGED <<scheduleVars, actorVars, bounds>>
    PROVE  IInv'
<1>1. /\ worker = Idle /\ worker.at = "idle" /\ inbox # <<>> /\ Head(inbox) # "delete" /\ tries < MaxReceive
  BY DEF Enforce, Receive, Idle
<1>2. Handled \/ Raised
  BY DEF Enforce
<1>3. file' \in Files \cup {Gone}
  BY ContentTyped DEF Enforce, IInv, TypeInv
<1>4. /\ excuse \subseteq excuse' /\ excuse' \subseteq Labels
      /\ "undeleted" \in excuse' => "undeleted" \in excuse
  BY DEF Enforce, Note, IInv, TypeInv, Labels
<1> QED
  BY <1>1, <1>2, <1>3, <1>4, HandlingStep DEF Enforce, IInv, TypeInv

\* The handler that prepares the command with the file.
LEMMA ResumeCommandStep ==
    ASSUME IInv, ResumeCommand, UNCHANGED <<scheduleVars, actorVars, bounds>>
    PROVE  IInv'
<1>1. /\ worker = Idle /\ worker.at = "idle" /\ inbox # <<>> /\ Head(inbox) # "delete" /\ tries < MaxReceive
  BY DEF ResumeCommand, Receive, Idle
<1>2. Handled \/ Raised
  BY DEF ResumeCommand
<1>3. command' \in Files \cup {Gone}
  BY ContentTyped DEF ResumeCommand, IInv, TypeInv
<1> QED
  BY <1>1, <1>2, <1>3, HandlingStep DEF ResumeCommand, IInv, TypeInv

\* The handler of a new state reads the rows.
LEMMA UpdateReadStep ==
    ASSUME IInv, UpdateRead, UNCHANGED <<scheduleVars, actorVars, bounds>>
    PROVE  IInv'
<1> DEFINE new == [at |-> "update", rows |-> perms, todo |-> Shared]
<1>1. /\ worker = Idle /\ worker.at = "idle" /\ inbox # <<>> /\ Head(inbox) = "update" /\ tries < MaxReceive
      /\ UNCHANGED <<perms, profile, file, command, pending, share, granted, excuse>>
  BY DEF UpdateRead, Receive, Idle
<1>2. CASE Handled
  BY <1>1, <1>2, HandlingStep DEF IInv, TypeInv
<1>3. CASE worker' = new /\ UNCHANGED <<inbox, tries>>
  <2>1. new \in Updating /\ new.at = "update" /\ new.rows = perms
    BY DEF Updating, IInv, TypeInv, Shared
  <2> HIDE DEF new
  <2>2. TypeInv'
    BY <1>1, <1>3, <2>1 DEF IInv, TypeInv, scheduleVars, actorVars, bounds
  <2>3. QueueInv'
    BY <1>1, <1>3, <2>1 DEF IInv, QueueInv
  <2>4. SoundInv' /\ WritersInv' /\ AskedInv' /\ ScheduleInv'
    BY <1>1, <1>3, <2>1, ScheduleFrame DEF IInv, Deleting, actorVars
  <2>5. RowsInv'
    BY <1>1, <1>3, <2>1 DEF IInv, RowsInv, Shared, scheduleVars, actorVars
  <2>6. GrantInv'
    BY <1>1, <1>3, <2>1, GrantFrame DEF IInv, scheduleVars, actorVars, DeletesRows
  <2> QED
    BY <2>2, <2>3, <2>4, <2>5, <2>6 DEF IInv
<1> QED
  BY <1>2, <1>3 DEF UpdateRead

\* The update handler writes a row as it read it.
LEMMA UpdateWriteStep ==
    ASSUME IInv, UpdateWrite, UNCHANGED <<scheduleVars, actorVars, bounds>>
    PROVE  IInv'
<1>1. /\ worker.at = "update" /\ worker \in Updating /\ inbox # <<>> /\ Head(inbox) = "update" /\ tries < MaxReceive
      /\ UNCHANGED <<profile, file, command, pending, share, granted, excuse>>
  BY Forms DEF IInv, UpdateWrite, QueueInv
<1>2. PICK g \in worker.todo :
        /\ perms' = [perms EXCEPT ![g] = worker.rows[g]]
        /\ Handled \/ (worker' = [worker EXCEPT !.todo = @ \ {g}] /\ UNCHANGED <<inbox, tries>>)
  BY DEF UpdateWrite
<1>3. g \in Guests /\ worker.rows \in PermRows
  BY <1>1 DEF Updating
<1>4. perms' \in PermRows /\ ("midair" \notin excuse => perms' = perms)
  BY <1>1, <1>2, <1>3 DEF IInv, TypeInv, PermRows, RowsInv
<1>5. GrantInv'
  <2>1. worker'.at = "idle" \/ worker'.at = "update"
    BY <1>1, <1>2 DEF Handled, HandledBy, Idle, Updating
  <2> QED
    BY <1>1, <1>4, <2>1 DEF IInv, GrantInv, Expected, DeletesRows, scheduleVars, actorVars
<1>6. CASE Handled
  <2>1. /\ inbox' \in Seq(Events) /\ tries' = 0 /\ 0 \in 0..MaxReceive /\ ~(0 > 0)
        /\ worker' = Idle /\ worker'.at = "idle"
    BY <1>1, <1>6, Rest, PermissionParameters DEF IInv, TypeInv, Handled, HandledBy, Idle
  <2>2. TypeInv'
    BY <1>1, <1>4, <2>1 DEF IInv, TypeInv, scheduleVars, actorVars, bounds
  <2>3. QueueInv'
    BY <2>1 DEF QueueInv
  <2>4. SoundInv' /\ WritersInv' /\ AskedInv' /\ ScheduleInv'
    BY <1>1, <2>1, ScheduleFrame DEF IInv, Deleting, actorVars
  <2>5. RowsInv'
    BY <1>1, <1>4, <2>1 DEF IInv, RowsInv, Shared, scheduleVars, actorVars
  <2> QED
    BY <1>5, <2>2, <2>3, <2>4, <2>5 DEF IInv
<1>7. CASE worker' = [worker EXCEPT !.todo = @ \ {g}] /\ UNCHANGED <<inbox, tries>>
  <2>1. worker' \in Updating /\ worker'.at = "update" /\ worker'.rows = worker.rows
    BY <1>1, <1>7 DEF Updating
  <2>2. TypeInv'
    BY <1>1, <1>4, <1>7, <2>1 DEF IInv, TypeInv, scheduleVars, actorVars, bounds
  <2>3. QueueInv'
    BY <1>1, <1>7, <2>1 DEF IInv, QueueInv
  <2>4. SoundInv' /\ WritersInv' /\ AskedInv' /\ ScheduleInv'
    BY <1>1, <1>7, <2>1, ScheduleFrame DEF IInv, Deleting, actorVars
  <2>5. RowsInv'
    BY <1>1, <1>4, <1>7, <2>1 DEF IInv, RowsInv, Shared, scheduleVars, actorVars
  <2> QED
    BY <1>5, <2>2, <2>3, <2>4, <2>5 DEF IInv
<1> QED
  BY <1>2, <1>6, <1>7

\* An event is given up.  One that was to delete the session has failed before,
\* which takes a disturbance.
LEMMA DeadLetterStep ==
    ASSUME IInv, DeadLetter, UNCHANGED <<scheduleVars, actorVars, bounds>>
    PROVE  IInv'
<1>1. /\ worker = Idle /\ worker.at = "idle" /\ tries = MaxReceive /\ tries > 0
      /\ UNCHANGED <<perms, profile, file, command, pending, share, granted>>
  BY PermissionParameters DEF DeadLetter, Idle
<1>2. inbox # <<>> /\ inbox \in Seq(Events) /\ Tail(inbox) \in Seq(Events)
  BY <1>1, Rest DEF IInv, TypeInv, QueueInv
<1>3. /\ inbox' = Tail(inbox) /\ tries' = 0 /\ 0 \in 0..MaxReceive /\ ~(0 > 0)
      /\ worker' = Idle /\ worker'.at = "idle"
  BY PermissionParameters DEF DeadLetter, Handled, HandledBy, Idle
<1>4. /\ excuse \subseteq excuse' /\ excuse' \subseteq Labels
      /\ Head(inbox) = "delete" => "undeleted" \in excuse'
      /\ Head(inbox) # "delete" => excuse' = excuse \cup {"poisoned"}
      /\ excuse' \subseteq excuse \cup {"undeleted", "poisoned"}
  BY DEF DeadLetter, Note, IInv, TypeInv, Labels
<1>5. TypeInv'
  BY <1>1, <1>2, <1>3, <1>4 DEF IInv, TypeInv, scheduleVars, actorVars, bounds
<1>6. QueueInv'
  BY <1>3 DEF QueueInv
<1>7. SoundInv' /\ WritersInv' /\ AskedInv' /\ ScheduleInv'
  BY <1>1, <1>3, <1>4, ScheduleFrame DEF IInv, Deleting, actorVars
<1>8. RowsInv'
  BY <1>1, <1>3, <1>4 DEF IInv, RowsInv, Shared, scheduleVars, actorVars
<1>9. GrantInv'
  BY <1>1, <1>3, <1>4, GrantFrame DEF IInv, scheduleVars, actorVars, DeletesRows
<1> QED
  BY <1>5, <1>6, <1>7, <1>8, <1>9 DEF IInv

\* A row is written or deleted on request.
LEMMA ShareWriteStep ==
    ASSUME IInv, UNCHANGED <<scheduleVars, actorVars, bounds>>,
           ShareWrite(IF check.at = "trigger" THEN now - 1 ELSE now, check.at = "expire" \/ DeletesRows(removal))
    PROVE  IInv'
<1> DEFINE time == IF check.at = "trigger" THEN now - 1 ELSE now
           reading == check.at = "expire" \/ DeletesRows(removal)
<1>1. share.at = "write" /\ share \in Sharing /\ UNCHANGED <<profile, file, command, inbox, tries, worker, pending>>
  BY Forms DEF IInv, ShareWrite
<1>2. now \in Nat /\ (check.at = "trigger" => now > 0)
  BY DEF IInv, TypeInv, GrantInv
<1>3. /\ time \in Nat /\ time <= now /\ (check.at = "trigger" => time = now - 1 /\ time < now)
      /\ check.at # "trigger" => time = now
  BY <1>2
<1> HIDE DEF time
<1>4. PICK g \in share.todo, row \in Rows \cup {Gone} :
        /\ perms' = [perms EXCEPT ![g] = row]
        /\ granted' = [granted EXCEPT ![g] = [row |-> row, at |-> time]]
        /\ share' = Idle \/ \E at \in {"write", "publish"} : share' = [share EXCEPT !.todo = @ \ {g}, !.at = at]
        /\ excuse' \subseteq excuse \cup {"midair", "unannounced"} /\ excuse \cup Midair(reading) \subseteq excuse'
  <2> DEFINE puts == {h \in share.todo : share.request[h] # Gone}
  <2>1. PICK g \in (IF puts = {} THEN share.todo ELSE puts) :
          LET row == IF g \in puts THEN share.request[g] ELSE Gone
              missing == g \notin puts /\ perms[g] = Gone
              begun == \E h \in Guests : share.request[h] # Keep /\ h \notin share.todo
          IN  /\ perms' = [perms EXCEPT ![g] = row]
              /\ granted' = [granted EXCEPT ![g] = [row |-> row, at |-> time]]
              /\ share' = IF missing THEN Idle
                          ELSE [share EXCEPT !.todo = @ \ {g},
                                             !.at = IF share.todo = {g} THEN "publish" ELSE @]
              /\ Note(Midair(reading) \cup (IF missing /\ begun THEN {"unannounced"} ELSE {}))
    BY DEF ShareWrite, time
  <2> DEFINE row == IF g \in puts THEN share.request[g] ELSE Gone
  <2>2. g \in share.todo
    BY <2>1
  <2>3. row \in Rows \cup {Gone}
    <3>1. share.request \in [Guests -> Rows \cup {Gone, Keep}] /\ g \in Guests
      BY <1>1, <2>2, PermissionParameters DEF Sharing
    <3>2. share.request[g] # Keep
      BY <1>1, <2>2 DEF Sharing
    <3> QED
      BY <3>1, <3>2
  <2>4. share' = Idle \/ \E at \in {"write", "publish"} : share' = [share EXCEPT !.todo = @ \ {g}, !.at = at]
    BY <1>1, <2>1
  <2>5. /\ excuse' \subseteq excuse \cup {"midair", "unannounced"} /\ excuse \cup Midair(reading) \subseteq excuse'
    BY <2>1 DEF Note, Midair
  <2> QED
    BY <2>1, <2>2, <2>3, <2>4, <2>5
<1>5. g \in Guests /\ share' \in {Idle} \cup Sharing
  BY <1>1, <1>4 DEF Sharing
<1>6. /\ perms' \in PermRows /\ granted' \in [Guests -> [row : Rows \cup {Gone}, at : Nat]]
      /\ perms'[g] = row /\ granted'[g].row = row /\ granted'[g].at = time
      /\ \A h \in Guests : h # g => perms'[h] = perms[h] /\ granted'[h] = granted[h]
  BY <1>3, <1>4, <1>5 DEF IInv, TypeInv, PermRows
<1>7. /\ excuse \subseteq excuse' /\ excuse' \subseteq Labels
      /\ "undeleted" \in excuse' => "undeleted" \in excuse
      /\ "midair" \notin excuse' => /\ check.at # "expire" /\ ~DeletesRows(removal) /\ worker.at # "update"
                                    /\ ~DeletesRows(worker) /\ session # Gone
  BY <1>4 DEF Midair, IInv, TypeInv, Labels
<1>8. TypeInv'
  BY <1>1, <1>5, <1>6, <1>7 DEF IInv, TypeInv, scheduleVars, actorVars, bounds
<1>9. QueueInv'
  BY <1>1 DEF IInv, QueueInv
<1>10. SoundInv' /\ WritersInv' /\ AskedInv' /\ ScheduleInv'
  BY <1>1, <1>7, ScheduleFrame DEF IInv, actorVars
<1>11. RowsInv'
  BY <1>1, <1>7 DEF IInv, RowsInv, DeletesRows, scheduleVars, actorVars
<1>12. GrantInv'
  <2> SUFFICES ASSUME NEW h \in Guests
               PROVE  /\ granted'[h].at <= now
                      /\ session # Gone /\ excuse' \cap {"midair", "overlap", "crashed", "undeleted"} = {} =>
                          /\ check.at = "idle" => perms'[h] = Expected(h, now)'
                          /\ check.at # "idle" => granted'[h].at < now
                          /\ check.at = "trigger" => perms'[h] \in {Expected(h, now - 1)', Expected(h, now)'}
    BY <1>1, <1>7 DEF IInv, GrantInv, scheduleVars, actorVars
  <2>1. CASE h = g
    <3>1. check.at \in {"idle", "trigger", "expire"}
      BY Forms DEF IInv
    <3>2. check.at = "idle" => ~(granted'[g].at < now)
      BY <1>2, <1>3, <1>6
    <3>3. check.at = "trigger" => ~(granted'[g].at < now - 1)
      BY <1>2, <1>3, <1>6
    <3> QED
      BY <1>2, <1>3, <1>6, <1>7, <2>1, <3>1, <3>2, <3>3 DEF Expected, actorVars
  <2>2. CASE h # g
    BY <1>1, <1>6, <1>7, <2>2 DEF IInv, GrantInv, Expected, actorVars
  <2> QED
    BY <2>1, <2>2
<1> QED
  BY <1>8, <1>9, <1>10, <1>11, <1>12 DEF IInv

-----------------------------------------------------------------------------
(* Every action preserves the invariant: the check of the schedules *)

\* A step of the check leaves the rest alone, but for rows that have expired.
LEMMA CheckFrame ==
    ASSUME IInv, UNCHANGED <<scheduleVars, change, removal, inbox, tries, worker, bounds, profile, file, command,
                             pending, share, granted>>,
           check' \in {Idle} \cup Triggering \cup Expiring, now' \in 0..Len(Times), perms' \in PermRows,
           excuse \subseteq excuse', excuse' \subseteq Labels, "undeleted" \in excuse' => "undeleted" \in excuse,
           "midair" \notin excuse' =>
               UNCHANGED perms \/ (worker.at # "update" /\ ~DeletesRows(worker) /\ ~DeletesRows(removal) /\ session # Gone),
           GrantInv'
    PROVE  IInv'
<1>1. TypeInv'
  BY DEF IInv, TypeInv, scheduleVars, bounds
<1>2. QueueInv'
  BY DEF IInv, QueueInv
<1>3. SoundInv' /\ WritersInv' /\ AskedInv' /\ ScheduleInv'
  BY ScheduleFrame DEF IInv
<1>4. RowsInv'
  BY DEF IInv, RowsInv, Shared, DeletesRows, scheduleVars
<1> QED
  BY <1>1, <1>2, <1>3, <1>4 DEF IInv

\* The times of the checks are in order.
LEMMA TimesInOrder ==
    /\ Len(Times) \in Nat
    /\ \A i \in 1..Len(Times) : Times[i] \in Nat
    /\ \A i, j \in 1..Len(Times) : i <= j => Times[i] <= Times[j]
<1>1. Len(Times) \in Nat
  BY SettingsParameters, LenProperties
<1>2. \A i \in 1..Len(Times) : Times[i] \in Nat
  <2> DEFINE day == 0..1439
  <2>1. Times \in Seq(day) /\ \A m \in day : m \in Nat
    BY SettingsParameters
  <2> HIDE DEF day
  <2>2. \A i \in 1..Len(Times) : Times[i] \in day
    BY <2>1, ElementOfSeq
  <2> QED
    BY <2>1, <2>2
<1>3. \A i, j \in 1..Len(Times) : i <= j => Times[i] <= Times[j]
  BY SettingsParameters
<1> QED
  BY <1>1, <1>2, <1>3

\* The next check begins.
LEMMA TickStep ==
    ASSUME IInv, Tick
    PROVE  IInv'
<1> DEFINE n == now + 1
           new == [at |-> "trigger", time |-> Times[n]]
<1>1. /\ check = Idle /\ now' = n /\ check' = new /\ excuse' = excuse /\ perms' = perms
      /\ UNCHANGED <<scheduleVars, permissionVars, change, removal, bounds>> /\ now < Len(Times)
  BY DEF Tick, permissionVars
<1>2. /\ now \in Nat /\ n \in 1..Len(Times) /\ n \in 0..Len(Times) /\ n > 0 /\ n - 1 = now /\ now < n
      /\ \A k \in Nat : k <= now => k <= n /\ k < n
  BY <1>1, SettingsParameters, LenProperties DEF IInv, TypeInv
<1>3. Times[n] \in Nat
  BY <1>2, TimesInOrder
<1> HIDE DEF n
<1>4. new \in Triggering /\ new.at = "trigger" /\ new.time = Times[n]
  BY <1>3 DEF Triggering
<1> HIDE DEF new
<1>5. \A g \in Guests : granted[g].at \in Nat /\ granted[g].at <= now
  BY DEF IInv, TypeInv, GrantInv
<1>6. check.at = "idle"
  BY <1>1 DEF Idle
<1>7. GrantInv'
  <2>1. \A g \in Guests : granted'[g] = granted[g] /\ Expected(g, now)' = Expected(g, n)
    BY <1>1 DEF permissionVars, Expected
  <2>2. \A g \in Guests : Expected(g, now - 1)' = Expected(g, now)
    BY <1>1, <1>2 DEF permissionVars, Expected
  <2>3. UNCHANGED <<session, worker, removal, granted>>
    BY <1>1 DEF scheduleVars, permissionVars
  <2> QED
    BY <1>1, <1>2, <1>4, <1>5, <1>6, <2>1, <2>2, <2>3 DEF IInv, GrantInv, DeletesRows
<1> QED
  BY <1>1, <1>2, <1>4, <1>7, CheckFrame DEF permissionVars, IInv, TypeInv

\* A check decides by the schedules, and finds the rows that have expired.
LEMMA CheckTriggerStep ==
    ASSUME IInv, CheckTrigger
    PROVE  IInv'
<1> DEFINE due == {g \in Shared : check.time >= perms[g].expiry}
           new == [at |-> "expire", time |-> check.time, fired |-> Triggered(check.time), hit |-> FALSE, todo |-> due]
<1>1. /\ check.at = "trigger" /\ check' = new /\ excuse' = excuse /\ perms' = perms
      /\ UNCHANGED <<scheduleVars, permissionVars, change, removal, now, bounds>>
  BY DEF CheckTrigger, permissionVars
<1>2. check \in Triggering /\ check.time \in Nat /\ now \in 0..Len(Times) /\ now \in Nat /\ now > 0 /\ check.time = Times[now]
  <2>1. check \in Triggering
    BY <1>1, Forms DEF IInv
  <2> QED
    BY <1>1, <2>1, SettingsParameters, LenProperties DEF IInv, GrantInv, TypeInv, Triggering
<1>3. Triggered(check.time) \in SUBSET {"stop", "resume"}
  BY DEF Triggered, Trigger
<1>4. due \in SUBSET Guests
  BY DEF Shared
<1>5. new \in Expiring /\ new.at = "expire" /\ new.todo = due /\ new.time = check.time
  BY <1>2, <1>3, <1>4 DEF Expiring
<1>6. \A g \in Guests : g \in due <=> perms[g] # Gone /\ perms[g].expiry <= check.time
  <2>1. \A g \in Guests : perms[g] # Gone => perms[g].expiry \in Nat
    BY DEF IInv, TypeInv, PermRows, Rows
  <2> QED
    BY <1>2, <2>1 DEF Shared
<1> HIDE DEF new, due
<1>7. \A g \in Guests : granted[g].row # Gone => granted[g].row.expiry \in Nat
  BY DEF IInv, TypeInv, Rows
<1>8. ASSUME NEW g \in Guests, granted[g].at < now, perms[g] \in {Expected(g, now - 1), Expected(g, now)}
      PROVE  /\ g \in due => /\ perms[g] = granted[g].row /\ perms[g] # Gone /\ perms[g] = Expected(g, now - 1)
                             /\ perms[g].expiry <= check.time
             /\ g \notin due => perms[g] = Expected(g, now)
  <2>1. ASSUME granted[g].row # Gone, granted[g].at < now - 1, granted[g].row.expiry <= Times[now - 1]
        PROVE  granted[g].row.expiry <= Times[now]
    <3>1. granted[g].at \in Nat
      BY DEF IInv, TypeInv
    <3>2. now - 1 \in 1..Len(Times) /\ now \in 1..Len(Times) /\ now - 1 <= now
      BY <1>2, <2>1, <3>1, SettingsParameters, LenProperties
    <3>3. Times[now - 1] <= Times[now] /\ Times[now - 1] \in Nat /\ Times[now] \in Nat
      BY <3>2, TimesInOrder
    <3> QED
      BY <1>7, <2>1, <3>3
  <2> QED
    BY <1>2, <1>6, <1>7, <1>8, <2>1 DEF Expected
<1>9. GrantInv'
  <2>1. /\ UNCHANGED <<session, worker, removal, granted>>
        /\ \A g \in Guests : Expected(g, now)' = Expected(g, now) /\ Expected(g, now - 1)' = Expected(g, now - 1)
    BY <1>1 DEF scheduleVars, permissionVars, Expected
  <2> QED
    BY <1>1, <1>2, <1>5, <1>8, <2>1 DEF IInv, GrantInv, DeletesRows
<1> QED
  BY <1>1, <1>5, <1>9, CheckFrame DEF permissionVars, IInv, TypeInv

\* A row that has expired is removed.  If it is gone already the check raises,
\* and is repeated.
LEMMA CheckExpireStep ==
    ASSUME IInv, CheckExpire
    PROVE  IInv'
<1>1. /\ check.at = "expire" /\ check \in Expiring
      /\ UNCHANGED <<scheduleVars, profile, file, command, inbox, tries, worker, pending, share, granted,
                     change, removal, now, bounds>>
  BY Forms DEF IInv, CheckExpire
<1>2. PICK g \in check.todo :
        /\ perms' = [perms EXCEPT ![g] = Gone]
        /\ check' = IF perms[g] = Gone THEN Again ELSE [check EXCEPT !.todo = @ \ {g}, !.hit = TRUE]
        /\ Note(Midair(DeletesRows(removal))
                \cup (IF perms[g] = Gone /\ check.hit THEN {"unannounced"} ELSE {}))
  BY DEF CheckExpire
<1>3. g \in Guests /\ check.time \in Nat /\ check.todo \in SUBSET Guests
  BY <1>1, <1>2 DEF Expiring
<1>4. /\ perms' \in PermRows /\ perms'[g] = Gone
      /\ \A h \in Guests : h # g => perms'[h] = perms[h]
  BY <1>2, <1>3 DEF IInv, TypeInv, PermRows
<1>5. /\ excuse \subseteq excuse' /\ excuse' \subseteq Labels
      /\ "undeleted" \in excuse' => "undeleted" \in excuse
      /\ "midair" \notin excuse' => /\ ~DeletesRows(removal) /\ worker.at # "update"
                                    /\ ~DeletesRows(worker) /\ session # Gone
  BY <1>2 DEF Note, Midair, IInv, TypeInv, Labels
<1>6. /\ perms[g] = Gone => check' \in Triggering
      /\ perms[g] # Gone => /\ check' \in Expiring /\ check'.at = "expire" /\ check'.todo = check.todo \ {g}
                            /\ check'.time = check.time
  <2>1. perms[g] = Gone => check' \in Triggering
    BY <1>2, <1>3 DEF Again, Triggering
  <2>2. perms[g] # Gone => /\ check' \in Expiring /\ check'.at = "expire" /\ check'.todo = check.todo \ {g}
                           /\ check'.time = check.time
    BY <1>1, <1>2 DEF Expiring
  <2> QED
    BY <2>1, <2>2
<1>7. GrantInv'
  <2>1. /\ UNCHANGED <<session, worker, removal, granted, now>>
        /\ \A h \in Guests : Expected(h, now)' = Expected(h, now) /\ Expected(h, now - 1)' = Expected(h, now - 1)
    BY <1>1 DEF scheduleVars, Expected
  <2>2. /\ now > 0 /\ check.time = Times[now] /\ \A h \in Guests : granted[h].at <= now
    BY <1>1 DEF IInv, GrantInv
  <2>3. check'.time = check.time
    BY <1>2, <1>6 DEF Again
  <2>4. ASSUME excuse' \cap {"midair", "overlap", "crashed", "undeleted"} = {}
        PROVE  /\ perms[g] # Gone
               /\ \A h \in Guests :
                    /\ granted[h].at < now
                    /\ h \in check.todo => /\ perms[h] = granted[h].row /\ perms[h] # Gone
                                           /\ perms[h] = Expected(h, now - 1) /\ perms[h].expiry <= check.time
                    /\ h \notin check.todo => perms[h] = Expected(h, now)
    BY <1>1, <1>2, <1>3, <1>5, <2>4 DEF IInv, GrantInv
  <2>5. ASSUME excuse' \cap {"midair", "overlap", "crashed", "undeleted"} = {}
        PROVE  Expected(g, now) = Gone
    BY <1>2, <1>3, <2>2, <2>4, <2>5 DEF Expected
  <2>6. ASSUME excuse' \cap {"midair", "overlap", "crashed", "undeleted"} = {}, NEW h \in Guests
        PROVE  /\ granted'[h].at < now /\ check'.at = "expire"
               /\ h \in check'.todo => /\ perms'[h] = granted'[h].row /\ perms'[h] # Gone
                                       /\ perms'[h] = Expected(h, now - 1)' /\ perms'[h].expiry <= check'.time
               /\ h \notin check'.todo => perms'[h] = Expected(h, now)'
    BY <1>4, <1>6, <2>1, <2>3, <2>4, <2>5, <2>6
  <2> QED
    BY <2>1, <2>2, <2>3, <2>6 DEF GrantInv
<1> QED
  BY <1>1, <1>4, <1>5, <1>6, <1>7, CheckFrame DEF IInv, TypeInv

-----------------------------------------------------------------------------
(* Every action preserves the invariant: the row of the session *)

\* Nobody else works on the row, or the overlap is noted.
LEMMA OverlapNoted ==
    ASSUME TypeInv
    PROVE  /\ Overlap \subseteq {"overlap"}
           /\ Overlap = {} => /\ edit.at = "idle" /\ change.at = "idle"
                              /\ ~Deleting(worker) /\ ~Deleting(removal)
  BY Forms DEF Overlap

\* A schedule of a row, and what an edit makes of it.
LEMMA WishFacts ==
    ASSUME NEW w \in Wishes, NEW n \in Nat
    PROVE  /\ w.type \in ScheduleTypes /\ w.start \in 0..1439 /\ w.stop \in 0..1439
           /\ Named(n, w) \in Schedules /\ Named(n, w).id = n /\ Named(n, w).type = w.type
           /\ Empty \in Schedules /\ Empty.id = 0 /\ Empty.type = "NO_SCHEDULE"
           /\ w.type = "NO_SCHEDULE" => w = NoSchedule
<1>1. w \in [type : ScheduleTypes, start : 0..1439, stop : 0..1439]
  BY ScheduleParameters
<1>2. w.type \in ScheduleTypes /\ w.start \in 0..1439 /\ w.stop \in 0..1439
  BY <1>1
<1>3. Named(n, w) \in Schedules /\ Named(n, w).id = n /\ Named(n, w).type = w.type
  BY <1>2 DEF Named, Schedules
<1>4. Empty \in Schedules /\ Empty.id = 0 /\ Empty.type = "NO_SCHEDULE"
  BY DEF Empty, Named, NoSchedule, Schedules, ScheduleTypes
<1>5. w.type = "NO_SCHEDULE" => w = NoSchedule
  <2>1. NoSchedule.type = "NO_SCHEDULE"
    BY DEF NoSchedule
  <2> QED
    BY <2>1, ScheduleParameters
<1> QED
  BY <1>2, <1>3, <1>4, <1>5

\* A sound schedule has an entry of its own, or is none.
LEMMA SoundFacts ==
    ASSUME NEW s \in Schedules, NEW n \in Nat, Sound(s, n)
    PROVE  /\ HasNoEntry(s) <=> s = Empty
           /\ s # Empty => s.id > 0
           /\ Sound(s, n + 1)
<1>1. Empty.id = 0 /\ Empty.type = "NO_SCHEDULE"
  BY DEF Empty, Named, NoSchedule
<1> QED
  BY <1>1 DEF Sound, HasNoEntry, Schedules

\* The schedule of a row, and the row with another schedule or state.
LEMMA RowForm ==
    ASSUME NEW r \in SessionRows
    PROVE  /\ r.sched \in Schedules
           /\ \A s \in Schedules : LET q == [r EXCEPT !.sched = s]
                                  IN  q \in SessionRows /\ q.sched = s /\ q.state = r.state
           /\ \A to \in {"READY", "STOPPED", "RESUMING", "DELETING"} :
                LET q == [r EXCEPT !.state = to]
                IN  q \in SessionRows /\ q.sched = r.sched /\ q.state = to
<1>0. SessionRows = [state : {"READY", "STOPPED", "RESUMING", "DELETING"}, sched : Schedules]
  BY DEF SessionRows, Schedules
<1>1. r.sched \in Schedules
  BY <1>0
<1>2. \A s \in Schedules : /\ [r EXCEPT !.sched = s] \in SessionRows
                           /\ [r EXCEPT !.sched = s].sched = s
                           /\ [r EXCEPT !.sched = s].state = r.state
  BY <1>0
<1>3. \A to \in {"READY", "STOPPED", "RESUMING", "DELETING"} :
        /\ [r EXCEPT !.state = to] \in SessionRows
        /\ [r EXCEPT !.state = to].sched = r.sched
        /\ [r EXCEPT !.state = to].state = to
  BY <1>0
<1> QED
  BY <1>1, <1>2, <1>3

\* An edit reads the row.
LEMMA EditStep ==
    ASSUME IInv, NEW w \in Wishes, Edit(w)
    PROVE  IInv'
<1> DEFINE s == session.sched
           to == IF IsSameSchedule(w, s) THEN "save"
                 ELSE IF HasNoEntry(s) THEN AfterRemoval(w, s) ELSE "remove"
           kept == WithoutEntry(w, s)
           row == [session EXCEPT !.sched = kept]
           new == [at |-> to, row |-> row, old |-> s, wish |-> w]
<1>1. /\ edit = Idle /\ session # Gone /\ edit' = new /\ events < MaxEvents /\ events' = events + 1
      /\ UNCHANGED <<session, schedules, ids, asked, permissionVars, actorVars, faults>>
      /\ Note(Overlap \cup (IF w.type = "CUSTOM_SCHEDULE" /\ s.type = "CUSTOM_SCHEDULE"
                            THEN {"custom"} ELSE {}))
  BY DEF Edit, EditBegin, Event
<1>2. /\ excuse \subseteq excuse' /\ excuse' \subseteq Labels /\ excuse' \subseteq excuse \cup {"overlap", "custom"}
      /\ "custom" \notin excuse' => ~(w.type = "CUSTOM_SCHEDULE" /\ s.type = "CUSTOM_SCHEDULE")
      /\ "overlap" \notin excuse' => change.at = "idle" /\ ~Deleting(worker) /\ ~Deleting(removal)
  <2>1. TypeInv /\ excuse \subseteq Labels
    BY DEF IInv, TypeInv
  <2>2. /\ Overlap \subseteq {"overlap"}
        /\ Overlap = {} => change.at = "idle" /\ ~Deleting(worker) /\ ~Deleting(removal)
    BY <2>1, OverlapNoted
  <2>3. excuse' = excuse \cup Overlap \cup (IF w.type = "CUSTOM_SCHEDULE" /\ s.type = "CUSTOM_SCHEDULE"
                                          THEN {"custom"} ELSE {})
    BY <1>1 DEF Note
  <2> HIDE DEF s
  <2>4. excuse \subseteq excuse' /\ excuse' \subseteq excuse \cup {"overlap", "custom"}
    BY <2>2, <2>3
  <2>5. excuse' \subseteq Labels
    BY <2>1, <2>4 DEF Labels
  <2>6. "custom" \notin excuse' => ~(w.type = "CUSTOM_SCHEDULE" /\ s.type = "CUSTOM_SCHEDULE")
    BY <2>3
  <2>7. "overlap" \notin excuse' => Overlap = {}
    BY <2>2, <2>3
  <2> QED
    BY <2>2, <2>4, <2>5, <2>6, <2>7 DEF s
<1>3. session \in SessionRows /\ s \in Schedules /\ ids \in Nat /\ Sound(s, ids)
  <2>1. session \in SessionRows /\ ids \in Nat /\ Sound(s, ids)
    BY <1>1 DEF IInv, TypeInv, SoundInv
  <2> QED
    BY <2>1, RowForm
<1>4. /\ Empty \in Schedules /\ Sound(Empty, ids) /\ (HasNoEntry(s) <=> s = Empty)
      /\ w.type = "NO_SCHEDULE" => w = NoSchedule
  BY <1>3, WishFacts, SoundFacts DEF Sound
<1>5. /\ kept \in Schedules /\ Sound(kept, ids)
      /\ IsSameSchedule(w, s) => kept = s
      /\ ~IsSameSchedule(w, s) => kept = Empty
  BY <1>3, <1>4 DEF WithoutEntry
<1>6. /\ to \in {"remove", "create", "save"}
      /\ to = "remove" => ~IsSameSchedule(w, s) /\ s # Empty
      /\ to = "create" => CreatesEntry(w, s) /\ s = Empty
      /\ to = "save" => IsSameSchedule(w, s) \/ (s = Empty /\ ~CreatesEntry(w, s))
  BY <1>4 DEF AfterRemoval, CreatesEntry
<1> HIDE DEF s, kept, to
<1>7. row \in SessionRows /\ row.sched = kept /\ row.state = session.state
  BY <1>3, <1>5, RowForm
<1> HIDE DEF row
<1>8. new \in Editing /\ new.at = to /\ new.row = row /\ new.old = s /\ new.wish = w
  BY <1>3, <1>6, <1>7 DEF Editing
<1> HIDE DEF new
<1>9. TypeInv'
  <2>1. events' \in 0..MaxEvents
    BY <1>1, SettingsParameters DEF IInv, TypeInv
  <2> QED
    BY <1>1, <1>2, <1>8, <2>1 DEF IInv, TypeInv, permissionVars, actorVars
<1>10. SoundInv'
  BY <1>1, <1>3, <1>5, <1>6, <1>7, <1>8 DEF IInv, SoundInv, permissionVars, actorVars, CreatesEntry
<1>11. QueueInv'
  BY <1>1 DEF IInv, QueueInv, permissionVars
<1>12. WritersInv'
  BY <1>1, <1>2, <1>7, <1>8 DEF IInv, WritersInv, Deleting, permissionVars, actorVars, s
<1>13. AskedInv'
  <2> SUFFICES ASSUME excuse' \cap {"overlap", "custom"} = {}
               PROVE  /\ s = Named(s.id, asked)
                      /\ to = "save" => kept = Named(kept.id, w)
                      /\ to = "remove" /\ ~CreatesEntry(w, s) => w = NoSchedule
    BY <1>1, <1>7, <1>8 DEF AskedInv, s
  <2>1. s = Named(s.id, asked) /\ s.type = asked.type /\ asked \in Wishes
    <3>1. s = Named(s.id, asked) /\ asked \in Wishes
      BY <1>1, <1>2 DEF IInv, AskedInv, TypeInv, s
    <3>2. s.id \in Nat
      BY <1>3 DEF Schedules
    <3> QED
      BY <3>1, <3>2, WishFacts
  <2>2. IsSameSchedule(w, s) => w = asked
    BY <2>1, ScheduleParameters DEF IsSameSchedule
  <2>3. Empty = Named(Empty.id, NoSchedule)
    BY DEF Empty, Named
  <2>4. ~IsSameSchedule(w, s) /\ ~CreatesEntry(w, s) => w = NoSchedule
    BY <1>2, <1>4 DEF IsSameSchedule, CreatesEntry
  <2> QED
    BY <1>5, <1>6, <2>1, <2>2, <2>3, <2>4
<1>14. ScheduleInv'
  <2>1. Broken => Broken'
    BY <1>1, <1>2 DEF Broken, permissionVars
  <2>2. excuse \cap {"overlap", "crashed", "undeleted"} = {} /\ edit.at = "idle" /\ ~Deleting(worker) /\ ~Deleting(removal)
        => Only(s) \/ Broken
    BY <1>1 DEF IInv, ScheduleInv, s
  <2> QED
    BY <1>1, <1>2, <1>5, <1>6, <1>7, <1>8, <2>1, <2>2 DEF ScheduleInv, Only, Deleting, Broken, s, Idle, permissionVars, actorVars
<1>15. RowsInv'
  BY <1>1, <1>2 DEF IInv, RowsInv, Shared, permissionVars, actorVars
<1>16. GrantInv'
  BY <1>1, <1>2, GrantFrame DEF IInv, permissionVars, actorVars, DeletesRows
<1> QED
  BY <1>9, <1>10, <1>11, <1>12, <1>13, <1>14, <1>15, <1>16 DEF IInv

\* A step of an edit that has begun changes the schedules, and nothing that
\* permissions depend on.
LEMMA EditFrame ==
    ASSUME IInv, UNCHANGED <<permissionVars, actorVars, bounds, excuse>>,
           session' = session \/ session' # Gone, session = Gone => session' = Gone \/ "overlap" \in excuse
    PROVE  QueueInv' /\ RowsInv' /\ GrantInv'
<1>1. QueueInv'
  BY DEF IInv, QueueInv, permissionVars
<1>2. RowsInv'
  BY DEF IInv, RowsInv, Shared, permissionVars, actorVars
<1>3. GrantInv'
  BY GrantFrame DEF IInv, permissionVars, actorVars, DeletesRows
<1> QED
  BY <1>1, <1>2, <1>3

\* The old schedule is removed, or is not there and the edit fails.
LEMMA EditRemoveStep ==
    ASSUME IInv, EditRemove, UNCHANGED <<permissionVars, actorVars, bounds>>
    PROVE  IInv'
<1> DEFINE to == AfterRemoval(edit.wish, edit.old)
<1>1. /\ edit.at = "remove" /\ edit \in Editing /\ schedules' = schedules \ Entry(edit.old)
      /\ edit' = IF Entry(edit.old) = {} THEN Idle ELSE [edit EXCEPT !.at = to]
      /\ UNCHANGED <<session, ids, asked, excuse>>
  BY Forms DEF IInv, EditRemove
<1>2. /\ to \in {"create", "save"}
      /\ to = "create" <=> CreatesEntry(edit.wish, edit.old)
  BY DEF AfterRemoval
<1> HIDE DEF to
<1>3. CASE Entry(edit.old) = {}
  <2>1. edit' = Idle /\ edit'.at = "idle" /\ schedules' = schedules
    BY <1>1, <1>3 DEF Idle
  <2>2. TypeInv'
    BY <1>1, <2>1 DEF IInv, TypeInv, permissionVars, actorVars, bounds
  <2>3. SoundInv'
    BY <1>1, <2>1 DEF IInv, SoundInv, permissionVars, actorVars
  <2>4. WritersInv'
    BY <1>1, <2>1 DEF IInv, WritersInv, Deleting, permissionVars, actorVars
  <2>5. AskedInv'
    BY <1>1, <2>1 DEF IInv, AskedInv
  <2>6. ScheduleInv'
    <3>1. Broken' <=> Broken
      BY <1>1, <2>1 DEF Broken, permissionVars
    <3> QED
      BY <1>1, <2>1, <3>1 DEF IInv, ScheduleInv, WritersInv, Only, Deleting, permissionVars, actorVars
  <2>7. QueueInv' /\ RowsInv' /\ GrantInv'
    BY <1>1, EditFrame
  <2> QED
    BY <2>2, <2>3, <2>4, <2>5, <2>6, <2>7 DEF IInv
<1>4. CASE Entry(edit.old) # {}
  <2>1. /\ edit' \in Editing /\ edit'.at = to /\ edit'.row = edit.row /\ edit'.old = edit.old
        /\ edit'.wish = edit.wish
    BY <1>1, <1>2, <1>4 DEF Editing
  <2>2. TypeInv'
    BY <1>1, <2>1 DEF IInv, TypeInv, permissionVars, actorVars, bounds
  <2>3. SoundInv'
    BY <1>1, <1>2, <2>1 DEF IInv, SoundInv, permissionVars, actorVars, CreatesEntry
  <2>4. WritersInv'
    BY <1>1, <2>1 DEF IInv, WritersInv, Deleting, permissionVars, actorVars
  <2>5. AskedInv'
    <3>1. edit.row.sched = Empty /\ Empty = Named(Empty.id, NoSchedule)
      BY <1>1 DEF IInv, SoundInv, Empty, Named
    <3> QED
      BY <1>1, <1>2, <2>1, <3>1 DEF IInv, AskedInv
  <2>6. ScheduleInv'
    <3> SUFFICES ASSUME excuse \cap {"overlap", "crashed", "undeleted"} = {}
                 PROVE  /\ ~Deleting(worker) /\ ~Deleting(removal) /\ session # Gone
                        /\ schedules' = {} /\ edit.row.sched = Empty
      BY <1>1, <1>2, <2>1 DEF ScheduleInv, Only, Deleting, permissionVars, actorVars
    <3>1. edit.row.sched = Empty /\ (Only(edit.old) \/ Broken)
      BY <1>1 DEF IInv, ScheduleInv, SoundInv
    <3>2. ~Deleting(worker) /\ ~Deleting(removal) /\ session # Gone
      BY <1>1 DEF IInv, WritersInv
    <3>3. Only(edit.old)
      BY <1>4, <3>1 DEF Broken, Entry
    <3> QED
      BY <1>1, <3>1, <3>2, <3>3 DEF Only, Entry
  <2>7. QueueInv' /\ RowsInv' /\ GrantInv'
    BY <1>1, EditFrame
  <2> QED
    BY <2>2, <2>3, <2>4, <2>5, <2>6, <2>7 DEF IInv
<1> QED
  BY <1>3, <1>4

\* A schedule is created under a new id.
LEMMA EditCreateStep ==
    ASSUME IInv, EditCreate, UNCHANGED <<permissionVars, actorVars, bounds>>
    PROVE  IInv'
<1> DEFINE n == ids + 1
           s == Named(n, edit.wish)
           row == [edit.row EXCEPT !.sched = s]
<1>1. /\ edit.at = "create" /\ edit \in Editing /\ ids' = n /\ schedules' = schedules \cup {s}
      /\ UNCHANGED <<session, asked, excuse>>
  BY Forms DEF IInv, EditCreate
<1>2. ids \in Nat /\ n \in Nat /\ n \in 1..n /\ n > 0 /\ \A k \in 1..ids : k \in 1..n
  BY DEF IInv, TypeInv
<1>3. edit.wish \in Wishes /\ edit.wish.type # "NO_SCHEDULE"
  BY <1>1 DEF Editing, IInv, SoundInv
<1>4. s \in Schedules /\ s.id = n /\ s.type = edit.wish.type /\ s # Empty /\ Sound(s, n) /\ s = Named(s.id, edit.wish)
  <2>1. s \in Schedules /\ s.id = n /\ s.type = edit.wish.type
    BY <1>2, <1>3, WishFacts
  <2>2. Empty.type = "NO_SCHEDULE"
    BY DEF Empty, Named, NoSchedule
  <2>3. s = Named(s.id, edit.wish)
    BY <2>1
  <2> HIDE DEF s, n
  <2>4. s # Empty
    BY <1>3, <2>1, <2>2
  <2> QED
    BY <1>2, <1>3, <2>1, <2>3, <2>4 DEF Sound
<1>5. \A q : Sound(q, ids) => Sound(q, n)
  <2> HIDE DEF n
  <2>1. ASSUME NEW q, Sound(q, ids)
        PROVE  Sound(q, n)
    <3>1. q.id \in 1..ids => q.id \in 1..n
      BY <1>2
    <3> QED
      BY <2>1, <3>1 DEF Sound
  <2> QED
    BY <2>1
<1>6. edit' = [edit EXCEPT !.at = "save", !.row = row]
  BY <1>1 DEF EditCreate, Editing
<1> HIDE DEF n, s
<1>7. row \in SessionRows /\ row.sched = s /\ row.state = edit.row.state
  <2>1. edit.row \in SessionRows
    BY <1>1 DEF Editing
  <2> QED
    BY <1>4, <2>1, RowForm
<1> HIDE DEF row
<1>8. /\ edit' \in Editing /\ edit'.at = "save" /\ edit'.row = row /\ edit'.old = edit.old
      /\ edit'.wish = edit.wish
  BY <1>1, <1>6, <1>7 DEF Editing
<1>9. TypeInv'
  BY <1>1, <1>2, <1>4, <1>8 DEF IInv, TypeInv, permissionVars, actorVars, bounds
<1>10. SoundInv'
  BY <1>1, <1>2, <1>3, <1>4, <1>5, <1>7, <1>8 DEF IInv, SoundInv, permissionVars, actorVars
<1>11. WritersInv'
  BY <1>1, <1>7, <1>8 DEF IInv, WritersInv, Deleting, permissionVars, actorVars
<1>12. AskedInv'
  BY <1>1, <1>4, <1>7, <1>8 DEF IInv, AskedInv
<1>13. ScheduleInv'
  BY <1>1, <1>4, <1>7, <1>8 DEF IInv, ScheduleInv, WritersInv, Only, Deleting, permissionVars, actorVars
<1>14. QueueInv' /\ RowsInv' /\ GrantInv'
  BY <1>1, EditFrame
<1> QED
  BY <1>9, <1>10, <1>11, <1>12, <1>13, <1>14 DEF IInv

\* A row that is written over another may cause an event.
LEMMA PendingTyped ==
    ASSUME TypeInv, NEW row, RowWritten(row)
    PROVE  pending' \in [session : Nat, profile : Seq(Profiles)]
  BY DEF RowWritten, TypeInv

\* The row is written as it was read, but for the schedule.
LEMMA EditSaveStep ==
    ASSUME IInv, EditSave, RowWritten(edit.row),
           UNCHANGED <<perms, profile, file, command, inbox, tries, worker, share, granted, actorVars, bounds>>
    PROVE  IInv'
<1>1. /\ edit.at = "save" /\ edit \in Editing /\ session' = edit.row /\ asked' = edit.wish
      /\ edit' = Idle /\ edit'.at = "idle" /\ UNCHANGED <<schedules, ids, excuse>>
  BY Forms DEF IInv, EditSave, Idle
<1>2. edit.row \in SessionRows /\ edit.row # Gone /\ edit.wish \in Wishes
  BY <1>1, ScheduleParameters DEF Editing
<1>3. pending' \in [session : Nat, profile : Seq(Profiles)]
  BY PendingTyped DEF IInv
<1>4. TypeInv'
  BY <1>1, <1>2, <1>3 DEF IInv, TypeInv, actorVars, bounds
<1>5. SoundInv'
  BY <1>1, <1>2 DEF IInv, SoundInv, actorVars
<1>6. WritersInv'
  BY <1>1, <1>2 DEF IInv, WritersInv, Deleting, actorVars
<1>7. AskedInv'
  BY <1>1, <1>2 DEF IInv, AskedInv
<1>8. ScheduleInv'
  <2>1. "overlap" \notin excuse => session # Gone /\ edit.row.state = session.state /\ ~Deleting(worker) /\ ~Deleting(removal)
    BY <1>1 DEF IInv, WritersInv
  <2>2. "overlap" \notin excuse /\ Broken => Broken'
    BY <1>1, <1>2, <2>1 DEF Broken
  <2> QED
    BY <1>1, <1>2, <2>1, <2>2 DEF IInv, ScheduleInv, Only, Deleting, actorVars
<1>9. QueueInv' /\ RowsInv'
  BY <1>1, <1>2 DEF IInv, QueueInv, RowsInv, Shared, actorVars
<1>10. GrantInv'
  BY <1>1, <1>2, GrantFrame DEF IInv, actorVars, DeletesRows, WritersInv
<1> QED
  BY <1>4, <1>5, <1>6, <1>7, <1>8, <1>9, <1>10 DEF IInv

\* Another operation reads the row, to write it with a new state.
LEMMA ChangeBegins ==
    ASSUME IInv, NEW to \in {"READY", "STOPPED", "RESUMING", "DELETING"},
           change = Idle, session # Gone, session.state # "DELETING",
           change' = [at |-> "write", row |-> [session EXCEPT !.state = to]], Note(Overlap),
           events' \in 0..MaxEvents, UNCHANGED <<scheduleVars, permissionVars, removal, check, now, faults>>
    PROVE  IInv'
<1> DEFINE row == [session EXCEPT !.state = to]
           new == [at |-> "write", row |-> row]
<1>1. /\ excuse \subseteq excuse' /\ excuse' \subseteq Labels /\ excuse' \subseteq excuse \cup {"overlap"}
      /\ "overlap" \notin excuse' => edit.at = "idle" /\ ~Deleting(worker) /\ ~Deleting(removal)
  BY OverlapNoted DEF Note, IInv, TypeInv, Labels
<1>2. session \in SessionRows /\ row \in SessionRows /\ row.sched = session.sched
  <2>1. session \in SessionRows
    BY DEF IInv, TypeInv
  <2> QED
    BY <2>1, RowForm
<1>3. change' = new
  OBVIOUS
<1> HIDE DEF row
<1>4. new \in Changing /\ new.at = "write" /\ new.row = row
  BY <1>2 DEF Changing
<1> HIDE DEF new
<1>5. TypeInv'
  BY <1>1, <1>3, <1>4 DEF IInv, TypeInv, scheduleVars, permissionVars
<1>6. SoundInv'
  BY <1>2, <1>3, <1>4 DEF IInv, SoundInv, scheduleVars, permissionVars
<1>7. QueueInv' /\ RowsInv'
  BY <1>1 DEF IInv, QueueInv, RowsInv, Shared, scheduleVars, permissionVars
<1>8. WritersInv'
  BY <1>1, <1>2, <1>3, <1>4 DEF IInv, WritersInv, Deleting, scheduleVars, permissionVars
<1>9. AskedInv'
  BY <1>1 DEF IInv, AskedInv, scheduleVars
<1>10. ScheduleInv'
  <2>1. Broken => Broken'
    BY <1>1 DEF Broken, scheduleVars, permissionVars
  <2> QED
    BY <1>1, <2>1 DEF IInv, ScheduleInv, Only, Deleting, scheduleVars, permissionVars
<1>11. GrantInv'
  BY <1>1, GrantFrame DEF IInv, scheduleVars, permissionVars, DeletesRows
<1> QED
  BY <1>5, <1>6, <1>7, <1>8, <1>9, <1>10, <1>11 DEF IInv

\* A request to stop, resume or delete reads the row.
LEMMA ChangeStateStep ==
    ASSUME IInv, NEW to \in {"STOPPED", "RESUMING", "DELETING"}, ChangeState(to)
    PROVE  IInv'
<1>1. events' \in 0..MaxEvents /\ faults' = faults
  BY SettingsParameters DEF IInv, TypeInv, ChangeState, Event
<1>2. session.state # "DELETING"
  BY DEF ChangeState
<1> QED
  BY <1>1, <1>2, ChangeBegins DEF ChangeState

\* The handlers of a resumed session read the row.
LEMMA ResumedStep ==
    ASSUME IInv, Resumed
    PROVE  IInv'
<1>1. UNCHANGED <<events, faults>> /\ events' \in 0..MaxEvents
  BY DEF IInv, TypeInv, Resumed, bounds
<1> QED
  BY <1>1, ChangeBegins DEF Resumed

\* The row is written as it was read, but for the state.
LEMMA ChangeWriteStep ==
    ASSUME IInv, ChangeWrite
    PROVE  IInv'
<1> DEFINE to == change.row.state
<1>1. /\ change.at = "write" /\ change \in Changing /\ session' = change.row
      /\ change' = Idle /\ change'.at = "idle" /\ RowWritten(change.row)
      /\ UNCHANGED <<schedules, ids, edit, asked, excuse, perms, profile, command, tries, worker,
                     share, granted, removal, check, now, bounds>>
      /\ file' = IF to \in {"STOPPED", "DELETING"} THEN Gone ELSE file
  BY Forms DEF IInv, ChangeWrite, Idle
<1>2. change.row \in SessionRows /\ change.row # Gone
  BY <1>1, ScheduleParameters DEF Changing
<1>3. pending' \in [session : Nat, profile : Seq(Profiles)]
  BY <1>1, PendingTyped DEF IInv
<1>4. /\ inbox' \in Seq(Events)
      /\ inbox # <<>> => inbox' # <<>> /\ Head(inbox') = Head(inbox)
  <2>1. inbox \in Seq(Events) /\ "resume" \in Events /\ "delete" \in Events
    BY DEF IInv, TypeInv, Events
  <2>2. inbox' = inbox \o <<"resume">> \/ inbox' = inbox \o <<"delete">> \/ inbox' = inbox \o <<>>
    BY DEF ChangeWrite
  <2>3. /\ inbox \o <<>> = inbox
        /\ inbox \o <<"resume">> = Append(inbox, "resume")
        /\ inbox \o <<"delete">> = Append(inbox, "delete")
    BY <2>1, ConcatEmptySeq, AppendIsConcat
  <2> QED
    BY <2>1, <2>2, <2>3, Published
<1>5. TypeInv'
  BY <1>1, <1>2, <1>3, <1>4 DEF IInv, TypeInv, bounds
<1>6. SoundInv'
  BY <1>1, <1>2 DEF IInv, SoundInv
<1>7. QueueInv'
  BY <1>1, <1>4 DEF IInv, QueueInv
<1>8. WritersInv'
  BY <1>1, <1>2 DEF IInv, WritersInv, Deleting
<1>9. AskedInv'
  BY <1>1, <1>2 DEF IInv, AskedInv, WritersInv
<1>10. ScheduleInv'
  <2>1. "overlap" \notin excuse => /\ session # Gone /\ session.state # "DELETING" /\ change.row.sched = session.sched
                                   /\ ~Deleting(worker) /\ ~Deleting(removal) /\ edit.at = "idle"
    BY <1>1 DEF IInv, WritersInv
  <2>2. "overlap" \notin excuse => ~Broken
    BY <2>1 DEF Broken
  <2> QED
    BY <1>1, <1>2, <2>1, <2>2 DEF IInv, ScheduleInv, Only, Deleting
<1>11. RowsInv'
  BY <1>1, <1>2, <1>4 DEF IInv, RowsInv, QueueInv, Shared
<1>12. GrantInv'
  BY <1>1, <1>2, GrantFrame DEF IInv, DeletesRows, WritersInv
<1> QED
  BY <1>5, <1>6, <1>7, <1>8, <1>9, <1>10, <1>11, <1>12 DEF IInv

-----------------------------------------------------------------------------
(* Every action preserves the invariant: deletions and crashes *)

\* The handler of the deletion reads the row.
LEMMA DeleteReadStep ==
    ASSUME IInv, DeleteRead
    PROVE  IInv'
<1> DEFINE new == DeletionOf(session)
<1>1. /\ worker = Idle /\ worker.at = "idle" /\ inbox # <<>> /\ Head(inbox) = "delete" /\ tries < MaxReceive
      /\ UNCHANGED <<scheduleVars, perms, profile, file, command, pending, share, granted, actorVars, bounds>>
  BY DEF DeleteRead, Receive, Idle
<1>2. CASE (session = Gone \/ session.state # "DELETING") /\ Handled /\ UNCHANGED excuse
  <2>1. /\ inbox' \in Seq(Events) /\ tries' = 0 /\ 0 \in 0..MaxReceive /\ ~(0 > 0)
        /\ worker' = Idle /\ worker'.at = "idle"
    BY <1>1, <1>2, Rest, PermissionParameters DEF IInv, TypeInv, Handled, HandledBy, Idle
  <2>2. TypeInv'
    BY <1>1, <1>2, <2>1 DEF IInv, TypeInv, scheduleVars, actorVars, bounds
  <2>3. QueueInv'
    BY <2>1 DEF QueueInv
  <2>4. SoundInv' /\ WritersInv' /\ AskedInv'
    BY <1>1, <1>2, <2>1 DEF IInv, SoundInv, WritersInv, AskedInv, Deleting, scheduleVars, actorVars
  <2>5. ScheduleInv'
    <3>1. ~Broken
      BY <1>2 DEF Broken
    <3> QED
      BY <1>1, <1>2, <2>1, <3>1 DEF IInv, ScheduleInv, Only, Deleting, scheduleVars, actorVars
  <2>6. RowsInv'
    BY <1>1, <1>2, <2>1 DEF IInv, RowsInv, Shared, scheduleVars, actorVars
  <2>7. GrantInv'
    BY <1>1, <1>2, <2>1, GrantFrame DEF IInv, scheduleVars, actorVars, DeletesRows
  <2> QED
    BY <2>2, <2>3, <2>4, <2>5, <2>6, <2>7 DEF IInv
<1>3. CASE session # Gone /\ session.state = "DELETING" /\ worker' = new /\ Note(Overlap) /\ UNCHANGED <<inbox, tries>>
  <2>1. /\ excuse \subseteq excuse' /\ excuse' \subseteq Labels /\ excuse' \subseteq excuse \cup {"overlap"}
        /\ "overlap" \notin excuse' => edit.at = "idle" /\ change.at = "idle" /\ ~Deleting(removal)
    <3>1. TypeInv /\ excuse \subseteq Labels
      BY DEF IInv, TypeInv
    <3>2. excuse' = excuse \cup Overlap
      BY <1>3 DEF Note
    <3> QED
      BY <3>1, <3>2, OverlapNoted DEF Labels
  <2>2. session \in SessionRows /\ session.sched \in Schedules
    <3>1. session \in SessionRows
      BY <1>3 DEF IInv, TypeInv
    <3> QED
      BY <3>1, RowForm
  <2>3. new \in Removing /\ new.at = "delete_schedule" /\ new.sched = session.sched
    BY <2>2 DEF DeletionOf, Removing
  <2> HIDE DEF new
  <2>4. TypeInv'
    BY <1>1, <1>3, <2>1, <2>3 DEF IInv, TypeInv, scheduleVars, actorVars, bounds
  <2>5. QueueInv'
    BY <1>1, <1>3, <2>3 DEF IInv, QueueInv
  <2>6. SoundInv'
    BY <1>1, <1>3, <2>3 DEF IInv, SoundInv, scheduleVars, actorVars
  <2>7. WritersInv'
    BY <1>1, <1>3, <2>1, <2>3 DEF IInv, WritersInv, Deleting, scheduleVars, actorVars
  <2>8. AskedInv'
    BY <1>1, <2>1 DEF IInv, AskedInv, scheduleVars
  <2>9. ScheduleInv'
    <3>1. Broken => Broken'
      BY <1>1, <1>3, <2>1 DEF Broken, scheduleVars
    <3>2. ~Deleting(worker)
      BY <1>1 DEF Deleting
    <3> QED
      BY <1>1, <1>3, <2>1, <2>3, <3>1, <3>2 DEF IInv, ScheduleInv, Only, Deleting, scheduleVars, actorVars
  <2>10. RowsInv'
    BY <1>1, <1>3, <2>1, <2>3 DEF IInv, RowsInv, Shared, scheduleVars, actorVars
  <2>11. GrantInv'
    BY <1>1, <1>3, <2>1, <2>3, GrantFrame DEF IInv, scheduleVars, actorVars, DeletesRows
  <2> QED
    BY <2>4, <2>5, <2>6, <2>7, <2>8, <2>9, <2>10, <2>11 DEF IInv
<1> QED
  BY <1>2, <1>3 DEF DeleteRead

\* The request that deletes a stopped session reads the row.
LEMMA DeleteStoppedStep ==
    ASSUME IInv, DeleteStopped
    PROVE  IInv'
<1> DEFINE new == DeletionOf(session)
<1>1. /\ removal = Idle /\ removal.at = "idle" /\ session # Gone /\ session.state = "STOPPED" /\ removal' = new
      /\ Note(Overlap) /\ UNCHANGED <<scheduleVars, permissionVars, change, check, now, faults>>
      /\ events < MaxEvents /\ events' = events + 1
  BY DEF DeleteStopped, Event, Idle
<1>2. /\ excuse \subseteq excuse' /\ excuse' \subseteq Labels /\ excuse' \subseteq excuse \cup {"overlap"}
      /\ "overlap" \notin excuse' => edit.at = "idle" /\ change.at = "idle" /\ ~Deleting(worker)
  <2>1. TypeInv /\ excuse \subseteq Labels
    BY DEF IInv, TypeInv
  <2>2. excuse' = excuse \cup Overlap
    BY <1>1 DEF Note
  <2> QED
    BY <2>1, <2>2, OverlapNoted DEF Labels
<1>3. session \in SessionRows /\ session.sched \in Schedules
  <2>1. session \in SessionRows
    BY <1>1 DEF IInv, TypeInv
  <2> QED
    BY <2>1, RowForm
<1>4. new \in Removing /\ new.at = "delete_schedule" /\ new.sched = session.sched
  BY <1>3 DEF DeletionOf, Removing
<1> HIDE DEF new
<1>5. TypeInv'
  <2>1. events' \in 0..MaxEvents
    BY <1>1, SettingsParameters DEF IInv, TypeInv
  <2> QED
    BY <1>1, <1>2, <1>4, <2>1 DEF IInv, TypeInv, scheduleVars, permissionVars
<1>6. QueueInv'
  BY <1>1 DEF IInv, QueueInv, permissionVars
<1>7. SoundInv'
  BY <1>1, <1>4 DEF IInv, SoundInv, scheduleVars, permissionVars
<1>8. WritersInv'
  BY <1>1, <1>2, <1>4 DEF IInv, WritersInv, Deleting, scheduleVars, permissionVars
<1>9. AskedInv'
  BY <1>1, <1>2 DEF IInv, AskedInv, scheduleVars
<1>10. ScheduleInv'
  <2>1. ~Broken /\ ~Deleting(removal)
    BY <1>1 DEF Broken, Deleting
  <2> QED
    BY <1>1, <1>2, <1>4, <2>1 DEF IInv, ScheduleInv, Only, Deleting, scheduleVars, permissionVars
<1>11. RowsInv'
  BY <1>1, <1>2, <1>4 DEF IInv, RowsInv, Shared, scheduleVars, permissionVars
<1>12. GrantInv'
  BY <1>1, <1>2, <1>4, GrantFrame DEF IInv, scheduleVars, permissionVars, DeletesRows
<1> QED
  BY <1>5, <1>6, <1>7, <1>8, <1>9, <1>10, <1>11, <1>12 DEF IInv

\* What a step of a deletion removes, and what comes after it.
LEMMA DeletionMoves ==
    ASSUME TypeInv, NEW w \in Removing, NEW g \in Guests, DeletionStep(w, g)
    PROVE  /\ w.at \in {"delete_schedule", "delete_rows", "delete_session"}
           /\ w.at = "delete_schedule" => /\ UNCHANGED <<session, perms>>
                                          /\ schedules' = IF HasNoEntry(w.sched) THEN schedules
                                                          ELSE schedules \ Entry(w.sched)
           /\ w.at = "delete_rows" => /\ UNCHANGED <<session, schedules>> /\ g \in w.todo /\ w.todo \in SUBSET Guests
                                      /\ perms' = [perms EXCEPT ![g] = Gone]
           /\ w.at = "delete_session" => UNCHANGED <<schedules, perms>> /\ session' = Gone
           /\ perms' \in PermRows /\ schedules' \subseteq schedules /\ session' \in {session, Gone}
           /\ AfterDeletion(w, g) \in {Idle} \cup Removing
           /\ w.at = "delete_schedule" =>
                /\ DeletionFails(w, g) <=> ~HasNoEntry(w.sched) /\ Entry(w.sched) = {}
                /\ Shared = {} => AfterDeletion(w, g) = [at |-> "delete_session"]
                /\ Shared # {} => AfterDeletion(w, g) = [at |-> "delete_rows", todo |-> Shared]
           /\ w.at = "delete_rows" =>
                /\ DeletionFails(w, g) <=> perms[g] = Gone
                /\ w.todo = {g} => AfterDeletion(w, g) = [at |-> "delete_session"]
                /\ w.todo # {g} => AfterDeletion(w, g) = [at |-> "delete_rows", todo |-> w.todo \ {g}]
           /\ w.at = "delete_session" =>
                /\ DeletionFails(w, g) <=> session = Gone
                /\ AfterDeletion(w, g) = Idle
<1>1. w.at \in {"delete_schedule", "delete_rows", "delete_session"} /\ (w.at = "delete_rows" => w.todo \in SUBSET Guests)
  BY DEF Removing
<1>2. CASE w.at = "delete_schedule"
  <2>1. /\ UNCHANGED <<session, perms>>
        /\ schedules' = IF HasNoEntry(w.sched) THEN schedules ELSE schedules \ Entry(w.sched)
    BY <1>2 DEF DeletionStep
  <2>2. DeletionFails(w, g) <=> ~HasNoEntry(w.sched) /\ Entry(w.sched) = {}
    BY <1>2 DEF DeletionFails
  <2>3. /\ Shared = {} => AfterDeletion(w, g) = [at |-> "delete_session"]
        /\ Shared # {} => AfterDeletion(w, g) = [at |-> "delete_rows", todo |-> Shared]
    BY <1>2 DEF AfterDeletion
  <2>4. [at |-> "delete_session"] \in Removing /\ [at |-> "delete_rows", todo |-> Shared] \in Removing
    BY DEF Removing, Shared
  <2> QED
    BY <1>2, <2>1, <2>2, <2>3, <2>4 DEF TypeInv
<1>3. CASE w.at = "delete_rows"
  <2>1. UNCHANGED <<session, schedules>> /\ g \in w.todo /\ perms' = [perms EXCEPT ![g] = Gone]
    BY <1>3 DEF DeletionStep
  <2>2. DeletionFails(w, g) <=> perms[g] = Gone
    BY <1>3 DEF DeletionFails
  <2>3. /\ w.todo = {g} => AfterDeletion(w, g) = [at |-> "delete_session"]
        /\ w.todo # {g} => AfterDeletion(w, g) = [at |-> "delete_rows", todo |-> w.todo \ {g}]
    <3>1. w.todo \ {g} = {} <=> w.todo = {g}
      BY <2>1
    <3> QED
      BY <1>3, <3>1 DEF AfterDeletion
  <2>4. [at |-> "delete_session"] \in Removing /\ [at |-> "delete_rows", todo |-> w.todo \ {g}] \in Removing
    BY <1>1, <1>3 DEF Removing
  <2>5. perms' \in PermRows
    BY <2>1 DEF TypeInv, PermRows
  <2> QED
    BY <1>1, <1>3, <2>1, <2>2, <2>3, <2>4, <2>5
<1>4. CASE w.at = "delete_session"
  <2>1. UNCHANGED <<schedules, perms>> /\ session' = Gone
    BY <1>4 DEF DeletionStep
  <2>2. DeletionFails(w, g) <=> session = Gone
    BY <1>4 DEF DeletionFails
  <2>3. AfterDeletion(w, g) = Idle
    BY <1>4 DEF AfterDeletion
  <2> QED
    BY <1>4, <2>1, <2>2, <2>3 DEF TypeInv
<1> QED
  BY <1>1, <1>2, <1>3, <1>4

\* A deletion that finds nothing to delete changes nothing.
LEMMA FailedDeletion ==
    ASSUME TypeInv, NEW w \in Removing, NEW g \in Guests, DeletionStep(w, g), DeletionFails(w, g)
    PROVE  UNCHANGED <<session, schedules, perms>>
<1>1. CASE w.at = "delete_schedule"
  BY <1>1, DeletionMoves
<1>2. CASE w.at = "delete_rows"
  <2>1. perms[g] = Gone /\ perms' = [perms EXCEPT ![g] = Gone] /\ UNCHANGED <<session, schedules>>
    BY <1>2, DeletionMoves
  <2>2. perms \in [Guests -> Rows \cup {Gone}]
    BY DEF TypeInv, PermRows
  <2>3. perms' = perms
    BY <2>1, <2>2
  <2> QED
    BY <2>1, <2>3
<1>3. CASE w.at = "delete_session"
  BY <1>3, DeletionMoves
<1> QED
  BY <1>1, <1>2, <1>3, DeletionMoves

\* The only schedule there is, is removed.
LEMMA ScheduleRemoved ==
    ASSUME NEW s \in Schedules, Sound(s, ids), Only(s)
    PROVE  /\ ~(~HasNoEntry(s) /\ Entry(s) = {})
           /\ (IF HasNoEntry(s) THEN schedules ELSE schedules \ Entry(s)) = {}
<1>1. CASE s = Empty
  <2>1. HasNoEntry(s)
    BY <1>1 DEF HasNoEntry, Empty, Named, NoSchedule
  <2>2. schedules = {}
    BY <1>1 DEF Only
  <2> QED
    BY <2>1, <2>2
<1>2. CASE s # Empty
  <2>1. ~HasNoEntry(s)
    BY <1>2 DEF Sound, HasNoEntry
  <2>2. Entry(s) = {s} /\ schedules = {s}
    BY <1>2 DEF Only, Entry
  <2> QED
    BY <2>1, <2>2
<1> QED
  BY <1>1, <1>2

\* A step of the handler of the deletion.
LEMMA HandlerDeletesStep ==
    ASSUME IInv, HandlerDeletes
    PROVE  IInv'
<1>1. PICK g \in Guests :
        /\ DeletionStep(worker, g)
        /\ IF DeletionFails(worker, g) THEN Raised
           ELSE IF worker.at = "delete_session" THEN Handled
           ELSE worker' = AfterDeletion(worker, g) /\ UNCHANGED <<inbox, tries>>
  BY DEF HandlerDeletes
<1>2. UNCHANGED <<ids, edit, asked, excuse, profile, file, command, pending, share, granted, actorVars, bounds>>
  BY DEF HandlerDeletes
<1>3. /\ worker \in Removing /\ Deleting(worker) /\ TypeInv
      /\ worker.at = "delete_schedule" => worker.sched \in Schedules
  <2>1. worker.at \in {"delete_schedule", "delete_rows", "delete_session"}
    BY <1>1 DEF DeletionStep
  <2>2. worker \in Removing
    BY <2>1 DEF IInv, TypeInv, Updating, Idle
  <2> QED
    BY <2>1, <2>2, Forms DEF IInv, Deleting
<1>4. inbox # <<>> /\ Head(inbox) = "delete" /\ tries < MaxReceive
  BY <1>3 DEF IInv, QueueInv, Deleting
<1>5. "overlap" \notin excuse => /\ edit.at = "idle" /\ change.at = "idle" /\ ~Deleting(removal)
                                 /\ session # Gone /\ session.state = "DELETING"
  BY <1>3, Forms DEF IInv, WritersInv
<1>6. ASSUME excuse \cap {"overlap", "crashed", "undeleted"} = {}
      PROVE  /\ schedules' = {}
             /\ worker.at = "delete_schedule" /\ DeletionFails(worker, g) => Broken
  <2>1. CASE worker.at = "delete_schedule"
    <3>1. Sound(worker.sched, ids) /\ (Only(worker.sched) \/ Broken)
      BY <1>6, <2>1 DEF IInv, SoundInv, ScheduleInv
    <3>2. CASE Only(worker.sched)
      BY <1>1, <1>3, <2>1, <3>1, <3>2, ScheduleRemoved, DeletionMoves
    <3>3. CASE Broken
      BY <1>1, <1>3, <2>1, <3>3, DeletionMoves DEF Broken
    <3> QED
      BY <3>1, <3>2, <3>3
  <2>2. CASE worker.at # "delete_schedule"
    <3>1. schedules = {}
      BY <1>3, <1>6, <2>2 DEF IInv, ScheduleInv, Deleting
    <3> QED
      BY <1>1, <1>3, <2>2, <3>1, DeletionMoves
  <2> QED
    BY <2>1, <2>2
<1>7. ASSUME excuse \cap {"overlap", "midair", "crashed"} = {}
      PROVE  ~DeletionFails(worker, g)
  <2>1. "undeleted" \notin excuse
    BY <1>7 DEF IInv, RowsInv
  <2>2. CASE worker.at = "delete_schedule"
    BY <1>6, <1>7, <2>1, <2>2 DEF Broken
  <2>3. CASE worker.at = "delete_rows"
    BY <1>1, <1>3, <1>7, <2>3, DeletionMoves DEF IInv, RowsInv, Shared
  <2>4. CASE worker.at = "delete_session"
    BY <1>1, <1>3, <1>5, <1>7, <2>4, DeletionMoves
  <2> QED
    BY <1>3, <2>2, <2>3, <2>4 DEF Deleting
<1>8. CASE DeletionFails(worker, g)
  <2>1. /\ UNCHANGED <<session, schedules, perms, inbox>> /\ worker' = Idle /\ worker'.at = "idle"
        /\ tries' = tries + 1
    BY <1>1, <1>3, <1>8, FailedDeletion DEF Raised, Idle
  <2>2. tries' \in 0..MaxReceive
    BY <1>4, <2>1, PermissionParameters DEF IInv, TypeInv
  <2>3. TypeInv'
    BY <1>2, <2>1, <2>2 DEF IInv, TypeInv, actorVars, bounds
  <2>4. SoundInv'
    BY <1>2, <2>1 DEF IInv, SoundInv, actorVars
  <2>5. QueueInv'
    BY <1>4, <2>1 DEF QueueInv
  <2>6. WritersInv'
    BY <1>2, <2>1 DEF IInv, WritersInv, Deleting, actorVars
  <2>7. AskedInv'
    BY <1>2, <2>1 DEF IInv, AskedInv
  <2>8. ScheduleInv'
    <3> SUFFICES ASSUME excuse \cap {"overlap", "crashed", "undeleted"} = {}
                 PROVE  Broken
      <4>1. Broken => Broken'
        BY <1>2, <2>1 DEF Broken
      <4>2. Broken => session # Gone /\ schedules = {}
        BY DEF Broken
      <4> QED
        BY <1>2, <1>5, <2>1, <4>1, <4>2 DEF ScheduleInv, Only, Deleting, actorVars
    <3>1. schedules = {} /\ (worker.at = "delete_schedule" => Broken)
      BY <1>6, <1>8, <2>1
    <3>2. "midair" \in excuse
      BY <1>7, <1>8
    <3> QED
      BY <1>4, <1>5, <3>1, <3>2 DEF Broken
  <2>9. RowsInv'
    BY <1>2, <1>7, <1>8, <2>1 DEF RowsInv
  <2>10. GrantInv'
    BY <1>2, <1>7, <1>8, <2>1, GrantFrame DEF IInv, actorVars
  <2> QED
    BY <2>3, <2>4, <2>5, <2>6, <2>7, <2>8, <2>9, <2>10 DEF IInv
<1>9. CASE ~DeletionFails(worker, g) /\ worker.at = "delete_session"
  <2>1. /\ UNCHANGED <<schedules, perms>> /\ session' = Gone /\ inbox' = Tail(inbox)
        /\ tries' = 0 /\ worker' = Idle /\ worker'.at = "idle"
    BY <1>1, <1>3, <1>9, DeletionMoves DEF Handled, HandledBy, Idle
  <2>2. inbox' \in Seq(Events) /\ 0 \in 0..MaxReceive /\ ~(0 > 0)
    BY <1>4, <2>1, Rest, PermissionParameters DEF IInv, TypeInv
  <2>3. TypeInv'
    BY <1>2, <2>1, <2>2 DEF IInv, TypeInv, actorVars, bounds
  <2>4. SoundInv'
    BY <1>2, <2>1 DEF IInv, SoundInv, actorVars
  <2>5. QueueInv'
    BY <2>1, <2>2 DEF QueueInv
  <2>6. WritersInv'
    BY <1>2, <1>5, <2>1 DEF WritersInv, Deleting, actorVars
  <2>7. AskedInv'
    BY <1>2, <2>1 DEF IInv, AskedInv
  <2>8. ScheduleInv'
    BY <1>2, <1>5, <1>6, <2>1 DEF ScheduleInv, Deleting, actorVars
  <2>9. RowsInv'
    BY <1>2, <1>5, <1>9, <2>1, <2>2 DEF IInv, RowsInv, Shared, Deleting, actorVars
  <2>10. GrantInv'
    BY <1>2, <2>1, GrantFrame DEF IInv, actorVars
  <2> QED
    BY <2>3, <2>4, <2>5, <2>6, <2>7, <2>8, <2>9, <2>10 DEF IInv
<1>10. CASE ~DeletionFails(worker, g) /\ worker.at # "delete_session"
  <2>1. /\ UNCHANGED <<session, inbox, tries>> /\ worker' = AfterDeletion(worker, g) /\ worker' \in {Idle} \cup Removing
        /\ schedules' \subseteq schedules /\ perms' \in PermRows
    BY <1>1, <1>3, <1>10, DeletionMoves DEF Deleting
  <2>2. worker'.at \in {"delete_rows", "delete_session"}
    BY <1>1, <1>3, <1>10, <2>1, DeletionMoves DEF Deleting
  <2>3. TypeInv'
    BY <1>2, <2>1 DEF IInv, TypeInv, actorVars, bounds
  <2>4. SoundInv'
    BY <1>2, <2>1, <2>2 DEF IInv, SoundInv, actorVars
  <2>5. QueueInv'
    BY <1>4, <2>1, <2>2 DEF QueueInv
  <2>6. WritersInv'
    BY <1>2, <1>5, <2>1, <2>2 DEF WritersInv, Deleting, actorVars
  <2>7. AskedInv'
    BY <1>2, <2>1 DEF IInv, AskedInv
  <2>8. ScheduleInv'
    BY <1>2, <1>5, <1>6, <2>1, <2>2 DEF ScheduleInv, Deleting, actorVars
  <2>9. RowsInv'
    <3>1. ASSUME excuse \cap {"overlap", "midair", "crashed"} = {}
          PROVE  /\ worker'.at = "delete_rows" => worker'.todo = Shared'
                 /\ worker'.at = "delete_session" => Shared' = {}
      <4>1. CASE worker.at = "delete_schedule"
        <5>1. Shared' = Shared
          BY <1>1, <1>3, <4>1, DeletionMoves DEF Shared
        <5> QED
          BY <1>1, <1>3, <2>1, <4>1, <5>1, DeletionMoves
      <4>2. CASE worker.at = "delete_rows"
        <5>1. worker.todo = Shared
          BY <3>1, <4>2 DEF IInv, RowsInv
        <5>2. Shared' = Shared \ {g}
          BY <1>1, <1>3, <4>2, DeletionMoves DEF Shared, TypeInv, PermRows
        <5> QED
          BY <1>1, <1>3, <2>1, <4>2, <5>1, <5>2, DeletionMoves
      <4> QED
        BY <1>3, <1>10, <4>1, <4>2 DEF Deleting
    <3> QED
      BY <1>2, <1>5, <2>1, <2>2, <3>1 DEF IInv, RowsInv, Deleting, actorVars
  <2>10. GrantInv'
    BY <1>2, <2>1, <2>2 DEF IInv, GrantInv, DeletesRows, actorVars
  <2> QED
    BY <2>3, <2>4, <2>5, <2>6, <2>7, <2>8, <2>9, <2>10 DEF IInv
<1> QED
  BY <1>8, <1>9, <1>10

\* A step of the request that deletes a stopped session.
LEMMA RequestDeletesStep ==
    ASSUME IInv, RequestDeletes
    PROVE  IInv'
<1>1. PICK g \in Guests :
        /\ DeletionStep(removal, g)
        /\ removal' = IF DeletionFails(removal, g) THEN Idle ELSE AfterDeletion(removal, g)
        /\ Note((IF removal.at = "delete_rows" THEN Midair(FALSE) ELSE {})
                \cup (IF DeletionFails(removal, g) THEN {"undeleted"} ELSE {}))
  BY DEF RequestDeletes
<1>2. UNCHANGED <<ids, edit, asked, profile, file, command, inbox, tries, worker, pending, share, granted, change,
                  check, now, bounds>>
  BY DEF RequestDeletes
<1>3. /\ removal \in Removing /\ Deleting(removal) /\ TypeInv
      /\ removal.at = "delete_schedule" => removal.sched \in Schedules
  <2>1. removal.at \in {"delete_schedule", "delete_rows", "delete_session"}
    BY <1>1 DEF DeletionStep
  <2>2. removal \in Removing
    BY <2>1 DEF IInv, TypeInv, Idle
  <2> QED
    BY <2>1, <2>2, Forms DEF IInv, Deleting
<1>4. /\ excuse \subseteq excuse' /\ excuse' \subseteq Labels
      /\ "undeleted" \in excuse' <=> "undeleted" \in excuse \/ DeletionFails(removal, g)
      /\ removal.at = "delete_rows" /\ "midair" \notin excuse' => worker.at # "update"
  BY <1>1 DEF Note, Midair, IInv, TypeInv, Labels
<1>5. "overlap" \notin excuse => /\ edit.at = "idle" /\ change.at = "idle" /\ ~Deleting(worker)
                                 /\ session # Gone /\ session.state = "STOPPED"
  BY <1>3, Forms DEF IInv, WritersInv
<1>6. ASSUME excuse \cap {"overlap", "crashed", "undeleted"} = {}
      PROVE  schedules' = {} /\ (removal.at = "delete_schedule" => ~DeletionFails(removal, g))
  <2>1. CASE removal.at = "delete_schedule"
    <3>1. Sound(removal.sched, ids) /\ Only(removal.sched)
      BY <1>6, <2>1 DEF IInv, SoundInv, ScheduleInv
    <3> QED
      BY <1>1, <1>3, <2>1, <3>1, ScheduleRemoved, DeletionMoves
  <2>2. CASE removal.at # "delete_schedule"
    <3>1. schedules = {}
      BY <1>3, <1>6, <2>2 DEF IInv, ScheduleInv, Deleting
    <3> QED
      BY <1>1, <1>3, <2>2, <3>1, DeletionMoves
  <2> QED
    BY <2>1, <2>2
<1>7. ASSUME excuse \cap {"overlap", "midair", "crashed"} = {}
      PROVE  ~DeletionFails(removal, g)
  <2>1. "undeleted" \notin excuse
    BY <1>7 DEF IInv, RowsInv
  <2>2. CASE removal.at = "delete_schedule"
    BY <1>6, <1>7, <2>1, <2>2
  <2>3. CASE removal.at = "delete_rows"
    BY <1>1, <1>3, <1>7, <2>3, DeletionMoves DEF IInv, RowsInv, Shared
  <2>4. CASE removal.at = "delete_session"
    BY <1>1, <1>3, <1>5, <1>7, <2>4, DeletionMoves
  <2> QED
    BY <1>3, <2>2, <2>3, <2>4 DEF Deleting
<1>8. CASE DeletionFails(removal, g)
  <2>1. UNCHANGED <<session, schedules, perms>> /\ removal' = Idle /\ removal'.at = "idle" /\ "undeleted" \in excuse'
    BY <1>1, <1>3, <1>4, <1>8, FailedDeletion DEF Idle
  <2>2. TypeInv'
    BY <1>2, <1>4, <2>1 DEF IInv, TypeInv, bounds
  <2>3. SoundInv' /\ QueueInv'
    BY <1>2, <2>1 DEF IInv, SoundInv, QueueInv
  <2>4. WritersInv'
    BY <1>2, <1>4, <2>1 DEF IInv, WritersInv, Deleting
  <2>5. AskedInv'
    BY <1>2, <1>4, <2>1 DEF IInv, AskedInv
  <2>6. ScheduleInv'
    BY <2>1 DEF ScheduleInv
  <2>7. RowsInv'
    BY <1>2, <1>4, <1>7, <1>8, <2>1 DEF IInv, RowsInv
  <2>8. GrantInv'
    BY <1>2, <1>4, <2>1, GrantFrame DEF IInv
  <2> QED
    BY <2>2, <2>3, <2>4, <2>5, <2>6, <2>7, <2>8 DEF IInv
<1>9. CASE ~DeletionFails(removal, g) /\ removal.at = "delete_session"
  <2>1. UNCHANGED <<schedules, perms>> /\ session' = Gone /\ removal' = Idle /\ removal'.at = "idle"
    BY <1>1, <1>3, <1>9, DeletionMoves DEF Idle
  <2>2. TypeInv'
    BY <1>2, <1>4, <2>1 DEF IInv, TypeInv, bounds
  <2>3. SoundInv' /\ QueueInv'
    BY <1>2, <2>1 DEF IInv, SoundInv, QueueInv
  <2>4. WritersInv'
    BY <1>2, <1>4, <1>5, <2>1 DEF WritersInv, Deleting
  <2>5. AskedInv'
    BY <1>2, <1>4, <2>1 DEF IInv, AskedInv
  <2>6. ScheduleInv'
    BY <1>2, <1>4, <1>5, <1>6, <2>1 DEF ScheduleInv, Deleting
  <2>7. RowsInv'
    BY <1>2, <1>4, <1>5, <1>9, <2>1 DEF IInv, RowsInv, Shared, Deleting
  <2>8. GrantInv'
    BY <1>2, <1>4, <2>1, GrantFrame DEF IInv
  <2> QED
    BY <2>2, <2>3, <2>4, <2>5, <2>6, <2>7, <2>8 DEF IInv
<1>10. CASE ~DeletionFails(removal, g) /\ removal.at # "delete_session"
  <2>1. /\ session' = session /\ removal' = AfterDeletion(removal, g) /\ removal' \in {Idle} \cup Removing
        /\ schedules' \subseteq schedules /\ perms' \in PermRows
    BY <1>1, <1>3, <1>10, DeletionMoves DEF Deleting
  <2>2. removal'.at \in {"delete_rows", "delete_session"}
    BY <1>1, <1>3, <1>10, <2>1, DeletionMoves DEF Deleting
  <2>3. TypeInv'
    BY <1>2, <1>4, <2>1 DEF IInv, TypeInv, bounds
  <2>4. SoundInv' /\ QueueInv'
    BY <1>2, <2>1, <2>2 DEF IInv, SoundInv, QueueInv
  <2>5. WritersInv'
    BY <1>2, <1>4, <1>5, <2>1, <2>2 DEF WritersInv, Deleting
  <2>6. AskedInv'
    BY <1>2, <1>4, <2>1 DEF IInv, AskedInv
  <2>7. ScheduleInv'
    BY <1>2, <1>4, <1>5, <1>6, <2>1, <2>2 DEF ScheduleInv, Deleting
  <2>8. RowsInv'
    <3>1. ASSUME excuse \cap {"overlap", "midair", "crashed"} = {}
          PROVE  /\ removal'.at = "delete_rows" => removal'.todo = Shared'
                 /\ removal'.at = "delete_session" => Shared' = {}
      <4>1. CASE removal.at = "delete_schedule"
        <5>1. Shared' = Shared
          BY <1>1, <1>3, <4>1, DeletionMoves DEF Shared
        <5> QED
          BY <1>1, <1>3, <2>1, <4>1, <5>1, DeletionMoves
      <4>2. CASE removal.at = "delete_rows"
        <5>1. removal.todo = Shared
          BY <3>1, <4>2 DEF IInv, RowsInv
        <5>2. Shared' = Shared \ {g}
          BY <1>1, <1>3, <4>2, DeletionMoves DEF Shared, TypeInv, PermRows
        <5> QED
          BY <1>1, <1>3, <2>1, <4>2, <5>1, <5>2, DeletionMoves
      <4> QED
        BY <1>3, <1>10, <4>1, <4>2 DEF Deleting
    <3>2. removal.at # "delete_rows" => perms' = perms
      BY <1>1, <1>3, <1>10, DeletionMoves DEF Deleting
    <3>3. "midair" \notin excuse' /\ worker.at = "update" => worker.rows = perms'
      BY <1>4, <3>2 DEF IInv, RowsInv
    <3> QED
      BY <1>2, <1>4, <1>5, <1>10, <2>1, <2>2, <3>1, <3>3 DEF IInv, RowsInv, Deleting
  <2>9. GrantInv'
    BY <1>2, <2>1, <2>2 DEF IInv, GrantInv, DeletesRows
  <2> QED
    BY <2>3, <2>4, <2>5, <2>6, <2>7, <2>8, <2>9 DEF IInv
<1> QED
  BY <1>8, <1>9, <1>10

\* The controller dies, and forgets what its threads have read.
LEMMA CrashStep ==
    ASSUME IInv, Crash
    PROVE  IInv'
<1>1. /\ faults < MaxFaults /\ faults' = faults + 1
      /\ edit' = Idle /\ share' = Idle /\ worker' = Idle /\ change' = Idle /\ removal' = Idle
      /\ edit'.at = "idle" /\ worker'.at = "idle" /\ change'.at = "idle" /\ removal'.at = "idle"
      /\ tries' = IF worker = Idle THEN tries ELSE tries + 1
      /\ UNCHANGED <<session, schedules, ids, asked, perms, profile, file, command, inbox, pending, granted, now, events>>
  BY DEF Crash, Idle
<1>2. /\ excuse \subseteq excuse' /\ excuse' \subseteq Labels
      /\ "undeleted" \in excuse' => "undeleted" \in excuse
      /\ "crashed" \notin excuse' => edit.at = "idle" /\ ~Deleting(worker) /\ ~Deleting(removal)
  BY Forms DEF Crash, Note, IInv, TypeInv, Labels
<1>3. /\ check.at = "idle" => check' = Idle /\ check'.at = "idle"
      /\ check.at # "idle" => check' \in Triggering /\ check'.at = "trigger" /\ check'.time = check.time
  <2>1. CASE check.at = "idle"
    <3>1. check' = Idle
      BY <2>1, Forms DEF Crash, IInv
    <3> QED
      BY <2>1, <3>1 DEF Idle
  <2>2. CASE check.at # "idle"
    <3>1. check' = Again /\ check.time \in Nat
      BY <2>2, Forms DEF Crash, IInv, Triggering, Expiring
    <3> QED
      BY <2>2, <3>1 DEF Again, Triggering
  <2> QED
    BY <2>1, <2>2
<1>4. /\ tries' \in 0..MaxReceive /\ (tries' > 0 => inbox # <<>>)
      /\ tries' > 0 => tries > 0 \/ worker.at # "idle"
  <2>1. tries \in 0..MaxReceive /\ (worker # Idle => worker.at # "idle" /\ tries < MaxReceive /\ inbox # <<>>)
    BY Forms DEF IInv, TypeInv, QueueInv
  <2>2. CASE worker = Idle
    BY <1>1, <2>1, <2>2 DEF IInv, QueueInv
  <2>3. CASE worker # Idle
    BY <1>1, <2>1, <2>3, PermissionParameters
  <2> QED
    BY <2>2, <2>3
<1>5. TypeInv'
  <2>1. faults' \in 0..MaxFaults
    BY <1>1, SettingsParameters DEF IInv, TypeInv
  <2>2. check' \in {Idle} \cup Triggering
    BY <1>3
  <2> QED
    BY <1>1, <1>2, <1>4, <2>1, <2>2 DEF IInv, TypeInv
<1>6. SoundInv' /\ QueueInv'
  BY <1>1, <1>4 DEF IInv, SoundInv, QueueInv
<1>7. WritersInv'
  BY <1>1 DEF WritersInv, Deleting
<1>8. AskedInv'
  BY <1>1, <1>2 DEF IInv, AskedInv
<1>9. ScheduleInv'
  <2>1. Broken => Broken'
    BY <1>1, <1>2 DEF Broken
  <2> QED
    BY <1>1, <1>2, <2>1 DEF IInv, ScheduleInv, Only
<1>10. RowsInv'
  <2>1. ASSUME excuse' \cap {"overlap", "midair", "crashed"} = {}, tries' > 0
        PROVE  Head(inbox) # "delete"
    <3>1. CASE tries > 0
      BY <1>2, <2>1, <3>1 DEF IInv, RowsInv
    <3>2. CASE worker.at # "idle"
      BY <1>2, <2>1, <3>2, Forms DEF IInv, QueueInv, Deleting
    <3> QED
      BY <1>4, <2>1, <3>1, <3>2
  <2> QED
    BY <1>1, <1>2, <2>1 DEF IInv, RowsInv, Shared
<1>11. GrantInv'
  <2>1. /\ \A g \in Guests : granted'[g] = granted[g] /\ granted[g].at <= now
        /\ check.at # "idle" => now > 0 /\ check.time = Times[now]
    BY <1>1 DEF IInv, GrantInv
  <2>2. \A g \in Guests : Expected(g, now)' = Expected(g, now) /\ Expected(g, now - 1)' = Expected(g, now - 1)
    BY <1>1 DEF Expected
  <2>3. ASSUME session # Gone, excuse' \cap {"midair", "overlap", "crashed", "undeleted"} = {}, NEW g \in Guests
        PROVE  /\ check.at = "idle" => perms[g] = Expected(g, now)
               /\ check.at # "idle" => granted[g].at < now /\ perms[g] \in {Expected(g, now - 1), Expected(g, now)}
    <3>1. ~DeletesRows(worker) /\ ~DeletesRows(removal)
      BY <1>2, <2>3 DEF DeletesRows, Deleting
    <3>2. excuse \cap {"midair", "overlap", "crashed", "undeleted"} = {}
      BY <1>2, <2>3
    <3> QED
      BY <2>3, <3>1, <3>2, Forms DEF IInv, GrantInv
  <2> QED
    BY <1>1, <1>3, <2>1, <2>2, <2>3 DEF GrantInv
<1> QED
  BY <1>5, <1>6, <1>7, <1>8, <1>9, <1>10, <1>11 DEF IInv

-----------------------------------------------------------------------------
(* The invariant holds *)

\* A session starts with the schedule its row names, and with the rows the
\* last requests gave its guests.
LEMMA InitHolds ==
    ASSUME Init
    PROVE  IInv
<1>1. PICK start \in Starts :
        /\ asked = start.wish
        /\ LET s == IF start.wish.type = "NO_SCHEDULE" THEN Empty ELSE Named(1, start.wish)
           IN  /\ session = [state |-> start.state, sched |-> s]
               /\ schedules = {s} \ {Empty}
        /\ perms = start.perms
        /\ granted = [g \in Guests |-> [row |-> start.perms[g], at |-> 0]]
        /\ file = IF start.state = "READY" THEN Content ELSE Gone
  BY DEF Init
<1> DEFINE s == IF start.wish.type = "NO_SCHEDULE" THEN Empty ELSE Named(1, start.wish)
           row == [state |-> start.state, sched |-> s]
<1>2. /\ start.wish \in Wishes /\ start.perms \in PermRows
      /\ start.state \in {"READY", "STOPPED", "RESUMING", "DELETING"}
  BY SettingsParameters DEF PermRows
<1>3. session = row /\ schedules = {s} \ {Empty}
  BY <1>1
<1>4. s \in Schedules /\ Sound(s, 1) /\ s = Named(s.id, start.wish) /\ (s # Empty => s.id \in 1..1 /\ s.type # "NO_SCHEDULE")
  <2>1. CASE start.wish.type = "NO_SCHEDULE"
    <3>1. start.wish = NoSchedule
      BY <1>2, <2>1, ScheduleParameters DEF NoSchedule
    <3> QED
      BY <2>1, <3>1 DEF Sound, Empty, Named, NoSchedule, Schedules, ScheduleTypes
  <2>2. CASE start.wish.type # "NO_SCHEDULE"
    <3>1. s \in Schedules /\ s.id = 1 /\ s.type = start.wish.type /\ s = Named(1, start.wish)
      BY <1>2, <2>2, WishFacts
    <3> QED
      BY <2>2, <3>1 DEF Sound
  <2> QED
    BY <2>1, <2>2
<1> HIDE DEF s
<1>5. row \in SessionRows /\ row.sched = s /\ row # Gone
  <2>1. SessionRows = [state : {"READY", "STOPPED", "RESUMING", "DELETING"}, sched : Schedules]
    BY DEF SessionRows, Schedules
  <2>2. row \in SessionRows /\ row.sched = s
    BY <1>2, <1>4, <2>1
  <2> HIDE DEF row
  <2> QED
    BY <2>2, ScheduleParameters
<1> HIDE DEF row
<1>6. /\ ids = 1 /\ command = Gone /\ inbox = <<>> /\ tries = 0 /\ pending = [session |-> 0, profile |-> <<>>]
      /\ edit = Idle /\ share = Idle /\ worker = Idle /\ change = Idle /\ removal = Idle /\ check = Idle
      /\ now = 0 /\ excuse = {} /\ events = 0 /\ faults = 0
      /\ profile = [p \in Profiles |-> "limited"]
  BY DEF Init
<1>7. Idle.at = "idle"
  BY DEF Idle
<1> HIDE DEF Idle
<1>8. \A g \in Guests : granted[g].row = perms[g] /\ granted[g].at = 0
  BY <1>1
<1>9. TypeInv
  <2>1. granted \in [Guests -> [row : Rows \cup {Gone}, at : Nat]]
    BY <1>1, <1>2 DEF PermRows
  <2>2. pending \in [session : Nat, profile : Seq(Profiles)] /\ inbox \in Seq(Events)
    BY <1>6
  <2>3. /\ tries \in 0..MaxReceive /\ now \in 0..Len(Times) /\ events \in 0..MaxEvents /\ faults \in 0..MaxFaults
        /\ ids \in Nat
    BY <1>6, PermissionParameters, SettingsParameters, TimesInOrder
  <2>4. session \in SessionRows \cup {Gone} /\ schedules \subseteq Schedules
    BY <1>3, <1>4, <1>5
  <2>5. profile \in [Profiles -> {"limited", "full", Gone}] /\ perms \in PermRows
    BY <1>1, <1>2, <1>6
  <2>6. file \in Files \cup {Gone}
    BY <1>1, <2>5, ContentTyped
  <2>7. asked \in Wishes
    BY <1>1, <1>2
  <2> QED
    BY <1>6, <2>1, <2>2, <2>3, <2>4, <2>5, <2>6, <2>7 DEF TypeInv
<1>10. SoundInv
  BY <1>3, <1>4, <1>5, <1>6, <1>7 DEF SoundInv
<1>11. QueueInv
  BY <1>6, <1>7 DEF QueueInv
<1>12. WritersInv
  BY <1>6, <1>7 DEF WritersInv, Deleting
<1>13. AskedInv
  BY <1>1, <1>3, <1>4, <1>5, <1>6, <1>7 DEF AskedInv
<1>14. ScheduleInv
  BY <1>3, <1>5, <1>6, <1>7 DEF ScheduleInv, Only
<1>15. RowsInv
  BY <1>3, <1>5, <1>6, <1>7 DEF RowsInv
<1>16. GrantInv
  BY <1>6, <1>7, <1>8 DEF GrantInv, Expected
<1> QED
  BY <1>9, <1>10, <1>11, <1>12, <1>13, <1>14, <1>15, <1>16 DEF IInv

\* Every step preserves the invariant.
LEMMA NextHolds ==
    ASSUME IInv, [Next]_vars
    PROVE  IInv'
<1>1. CASE Request
  BY <1>1, EditStep, ShareStarts, UpdateProfileStep, ChangeStateStep, DeleteStoppedStep DEF Request
<1>2. CASE Progress
  <2>1. CASE (EditRemove \/ EditCreate) /\ UNCHANGED <<permissionVars, actorVars, bounds>>
    BY <2>1, EditRemoveStep, EditCreateStep
  <2>2. CASE EditSave /\ RowWritten(edit.row) /\ UNCHANGED <<perms, profile, file, command, inbox, tries,
                             worker, share, granted, actorVars, bounds>>
    BY <2>2, EditSaveStep
  <2>3. CASE (ShareStep \/ HandlerStep) /\ UNCHANGED <<scheduleVars, actorVars, bounds>>
    <3>1. CASE ShareStep
      BY <2>3, <3>1, ShareWriteStep, SharePublishStep DEF ShareStep
    <3>2. CASE HandlerStep
      BY <2>3, <3>2, ProfileUpdatedStep, SessionUpdatedStep, EnforceStep, UpdateReadStep, UpdateWriteStep,
         ResumeCommandStep, DeadLetterStep DEF HandlerStep
    <3> QED
      BY <2>3, <3>1, <3>2
  <2>4. CASE Resumed \/ ChangeWrite \/ CommandRuns
    BY <2>4, ResumedStep, ChangeWriteStep, CommandRunsStep
  <2>5. CASE DeleteRead \/ HandlerDeletes \/ RequestDeletes
    BY <2>5, DeleteReadStep, HandlerDeletesStep, RequestDeletesStep
  <2>6. CASE Tick \/ CheckTrigger \/ CheckExpire \/ CheckPublish
    BY <2>6, TickStep, CheckTriggerStep, CheckExpireStep, CheckPublishStep
  <2> QED
    BY <1>2, <2>1, <2>2, <2>3, <2>4, <2>5, <2>6 DEF Progress
<1>3. CASE Crash
  BY <1>3, CrashStep
<1>4. CASE UNCHANGED vars
  <2>1. TypeInv'
    BY <1>4 DEF IInv, TypeInv, vars, scheduleVars, permissionVars, actorVars, bounds
  <2>2. SoundInv' /\ QueueInv' /\ WritersInv' /\ AskedInv'
    BY <1>4 DEF IInv, SoundInv, QueueInv, WritersInv, AskedInv, Deleting, vars, scheduleVars, permissionVars, actorVars
  <2>3. ScheduleInv' /\ RowsInv'
    BY <1>4 DEF IInv, ScheduleInv, RowsInv, Broken, Only, Deleting, Shared, vars, scheduleVars, permissionVars, actorVars
  <2>4. GrantInv'
    BY <1>4, GrantFrame DEF IInv, DeletesRows, vars, scheduleVars, permissionVars, actorVars
  <2> QED
    BY <2>1, <2>2, <2>3, <2>4 DEF IInv
<1> QED
  BY <1>1, <1>2, <1>3, <1>4 DEF Next, Finished

\* The conjunction is an invariant of the specification.
THEOREM InvariantHolds == Spec => []IInv
<1>1. Init => IInv
  BY InitHolds
<1>2. IInv /\ [Next]_vars => IInv'
  BY NextHolds
<1> QED
  BY <1>1, <1>2, PTL DEF Spec

-----------------------------------------------------------------------------
(* What it says *)

\* Quiet: no thread is under way and the group is empty.
LEMMA QuietIdle ==
    ASSUME Quiet
    PROVE  /\ edit.at = "idle" /\ worker.at = "idle" /\ change.at = "idle" /\ removal.at = "idle"
           /\ check.at = "idle" /\ inbox = <<>>
<1>1. /\ edit = Idle /\ worker = Idle /\ change = Idle /\ removal = Idle /\ check = Idle /\ inbox = <<>>
  BY DEF Quiet
<1> QED
  BY <1>1 DEF Idle

\* Every variable has its type: rows, files, events and counters are what the
\* tables and queues hold, an event is received at most max_receive_count
\* times, and a schedule has an id that was given out.
THEOREM TypeCorrect == Spec => []TypeOK
<1>1. ASSUME IInv PROVE TypeOK
  <2>1. session = Gone \/ (/\ session.state \in {"READY", "STOPPED", "RESUMING", "DELETING"}
                           /\ session.sched.id \in 0..ids)
    <3> SUFFICES ASSUME session # Gone
                 PROVE  session.state \in {"READY", "STOPPED", "RESUMING", "DELETING"} /\ session.sched.id \in 0..ids
      OBVIOUS
    <3>1. session \in SessionRows /\ ids \in Nat /\ Sound(session.sched, ids)
      BY <1>1 DEF IInv, TypeInv, SoundInv
    <3>2. Empty.id = 0
      BY DEF Empty, Named
    <3> QED
      BY <3>1, <3>2 DEF SessionRows, Sound
  <2>2. \A s \in schedules : s.id \in 1..ids /\ s.type # "NO_SCHEDULE"
    BY <1>1 DEF IInv, SoundInv
  <2>3. pending.session \in Nat /\ pending.profile \in Seq(Profiles)
    BY <1>1 DEF IInv, TypeInv
  <2>4. {file, command} \subseteq Files \cup {Gone}
    BY <1>1 DEF IInv, TypeInv
  <2> QED
    BY <1>1, <2>1, <2>2, <2>3, <2>4 DEF IInv, TypeInv, TypeOK, PermRows, Events
<1> QED
  BY <1>1, InvariantHolds, PTL

\* A guest has the row the last request gave it until a check after its expiry
\* date removes it (update_permission_for_sessions, ScheduledEventHandler):
\* neither the copies of the state handler nor a repeated check undoes it.
THEOREM GrantsHold == Spec => []GrantsAsAsked
<1>1. ASSUME IInv PROVE GrantsAsAsked
  <2> SUFFICES ASSUME Quiet, session # Gone,
                      excuse \cap {"midair", "overlap", "crashed", "undeleted"} = {},
                      NEW g \in Guests
               PROVE  perms[g] = Expected(g, now)
    BY DEF GrantsAsAsked, Expected
  <2> QED
    BY <1>1, QuietIdle DEF IInv, GrantInv, DeletesRows
<1> QED
  BY <1>1, InvariantHolds, PTL

\* The schedules table has exactly the schedule that the last edit asked for
\* and the session's row names (_update_session, VirtualDesktopScheduleUtils).
THEOREM ScheduleHolds == Spec => []ScheduleAsAsked
<1>1. ASSUME IInv PROVE ScheduleAsAsked
  <2> SUFFICES ASSUME Quiet, session # Gone,
                      excuse \cap {"custom", "overlap", "crashed", "undeleted"} = {}
               PROVE  Only(session.sched) /\ session.sched = Named(session.sched.id, asked)
    BY DEF ScheduleAsAsked, Only
  <2>1. ~Broken
    BY QuietIdle DEF Broken
  <2>2. Only(session.sched)
    BY <1>1, <2>1, QuietIdle DEF IInv, ScheduleInv, Deleting
  <2> QED
    BY <1>1, <2>2 DEF IInv, AskedInv
<1> QED
  BY <1>1, InvariantHolds, PTL

\* A deletion fails for good only if something else worked on the session, its
\* rows changed or the controller died (delete_schedules_for_session).
THEOREM DeletionsHold == Spec => []DeletionFailsOnlyIfDisturbed
<1>1. ASSUME IInv PROVE DeletionFailsOnlyIfDisturbed
  BY <1>1 DEF IInv, RowsInv, DeletionFailsOnlyIfDisturbed
<1> QED
  BY <1>1, InvariantHolds, PTL

\* A deleted session leaves no schedule and no permission behind.
THEOREM NothingStays == Spec => []NothingLeftBehind
<1>1. ASSUME IInv PROVE NothingLeftBehind
  <2> SUFFICES ASSUME session = Gone, excuse \cap {"overlap", "midair", "crashed"} = {}
               PROVE  schedules = {} /\ Shared = {}
    BY DEF NothingLeftBehind
  <2>1. Shared = {} /\ "undeleted" \notin excuse
    BY <1>1 DEF IInv, RowsInv
  <2> QED
    BY <1>1, <2>1 DEF IInv, ScheduleInv
<1> QED
  BY <1>1, InvariantHolds, PTL

\* trigger_schedule does for the schedule of a row what was asked for, if the
\* hours begin and end at the same minute, and on the same day.
LEMMA TriggerAsWanted ==
    ASSUME NEW w \in Wishes, NEW n \in Nat, NEW t \in Nat, SameMinutes(w), WithinDay(w), w.type # "NO_SCHEDULE"
    PROVE  {Trigger(Named(n, w), t)} \ {"none"} = Wanted(w, t)
<1> DEFINE s == Named(n, w)
           hours == IF w.type = "WORKING_HOURS" THEN WorkingHours ELSE w
           hs == IF s.type = "WORKING_HOURS" THEN WorkingHours ELSE s
           start == (hs.start \div 60) * 60 + (hs.stop % 60)
<1>1. s.type = w.type /\ s.start = w.start /\ s.stop = w.stop
  BY DEF Named
<1>2. Trigger(s, t) = CASE s.type = "STOP_ALL_DAY" -> "stop"
                        [] s.type = "START_ALL_DAY" -> "resume"
                        [] OTHER -> IF t < start THEN "none"
                                    ELSE IF t < hs.stop THEN "resume" ELSE "stop"
  BY DEF Trigger
<1>3. Wanted(w, t) = CASE w.type = "NO_SCHEDULE" -> {}
                       [] w.type = "STOP_ALL_DAY" -> {"stop"}
                       [] w.type = "START_ALL_DAY" -> {"resume"}
                       [] OTHER -> IF hours.start <= t /\ t < hours.stop THEN {"resume"}
                                   ELSE IF t >= hours.stop THEN {"stop"} ELSE {}
  BY DEF Wanted
<1> SUFFICES {Trigger(s, t)} \ {"none"} = Wanted(w, t)
  OBVIOUS
<1> HIDE DEF s
<1>4. hs.start = hours.start /\ hs.stop = hours.stop
  BY <1>1
<1>5. hours.start \in 0..1439 /\ hours.stop \in 0..1439
  <2>1. w.start \in 0..1439 /\ w.stop \in 0..1439
    BY WishFacts
  <2>2. WorkingHours.start \in 0..1439 /\ WorkingHours.stop \in 0..1439
    <3>1. WorkingHours \in [type : ScheduleTypes, start : 0..1439, stop : 0..1439]
      BY ScheduleParameters
    <3> QED
      BY <3>1
  <2>3. hours = w \/ hours = WorkingHours
    OBVIOUS
  <2> HIDE DEF hours
  <2> QED
    BY <2>1, <2>2, <2>3
<1> DEFINE a == hours.start
           b == hours.stop
<1>6. a % 60 = b % 60 /\ a <= b /\ a \in 0..1439 /\ b \in 0..1439
  BY <1>5 DEF SameMinutes, WithinDay
<1>7. hs.start = a /\ hs.stop = b
  BY <1>4
<1> HIDE DEF a, b, hs
<1>8. start = a /\ a \in Nat /\ b \in Nat
  BY <1>6, <1>7
<1> HIDE DEF start
<1>9. CASE w.type \in {"STOP_ALL_DAY", "START_ALL_DAY"}
  BY <1>1, <1>2, <1>3, <1>9
<1>10. CASE w.type \notin {"STOP_ALL_DAY", "START_ALL_DAY"}
  <2>1. Trigger(s, t) = IF t < a THEN "none" ELSE IF t < b THEN "resume" ELSE "stop"
    BY <1>1, <1>2, <1>7, <1>8, <1>10
  <2>2. Wanted(w, t) = IF a <= t /\ t < b THEN {"resume"} ELSE IF t >= b THEN {"stop"} ELSE {}
    BY <1>3, <1>10 DEF a, b
  <2>3. CASE t < a
    BY <1>6, <1>8, <2>1, <2>2, <2>3
  <2>4. CASE a <= t /\ t < b
    BY <1>8, <2>1, <2>2, <2>4
  <2>5. CASE b <= t
    <3>1. ~(t < a) /\ ~(t < b) /\ t >= b
      BY <1>6, <1>8, <2>5
    <3> QED
      BY <2>1, <2>2, <3>1
  <2> QED
    BY <1>8, <2>3, <2>4, <2>5
<1> QED
  BY <1>9, <1>10

\* Only CheckTrigger takes a check to its second half.
LEMMA OnlyCheckTrigger ==
    ASSUME IInv, [Next]_vars, check.at = "trigger", check'.at = "expire"
    PROVE  CheckTrigger
<1>1. check' # check
  OBVIOUS
<1>2. ~(UNCHANGED vars) /\ ~(UNCHANGED actorVars) /\ ~(UNCHANGED <<removal, check, now>>)
  BY <1>1 DEF vars, actorVars
<1>3. ~Request
  BY <1>1, <1>2 DEF Request, Edit, Share, UpdateProfile, ChangeState, DeleteStopped
<1>4. ~Crash
  <2>1. Crash => check' = Idle \/ check' = Again
    BY DEF Crash
  <2>2. Idle.at = "idle" /\ Again.at = "trigger"
    BY DEF Idle, Again
  <2> QED
    BY <2>1, <2>2
<1>5. ~(Resumed \/ ChangeWrite \/ CommandRuns \/ DeleteRead \/ HandlerDeletes \/ RequestDeletes)
  BY <1>1, <1>2 DEF Resumed, ChangeWrite, CommandRuns, DeleteRead, HandlerDeletes, RequestDeletes
<1>6. ~(Tick \/ CheckExpire \/ CheckPublish)
  BY DEF Tick, CheckExpire, CheckPublish, Idle
<1> QED
  BY <1>2, <1>3, <1>4, <1>5, <1>6 DEF Next, Progress, Finished

\* A check fires what was asked for: the schedules table has no schedule of an
\* earlier edit, and the decision of trigger_schedule is the one meant.
THEOREM ChecksFollow == Spec => ChecksFollowSchedule
<1>1. ASSUME IInv, [Next]_vars, check'.at = "expire", check.at = "trigger",
             session # Gone, session.state # "DELETING",
             edit = Idle, ~Deleting(worker), ~Deleting(removal),
             excuse \cap {"custom", "overlap", "crashed", "undeleted"} = {},
             SameMinutes(asked), WithinDay(asked)
      PROVE  check'.fired = Wanted(asked, check.time)
  <2>1. check'.fired = Triggered(check.time)
    <3>1. CheckTrigger
      BY <1>1, OnlyCheckTrigger
    <3> QED
      BY <3>1 DEF CheckTrigger
  <2>2. edit.at = "idle"
    BY <1>1 DEF Idle
  <2>3. Only(session.sched) /\ session.sched = Named(session.sched.id, asked)
    <3>1. ~Broken
      BY <1>1 DEF Broken
    <3> QED
      BY <1>1, <2>2, <3>1 DEF IInv, ScheduleInv, AskedInv
  <2>4. /\ session.sched \in Schedules /\ session.sched.id \in Nat /\ Sound(session.sched, ids)
        /\ asked \in Wishes /\ check.time \in Nat
    <3>1. check \in Triggering /\ session \in SessionRows
      BY <1>1, Forms DEF IInv, TypeInv
    <3>2. session.sched \in Schedules /\ session.sched.id \in Nat /\ check.time \in Nat
      BY <3>1 DEF SessionRows, Schedules, Triggering
    <3> QED
      BY <1>1, <3>2 DEF IInv, TypeInv, SoundInv
  <2>5. session.sched.type = asked.type
    BY <2>3 DEF Named
  <2>6. CASE session.sched = Empty
    <3>1. asked.type = "NO_SCHEDULE"
      BY <2>5, <2>6 DEF Empty, Named, NoSchedule
    <3>2. Wanted(asked, check.time) = {}
      BY <3>1 DEF Wanted
    <3>3. schedules = {}
      BY <2>3, <2>6 DEF Only
    <3> QED
      BY <2>1, <3>2, <3>3 DEF Triggered
  <2>7. CASE session.sched # Empty
    <3>1. asked.type # "NO_SCHEDULE"
      BY <2>4, <2>5, <2>7 DEF Sound
    <3>2. schedules = {session.sched}
      BY <2>3, <2>7 DEF Only
    <3>3. Triggered(check.time) = {Trigger(session.sched, check.time)} \ {"none"}
      BY <3>2 DEF Triggered
    <3> QED
      BY <1>1, <2>1, <2>3, <2>4, <3>1, <3>3, TriggerAsWanted
  <2> QED
    BY <2>6, <2>7
<1>2. IInv /\ [Next]_vars =>
        [check'.at = "expire" /\ check.at = "trigger"
         /\ session # Gone /\ session.state # "DELETING"
         /\ edit = Idle /\ ~Deleting(worker) /\ ~Deleting(removal)
         /\ excuse \cap {"custom", "overlap", "crashed", "undeleted"} = {}
         /\ SameMinutes(asked) /\ WithinDay(asked) => check'.fired = Wanted(asked, check.time)]_vars
  BY <1>1
<1> QED
  BY <1>2, InvariantHolds, PTL DEF Spec, ChecksFollowSchedule

-----------------------------------------------------------------------------
(* The permission file *)

\* Which events a queue holds.
Holds(q, e) == \E i \in 1..Len(q) : q[i] = e
Once(q, e) == \A i, j \in 1..Len(q) : q[i] = e /\ q[j] = e => i = j

Uses(p) == \E g \in Guests : perms[g] # Gone /\ perms[g].profile = p

\* A request or a check has changed rows, and the event that says so is in the
\* group or is still to be published.
Begun == \E h \in Guests : share.request[h] # Keep /\ h \notin share.todo
RowsAnnounced ==
    \/ Holds(inbox, "enforce")
    \/ share.at # "idle" /\ Begun
    \/ check.at = "expire" /\ check.hit

\* So is a change of a profile that rows name.
Announced == RowsAnnounced \/ \E p \in Profiles : Holds(pending.profile, p) /\ Uses(p)

\* The file x is what the rows and the profiles say, or will be replaced, or
\* none can be made.
Fresh(x) == x = Content \/ Announced \/ Unreadable

Moves == {<<"READY", "STOPPED">>, <<"STOPPED", "RESUMING">>, <<"READY", "DELETING">>, <<"RESUMING", "READY">>}

\* The DCV session of a running session exists or is about to, and a file that
\* is out of date is about to be replaced.
HostInv ==
    /\ change.at = "write" => <<session.state, change.row.state>> \in Moves
                              /\ (session.state = "RESUMING" => file # Gone)
    /\ session.state = "STOPPED" => file = Gone /\ command = Gone /\ ~Holds(inbox, "resume")
    /\ session.state = "READY" => file # Gone /\ command = Gone /\ ~Holds(inbox, "resume")
    /\ session.state = "RESUMING" => (file = Gone \/ command = Gone) /\ Once(inbox, "resume")
                                     /\ (Holds(inbox, "resume") <=> file = Gone /\ command = Gone)

FreshInv ==
    session.state \in {"READY", "RESUMING"} /\ ~Holds(inbox, "resume") =>
        /\ file # Gone => Fresh(file)
        /\ command # Gone => Fresh(command)
        /\ worker.at = "update" /\ worker.rows # perms => RowsAnnounced

Clean == excuse \cap {"unannounced", "early", "poisoned", "recreated", "overlap"} = {}
FileInv ==
    session # Gone /\ Clean =>
        HostInv /\ FreshInv

\* An event is added to a queue.
LEMMA AppendHolds ==
    ASSUME NEW S, NEW q \in Seq(S), NEW x \in S, NEW e
    PROVE  /\ Holds(Append(q, x), e) <=> Holds(q, e) \/ x = e
           /\ Once(q, e) /\ (x # e \/ ~Holds(q, e)) => Once(Append(q, x), e)
<1> DEFINE r == Append(q, x)
           n == Len(q)
<1>1. /\ Len(r) = n + 1 /\ n \in Nat
      /\ \A i \in 1..n : r[i] = q[i]
      /\ r[n + 1] = x
  BY AppendProperties, LenProperties
<1> HIDE DEF r, n
<1>2. \A i \in 1..Len(r) : i \in 1..n \/ i = n + 1
  BY <1>1
<1>3. n + 1 \in 1..Len(r) /\ \A i \in 1..n : i \in 1..Len(r)
  BY <1>1
<1>4. Holds(r, e) <=> Holds(q, e) \/ x = e
  BY <1>1, <1>2, <1>3 DEF Holds, n
<1>5. Once(q, e) /\ (x # e \/ ~Holds(q, e)) => Once(r, e)
  BY <1>1, <1>2, <1>3 DEF Holds, Once, n
<1> QED
  BY <1>4, <1>5 DEF r

\* An event is taken from a queue.
LEMMA TailHolds ==
    ASSUME NEW S, NEW q \in Seq(S), q # <<>>, NEW e
    PROVE  /\ Holds(q, e) <=> Head(q) = e \/ Holds(Tail(q), e)
           /\ Once(q, e) => Once(Tail(q), e)
           /\ Once(q, e) /\ Head(q) = e => ~Holds(Tail(q), e)
<1> DEFINE r == Tail(q)
           n == Len(r)
<1>1. /\ Len(q) = n + 1 /\ n \in Nat /\ Head(q) = q[1]
      /\ \A i \in 1..n : r[i] = q[i + 1]
  <2>1. Len(q) \in Nat /\ Len(q) # 0
    BY LenProperties, EmptySeq
  <2>2. /\ r \in Seq(S) /\ n = Len(q) - 1 /\ Head(q) = q[1]
        /\ \A i \in 1..Len(r) : r[i] = q[i + 1]
    BY HeadTailProperties
  <2> QED
    BY <2>1, <2>2
<1> HIDE DEF r, n
<1>2. \A i \in 1..n : i + 1 \in 1..Len(q) /\ i + 1 # 1 /\ \A j \in 1..n : i + 1 = j + 1 => i = j
  BY <1>1
<1>3. 1 \in 1..Len(q) /\ \A i \in 1..Len(q) : i = 1 \/ \E j \in 1..n : i = j + 1
  <2>1. ASSUME NEW i \in 1..Len(q), i # 1 PROVE i - 1 \in 1..n /\ i = (i - 1) + 1
    BY <1>1, <2>1
  <2> QED
    BY <1>1, <2>1
<1>4. Holds(q, e) <=> Head(q) = e \/ Holds(r, e)
  <2>1. ASSUME Holds(q, e) PROVE Head(q) = e \/ Holds(r, e)
    <3>1. PICK i \in 1..Len(q) : q[i] = e
      BY <2>1 DEF Holds
    <3> QED
      BY <1>1, <1>3, <3>1 DEF Holds, n
  <2>2. ASSUME Holds(r, e) PROVE Holds(q, e)
    <3>1. PICK i \in 1..n : r[i] = e
      BY <2>2 DEF Holds, n
    <3>2. i + 1 \in 1..Len(q) /\ q[i + 1] = e
      BY <1>1, <1>2, <3>1
    <3> QED
      BY <3>2 DEF Holds
  <2>3. Head(q) = e => Holds(q, e)
    BY <1>1, <1>3 DEF Holds
  <2> QED
    BY <2>1, <2>2, <2>3
<1>5. Once(q, e) => Once(r, e)
  <2>1. ASSUME Once(q, e), NEW i \in 1..n, NEW j \in 1..n, r[i] = e, r[j] = e
        PROVE  i = j
    <3>1. i + 1 \in 1..Len(q) /\ j + 1 \in 1..Len(q) /\ q[i + 1] = e /\ q[j + 1] = e
      BY <1>1, <1>2, <2>1
    <3>2. i + 1 = j + 1
      BY <2>1, <3>1 DEF Once
    <3> QED
      BY <1>2, <3>2
  <2> QED
    BY <2>1 DEF Once, n
<1>6. Once(q, e) /\ Head(q) = e => ~Holds(r, e)
  <2>1. ASSUME Once(q, e), Head(q) = e, NEW i \in 1..n, r[i] = e
        PROVE  FALSE
    <3>1. i + 1 \in 1..Len(q) /\ q[i + 1] = e /\ i + 1 # 1
      BY <1>1, <1>2, <2>1
    <3>2. 1 \in 1..Len(q) /\ q[1] = e
      BY <1>1, <1>3, <2>1
    <3> QED
      BY <2>1, <3>1, <3>2 DEF Once
  <2> QED
    BY <2>1 DEF Holds, n
<1> QED
  BY <1>4, <1>5, <1>6 DEF r

\* A step that leaves the files, the rows and the profiles alone, and takes
\* back no announcement.
LEMMA FileFrame ==
    ASSUME FileInv, excuse \subseteq excuse', UNCHANGED <<file, command, perms, profile>>,
           session' # Gone /\ Clean' => session # Gone /\ session'.state = session.state,
           session' # Gone /\ Clean' /\ change'.at = "write" =>
               change' = change \/ (/\ <<session'.state, change'.row.state>> \in Moves
                                    /\ session'.state = "RESUMING" => file # Gone),
           Holds(inbox', "resume") <=> Holds(inbox, "resume"),
           Once(inbox, "resume") => Once(inbox', "resume"),
           Clean' /\ RowsAnnounced => RowsAnnounced',
           Clean' => \A p \in Profiles : Holds(pending.profile, p) /\ Uses(p) => Holds(pending'.profile, p) \/ RowsAnnounced',
           worker' = worker \/ worker'.at # "update" \/ worker'.rows = perms
    PROVE  FileInv'
<1> SUFFICES ASSUME session' # Gone, Clean'
             PROVE  HostInv' /\ FreshInv'
  BY DEF FileInv
<1>1. session # Gone /\ session'.state = session.state /\ HostInv /\ FreshInv
  BY DEF FileInv, Clean
<1>2. HostInv'
  BY <1>1 DEF HostInv
<1>3. Announced => Announced'
  BY DEF Announced, Uses
<1>4. \A x : Fresh(x) => Fresh(x)'
  BY <1>3 DEF Fresh, Content, Unreadable, Shared
<1>5. FreshInv'
  BY <1>1, <1>4 DEF FreshInv
<1> QED
  BY <1>2, <1>5

\* A step that changes the rows, and will say so.
LEMMA AnnouncedFrame ==
    ASSUME FileInv, excuse \subseteq excuse', UNCHANGED <<session, file, command, change>>,
           Holds(inbox', "resume") <=> Holds(inbox, "resume"),
           Once(inbox, "resume") => Once(inbox', "resume"),
           /\ session # Gone /\ Clean' /\ session.state \in {"READY", "RESUMING"} /\ ~Holds(inbox, "resume")
           => RowsAnnounced'
    PROVE  FileInv'
<1> SUFFICES ASSUME session' # Gone, Clean'
             PROVE  HostInv' /\ FreshInv'
  BY DEF FileInv
<1>1. session # Gone /\ HostInv /\ FreshInv
  BY DEF FileInv, Clean
<1>2. HostInv'
  BY <1>1 DEF HostInv
<1>3. FreshInv'
  BY <1>1 DEF FreshInv, Fresh, Announced
<1> QED
  BY <1>2, <1>3

\* What an event of the group becomes when it is handled or another is added.
LEMMA InboxMoves ==
    ASSUME IInv
    PROVE  /\ \A e \in Events \ {"resume"} :
                inbox' = Append(inbox, e) =>
                    /\ Holds(inbox', "resume") <=> Holds(inbox, "resume")
                    /\ Once(inbox, "resume") => Once(inbox', "resume")
                    /\ Holds(inbox', "enforce") <=> Holds(inbox, "enforce") \/ e = "enforce"
           /\ inbox # <<>> /\ inbox' = Tail(inbox) =>
                /\ Once(inbox, "resume") => Once(inbox', "resume")
                /\ Head(inbox) # "resume" => (Holds(inbox', "resume") <=> Holds(inbox, "resume"))
                /\ Head(inbox) # "enforce" => (Holds(inbox', "enforce") <=> Holds(inbox, "enforce"))
                /\ Once(inbox, "resume") /\ Head(inbox) = "resume" => ~Holds(inbox', "resume")
                /\ Head(inbox) = "resume" => Holds(inbox, "resume")
<1>1. inbox \in Seq(Events)
  BY DEF IInv, TypeInv
<1>2. ASSUME NEW e \in Events \ {"resume"}, inbox' = Append(inbox, e)
      PROVE  /\ Holds(inbox', "resume") <=> Holds(inbox, "resume")
             /\ Once(inbox, "resume") => Once(inbox', "resume")
             /\ Holds(inbox', "enforce") <=> Holds(inbox, "enforce") \/ e = "enforce"
  BY <1>1, <1>2, AppendHolds
<1>3. ASSUME inbox # <<>>, inbox' = Tail(inbox)
      PROVE  /\ Once(inbox, "resume") => Once(inbox', "resume")
             /\ Head(inbox) # "resume" => (Holds(inbox', "resume") <=> Holds(inbox, "resume"))
             /\ Head(inbox) # "enforce" => (Holds(inbox', "enforce") <=> Holds(inbox, "enforce"))
             /\ Once(inbox, "resume") /\ Head(inbox) = "resume" => ~Holds(inbox', "resume")
             /\ Head(inbox) = "resume" => Holds(inbox, "resume")
  BY <1>1, <1>3, TailHolds
<1> QED
  BY <1>2, <1>3

\* Requests and other steps that begin something leave the file alone.
LEMMA BeginningFile ==
    ASSUME IInv, FileInv, UNCHANGED <<session, perms, profile, file, command, inbox, pending, check>>,
           share' = share \/ share = Idle, excuse \subseteq excuse',
           Clean' /\ session # Gone /\ change'.at = "write" =>
               change' = change \/ (/\ <<session.state, change'.row.state>> \in Moves
                                    /\ session.state = "RESUMING" => file # Gone),
           worker' = worker \/ worker'.at # "update" \/ worker'.rows = perms
    PROVE  FileInv'
<1>1. share' = share \/ share.at = "idle"
  BY DEF Idle
<1>2. RowsAnnounced => RowsAnnounced'
  BY <1>1 DEF RowsAnnounced, Begun
<1> QED
  BY <1>2, FileFrame

\* A handler returns that neither sends a file nor prepares a command.
LEMMA ReturningFile ==
    ASSUME IInv, FileInv, UNCHANGED <<session, perms, profile, file, command, pending, check, share, change>>,
           excuse \subseteq excuse', worker'.at # "update",
           \/ inbox' = inbox
           \/ inbox # <<>> /\ inbox' = Tail(inbox) /\ Head(inbox) \notin {"enforce", "resume"}
    PROVE  FileInv'
<1>1. /\ Holds(inbox', "resume") <=> Holds(inbox, "resume")
      /\ Once(inbox, "resume") => Once(inbox', "resume")
      /\ Holds(inbox', "enforce") <=> Holds(inbox, "enforce")
  BY InboxMoves
<1>2. RowsAnnounced => RowsAnnounced'
  BY <1>1 DEF RowsAnnounced, Begun
<1> QED
  BY <1>1, <1>2, FileFrame

\* A profile changes that rows name: it is announced, or the rows cannot be
\* read, or it was created again.
LEMMA UpdateProfileFile ==
    ASSUME IInv, FileInv, NEW p \in Profiles, NEW content \in {"limited", "full", Gone}, UpdateProfile(p, content)
    PROVE  FileInv'
<1>1. /\ UNCHANGED <<session, change, check, perms, file, command, inbox, worker, share>>
      /\ profile' = [profile EXCEPT ![p] = content] /\ profile \in [Profiles -> {"limited", "full", Gone}]
      /\ pending' = [pending EXCEPT !.profile = IF profile[p] # Gone /\ content # Gone THEN Append(@, p) ELSE @]
      /\ pending \in [session : Nat, profile : Seq(Profiles)] /\ perms \in PermRows
  BY DEF UpdateProfile, SetProfile, scheduleVars, actorVars, IInv, TypeInv
<1>2. excuse \subseteq excuse' /\ (Clean' => ~(profile[p] = Gone /\ Uses(p)))
  BY DEF UpdateProfile, SetProfile, Note, Uses, Shared, Clean
<1>3. /\ pending'.profile = IF profile[p] # Gone /\ content # Gone THEN Append(pending.profile, p) ELSE pending.profile
      /\ pending.profile \in Seq(Profiles)
  BY <1>1
<1>4. /\ \A r \in Profiles : Holds(pending.profile, r) => Holds(pending'.profile, r)
      /\ profile[p] # Gone /\ content # Gone => Holds(pending'.profile, p)
  BY <1>3, AppendHolds
<1>5. RowsAnnounced' <=> RowsAnnounced
  BY <1>1 DEF RowsAnnounced, Begun
<1>6. Announced => Announced'
  BY <1>1, <1>4, <1>5 DEF Announced, Uses
<1>7. ASSUME Clean', NEW x, Fresh(x) PROVE Fresh(x)'
  <2>1. CASE Uses(p)
    <3>1. profile[p] # Gone
      BY <1>2, <1>7, <2>1
    <3>2. CASE content = Gone
      <4>1. Unreadable'
        BY <1>1, <2>1, <3>2 DEF Uses, Unreadable, Shared
      <4> QED
        BY <4>1 DEF Fresh
    <3>3. CASE content # Gone
      <4>1. Uses(p)'
        BY <1>1, <2>1 DEF Uses
      <4>2. Announced'
        BY <1>4, <3>1, <3>3, <4>1 DEF Announced
      <4> QED
        BY <4>2 DEF Fresh
    <3> QED
      BY <3>2, <3>3
  <2>2. CASE ~Uses(p)
    <3>1. \A g \in Guests : perms[g] # Gone => profile'[perms[g].profile] = profile[perms[g].profile]
      <4> SUFFICES ASSUME NEW g \in Guests, perms[g] # Gone
                   PROVE  profile'[perms[g].profile] = profile[perms[g].profile]
        OBVIOUS
      <4>1. perms[g] \in Rows /\ perms[g].profile # p
        BY <1>1, <2>2 DEF PermRows, Uses
      <4>2. perms[g].profile \in Profiles
        BY <4>1 DEF Rows
      <4> QED
        BY <1>1, <4>1, <4>2
    <3>2. Content' = Content /\ (Unreadable => Unreadable')
      BY <1>1, <3>1 DEF Content, Unreadable, Shared
    <3> QED
      BY <1>6, <1>7, <3>2 DEF Fresh
  <2> QED
    BY <2>1, <2>2
<1> SUFFICES ASSUME session' # Gone, Clean'
             PROVE  HostInv' /\ FreshInv'
  BY DEF FileInv
<1>8. session # Gone /\ HostInv /\ FreshInv
  BY <1>1, <1>2 DEF FileInv, Clean
<1>9. HostInv'
  BY <1>1, <1>8 DEF HostInv
<1>10. FreshInv'
  BY <1>1, <1>5, <1>7, <1>8 DEF FreshInv
<1> QED
  BY <1>9, <1>10

\* Edits, and operations that have read the row.
LEMMA RequestFile ==
    ASSUME IInv, FileInv, Request
    PROVE  FileInv'
<1>1. ASSUME NEW w \in Wishes, Edit(w) PROVE FileInv'
  BY <1>1, BeginningFile DEF Edit, EditBegin, Note, permissionVars, actorVars
<1>2. ASSUME NEW r \in Requests, Share(r) PROVE FileInv'
  BY <1>2, BeginningFile DEF Share, ShareBegin, scheduleVars, actorVars
<1>3. ASSUME NEW to \in {"STOPPED", "RESUMING", "DELETING"}, ChangeState(to) PROVE FileInv'
  <2> DEFINE new == [session EXCEPT !.state = to]
  <2>1. /\ session # Gone /\ change' = [at |-> "write", row |-> new] /\ excuse \subseteq excuse'
        /\ <<session.state, to>> \in Moves /\ session.state # "RESUMING"
        /\ UNCHANGED <<session, perms, profile, file, command, inbox, pending, check, share, worker>>
    BY <1>3 DEF ChangeState, Note, scheduleVars, permissionVars, Moves
  <2>2. session \in SessionRows /\ new.state = to
    BY <2>1 DEF IInv, TypeInv, SessionRows
  <2> HIDE DEF new
  <2>3. change'.row.state = to
    BY <2>1, <2>2
  <2> QED
    BY <2>1, <2>3, BeginningFile
<1>4. ASSUME DeleteStopped PROVE FileInv'
  BY <1>4, BeginningFile DEF DeleteStopped, Note, scheduleVars, permissionVars
<1> QED
  BY <1>1, <1>2, <1>3, <1>4, UpdateProfileFile DEF Request

\* An edit changes the schedules, and writes the row with the state it has.
LEMMA EditFile ==
    ASSUME IInv, FileInv,
           \/ (EditRemove \/ EditCreate) /\ UNCHANGED <<permissionVars, actorVars, bounds>>
           \/ EditSave /\ RowWritten(edit.row) /\ UNCHANGED <<perms, profile, file, command, inbox, tries,
                               worker, share, granted, actorVars, bounds>>
    PROVE  FileInv'
<1>1. CASE (EditRemove \/ EditCreate) /\ UNCHANGED <<permissionVars, actorVars, bounds>>
  BY <1>1, BeginningFile DEF EditRemove, EditCreate, permissionVars, actorVars
<1>2. CASE EditSave /\ RowWritten(edit.row) /\ UNCHANGED <<perms, profile, file, command, inbox, tries,
                               worker, share, granted, actorVars, bounds>>
  <2>1. edit.at = "save" /\ session' = edit.row /\ excuse' = excuse /\ UNCHANGED <<change, check>>
    BY <1>2 DEF EditSave, actorVars
  <2>2. Clean => session # Gone /\ session'.state = session.state
    BY <2>1 DEF IInv, WritersInv, Clean
  <2>3. pending'.profile = pending.profile
    BY <1>2 DEF RowWritten, IInv, TypeInv
  <2>4. RowsAnnounced => RowsAnnounced'
    BY <1>2, <2>1 DEF RowsAnnounced, Begun
  <2>5. Clean' <=> Clean
    BY <2>1 DEF Clean
  <2> QED
    BY <1>2, <2>1, <2>2, <2>3, <2>4, <2>5, FileFrame
<1> QED
  BY <1>1, <1>2

\* Announcements become events of the group.
LEMMA PublishFile ==
    ASSUME IInv, FileInv,
           \/ (SharePublish \/ ProfileUpdated \/ SessionUpdated) /\ UNCHANGED <<scheduleVars, actorVars, bounds>>
           \/ CheckPublish
    PROVE  FileInv'
<1>1. CASE SharePublish /\ UNCHANGED <<scheduleVars, actorVars, bounds>>
  <2>1. /\ UNCHANGED <<session, change, perms, profile, file, command, pending, worker, excuse>>
        /\ inbox' = Append(inbox, "enforce")
    BY <1>1 DEF SharePublish, Publish, scheduleVars, actorVars
  <2>2. /\ Holds(inbox', "resume") <=> Holds(inbox, "resume")
        /\ Once(inbox, "resume") => Once(inbox', "resume")
        /\ Holds(inbox', "enforce")
    BY <2>1, InboxMoves DEF Events
  <2>3. RowsAnnounced'
    BY <2>2 DEF RowsAnnounced
  <2> QED
    BY <2>1, <2>2, <2>3, FileFrame
<1>2. CASE ProfileUpdated /\ UNCHANGED <<scheduleVars, actorVars, bounds>>
  <2>1. /\ UNCHANGED <<session, change, check, perms, profile, file, command, worker, share, excuse>>
        /\ inbox' = Append(inbox, "enforce") \/ inbox' = inbox
        /\ Uses(Head(pending.profile)) => inbox' = Append(inbox, "enforce")
        /\ pending.profile # <<>> /\ pending' = [pending EXCEPT !.profile = Tail(@)]
    BY <1>2 DEF ProfileUpdated, Publish, scheduleVars, actorVars, Uses, Shared
  <2>2. /\ Holds(inbox', "resume") <=> Holds(inbox, "resume")
        /\ Once(inbox, "resume") => Once(inbox', "resume")
        /\ Holds(inbox, "enforce") => Holds(inbox', "enforce")
        /\ Uses(Head(pending.profile)) => Holds(inbox', "enforce")
    BY <2>1, InboxMoves DEF Events
  <2>3. /\ RowsAnnounced => RowsAnnounced'
        /\ Uses(Head(pending.profile)) => RowsAnnounced'
    BY <2>1, <2>2 DEF RowsAnnounced, Begun
  <2>4. pending.profile \in Seq(Profiles) /\ pending'.profile = Tail(pending.profile)
    BY <2>1 DEF IInv, TypeInv
  <2>5. \A p \in Profiles : Holds(pending.profile, p) => Holds(pending'.profile, p) \/ p = Head(pending.profile)
    BY <2>1, <2>4, TailHolds
  <2> QED
    BY <2>1, <2>2, <2>3, <2>5, FileFrame
<1>3. CASE SessionUpdated /\ UNCHANGED <<scheduleVars, actorVars, bounds>>
  <2>1. /\ UNCHANGED <<session, change, check, perms, profile, file, command, worker, share, excuse>>
        /\ inbox' = Append(inbox, "update")
        /\ pending' = [pending EXCEPT !.session = @ - 1]
    BY <1>3 DEF SessionUpdated, Publish, scheduleVars, actorVars
  <2>2. /\ Holds(inbox', "resume") <=> Holds(inbox, "resume")
        /\ Once(inbox, "resume") => Once(inbox', "resume")
        /\ Holds(inbox, "enforce") => Holds(inbox', "enforce")
    BY <2>1, InboxMoves DEF Events
  <2>3. pending'.profile = pending.profile
    BY <2>1 DEF IInv, TypeInv
  <2>4. RowsAnnounced => RowsAnnounced'
    BY <2>1, <2>2 DEF RowsAnnounced, Begun
  <2> QED
    BY <2>1, <2>2, <2>3, <2>4, FileFrame
<1>4. CASE CheckPublish
  <2>1. /\ UNCHANGED <<session, change, perms, profile, file, command, worker, pending, share, excuse>>
        /\ check.at = "expire" /\ (check.hit => inbox' = Append(inbox, "enforce"))
        /\ inbox' = Append(inbox, "enforce") \/ inbox' = inbox
    BY <1>4 DEF CheckPublish, Publish, scheduleVars
  <2>2. /\ Holds(inbox', "resume") <=> Holds(inbox, "resume")
        /\ Once(inbox, "resume") => Once(inbox', "resume")
        /\ Holds(inbox, "enforce") => Holds(inbox', "enforce")
        /\ check.hit => Holds(inbox', "enforce")
    BY <2>1, InboxMoves DEF Events
  <2>3. RowsAnnounced => RowsAnnounced'
    BY <2>1, <2>2 DEF RowsAnnounced, Begun
  <2> QED
    BY <2>1, <2>2, <2>3, FileFrame
<1> QED
  BY <1>1, <1>2, <1>3, <1>4

\* The handler that sends the broker a file.
LEMMA EnforceFile ==
    ASSUME IInv, FileInv, Enforce, UNCHANGED <<scheduleVars, actorVars, bounds>>
    PROVE  FileInv'
<1>1. /\ inbox # <<>> /\ Head(inbox) = "enforce" /\ excuse \subseteq excuse'
      /\ UNCHANGED <<session, change, check, perms, profile, command, pending, share>>
      /\ worker' = Idle /\ worker'.at = "idle"
  BY DEF Enforce, Receive, Handled, HandledBy, Raised, Note, scheduleVars, actorVars, Idle
<1>2. CASE Raised /\ file' = file
  BY <1>1, <1>2, ReturningFile DEF Raised
<1>3. CASE Handled
  <2>1. inbox' = Tail(inbox)
    BY <1>3 DEF Handled, HandledBy
  <2>2. /\ Holds(inbox', "resume") <=> Holds(inbox, "resume")
        /\ Once(inbox, "resume") => Once(inbox', "resume")
    BY <1>1, <2>1, InboxMoves
  <2>3. CASE ~Enforceable /\ file' = file
    BY <1>1, <2>2, <2>3, AnnouncedFrame DEF Enforceable
  <2>4. CASE /\ file' = IF file = Gone THEN Gone ELSE Content
             /\ Note(IF command # Gone THEN {"early"} ELSE {})
    <3> SUFFICES ASSUME session' # Gone, Clean'
                 PROVE  HostInv' /\ FreshInv'
      BY DEF FileInv
    <3>1. session # Gone /\ HostInv /\ FreshInv /\ command = Gone
      BY <1>1, <2>4 DEF FileInv, Clean, Note
    <3>2. Content # Gone /\ Content' = Content
      <4>1. Content \in Files
        BY ContentTyped DEF IInv, TypeInv
      <4> QED
        BY <1>1, <4>1, PermissionParameters DEF Files, Content
    <3>3. file' = Gone <=> file = Gone
      BY <2>4, <3>2
    <3>4. HostInv'
      BY <1>1, <2>2, <3>1, <3>3 DEF HostInv
    <3>5. FreshInv'
      BY <1>1, <2>4, <3>1, <3>2, <3>3 DEF FreshInv, Fresh
    <3> QED
      BY <3>4, <3>5
  <2> QED
    BY <1>2, <1>3, <2>3, <2>4 DEF Enforce
<1> QED
  BY <1>2, <1>3 DEF Enforce

\* The handler that prepares the command.
LEMMA ResumeCommandFile ==
    ASSUME IInv, FileInv, ResumeCommand, UNCHANGED <<scheduleVars, actorVars, bounds>>
    PROVE  FileInv'
<1>1. /\ inbox # <<>> /\ Head(inbox) = "resume" /\ excuse' = excuse
      /\ UNCHANGED <<session, change, check, perms, profile, file, pending, share>>
      /\ worker' = Idle /\ worker'.at = "idle"
  BY DEF ResumeCommand, Receive, Handled, HandledBy, Raised, scheduleVars, actorVars, Idle
<1>2. CASE Raised /\ command' = command
  BY <1>1, <1>2, ReturningFile DEF Raised
<1>3. CASE Handled /\ command' = Content
  <2>1. inbox' = Tail(inbox)
    BY <1>3 DEF Handled, HandledBy
  <2>2. /\ Holds(inbox, "resume") /\ (Once(inbox, "resume") => Once(inbox', "resume") /\ ~Holds(inbox', "resume"))
    BY <1>1, <2>1, InboxMoves
  <2> SUFFICES ASSUME session' # Gone, Clean'
               PROVE  HostInv' /\ FreshInv'
    BY DEF FileInv
  <2>3. session # Gone /\ HostInv
    BY <1>1 DEF FileInv, Clean
  <2>4. Content # Gone /\ Content' = Content
    <3>1. Content \in Files
      BY ContentTyped DEF IInv, TypeInv
    <3> QED
      BY <1>1, <3>1, PermissionParameters DEF Files, Content
  <2>5. session.state \notin {"READY", "STOPPED"}
    BY <2>2, <2>3 DEF HostInv
  <2>6. session.state = "RESUMING" => file = Gone /\ ~Holds(inbox', "resume") /\ Once(inbox', "resume")
    BY <2>2, <2>3 DEF HostInv
  <2>7. HostInv'
    BY <1>1, <1>3, <2>3, <2>4, <2>5, <2>6 DEF HostInv
  <2>8. FreshInv'
    BY <1>1, <1>3, <2>4, <2>5, <2>6 DEF FreshInv, Fresh
  <2> QED
    BY <2>7, <2>8
<1> QED
  BY <1>2, <1>3 DEF ResumeCommand

\* The handler of a new state copies rows it has read before.  If they changed
\* meanwhile, the event that says so is behind it.
LEMMA UpdateFile ==
    ASSUME IInv, FileInv, UpdateRead \/ UpdateWrite, UNCHANGED <<scheduleVars, actorVars, bounds>>
    PROVE  FileInv'
<1>1. UNCHANGED <<session, change, check, profile, file, command, pending, share, excuse>>
  BY DEF UpdateRead, UpdateWrite, scheduleVars, actorVars
<1>2. CASE UpdateRead
  <2>1. inbox # <<>> /\ Head(inbox) = "update" /\ perms' = perms
    BY <1>2 DEF UpdateRead, Receive
  <2>2. CASE Handled
    BY <1>1, <2>1, <2>2, ReturningFile DEF Handled, HandledBy, Idle
  <2>3. CASE worker' = [at |-> "update", rows |-> perms, todo |-> Shared] /\ UNCHANGED <<inbox, tries>>
    BY <1>1, <2>1, <2>3, BeginningFile
  <2> QED
    BY <1>2, <2>2, <2>3 DEF UpdateRead
<1>3. CASE UpdateWrite
  <2>1. worker.at = "update" /\ worker \in Updating /\ inbox # <<>> /\ Head(inbox) = "update"
    BY <1>3, Forms DEF UpdateWrite, IInv, QueueInv
  <2>2. PICK g \in worker.todo :
          /\ perms' = [perms EXCEPT ![g] = worker.rows[g]]
          /\ IF worker.todo = {g} THEN Handled
             ELSE worker' = [worker EXCEPT !.todo = @ \ {g}] /\ UNCHANGED <<inbox, tries>>
    BY <1>3 DEF UpdateWrite
  <2>3. inbox' = inbox \/ inbox' = Tail(inbox)
    BY <2>2 DEF Handled, HandledBy
  <2>4. /\ Holds(inbox', "resume") <=> Holds(inbox, "resume")
        /\ Once(inbox, "resume") => Once(inbox', "resume")
        /\ Holds(inbox', "enforce") <=> Holds(inbox, "enforce")
    BY <2>1, <2>3, InboxMoves
  <2>5. RowsAnnounced => RowsAnnounced'
    BY <1>1, <2>4 DEF RowsAnnounced, Begun
  <2>6. CASE worker.rows = perms
    <3>1. perms' = perms
      BY <2>2, <2>6 DEF IInv, TypeInv, PermRows
    <3>2. worker'.at # "update" \/ worker'.rows = perms
      BY <2>1, <2>2, <2>6 DEF Handled, HandledBy, Idle, Updating
    <3> QED
      BY <1>1, <2>4, <2>5, <3>1, <3>2, FileFrame
  <2>7. CASE worker.rows # perms
    <3>1. session # Gone /\ Clean' /\ session.state \in {"READY", "RESUMING"} /\ ~Holds(inbox, "resume") => RowsAnnounced'
      BY <1>1, <2>1, <2>5, <2>7 DEF FileInv, FreshInv, Clean
    <3> QED
      BY <1>1, <2>4, <3>1, AnnouncedFrame
  <2> QED
    BY <2>6, <2>7
<1> QED
  BY <1>2, <1>3

\* A request writes rows and will say so, or fails before it has written any.
LEMMA ShareWriteFile ==
    ASSUME IInv, FileInv, NEW time, NEW reading, ShareWrite(time, reading), UNCHANGED <<scheduleVars, actorVars, bounds>>
    PROVE  FileInv'
<1> DEFINE puts == {g \in share.todo : share.request[g] # Gone}
<1>1. /\ share.at = "write" /\ share \in Sharing
      /\ UNCHANGED <<session, change, check, profile, file, command, inbox, pending, worker>>
  BY Forms DEF ShareWrite, IInv, scheduleVars, actorVars
<1>2. PICK g \in (IF puts = {} THEN share.todo ELSE puts) :
        LET row == IF g \in puts THEN share.request[g] ELSE Gone
            missing == g \notin puts /\ perms[g] = Gone
        IN  /\ perms' = [perms EXCEPT ![g] = row]
            /\ share' = IF missing THEN Idle
                        ELSE [share EXCEPT !.todo = @ \ {g},
                                           !.at = IF share.todo = {g} THEN "publish" ELSE @]
            /\ Note(Midair(reading) \cup (IF missing /\ Begun THEN {"unannounced"} ELSE {}))
  BY DEF ShareWrite, Begun
<1>3. g \in share.todo /\ g \in Guests /\ share.request[g] # Keep /\ excuse \subseteq excuse'
  BY <1>1, <1>2 DEF Sharing, Note
<1> HIDE DEF puts
<1>4. CASE g \notin puts /\ perms[g] = Gone
  <2>1. perms' = perms
    BY <1>2, <1>4 DEF IInv, TypeInv, PermRows
  <2>2. Clean' => ~Begun
    BY <1>2, <1>4 DEF Clean, Note
  <2>3. Clean' /\ RowsAnnounced => RowsAnnounced'
    BY <1>1, <2>2 DEF RowsAnnounced
  <2> QED
    BY <1>1, <1>3, <2>1, <2>3, FileFrame
<1>5. CASE ~(g \notin puts /\ perms[g] = Gone)
  <2>1. share'.at \in {"write", "publish"} /\ share'.request = share.request /\ share'.todo = share.todo \ {g}
    BY <1>1, <1>2, <1>5 DEF Sharing
  <2>2. RowsAnnounced'
    BY <1>3, <2>1 DEF RowsAnnounced, Begun
  <2> QED
    BY <1>1, <1>3, <2>2, AnnouncedFrame
<1> QED
  BY <1>4, <1>5

\* The operations on the session that write its row with a new state.
LEMMA ChangeFile ==
    ASSUME IInv, FileInv, Resumed \/ ChangeWrite
    PROVE  FileInv'
<1>1. CASE Resumed
  <2> DEFINE new == [session EXCEPT !.state = "READY"]
  <2>1. /\ session # Gone /\ change' = [at |-> "write", row |-> new] /\ excuse \subseteq excuse'
        /\ session.state = "RESUMING" /\ file # Gone
        /\ UNCHANGED <<session, perms, profile, file, command, inbox, pending, check, share, worker>>
    BY <1>1 DEF Resumed, Note, scheduleVars, permissionVars
  <2>2. session \in SessionRows /\ new.state = "READY"
    BY <2>1 DEF IInv, TypeInv, SessionRows
  <2> HIDE DEF new
  <2>3. change'.row.state = "READY"
    BY <2>1, <2>2
  <2>4. <<session.state, change'.row.state>> \in Moves
    BY <2>1, <2>3 DEF Moves
  <2> QED
    BY <2>1, <2>4, BeginningFile
<1>2. CASE ChangeWrite
  <2> DEFINE to == change.row.state
  <2>1. /\ change.at = "write" /\ session' = change.row /\ change' = Idle /\ change'.at = "idle"
        /\ UNCHANGED <<perms, profile, command, share, check, worker, excuse>>
        /\ file' = IF to \in {"STOPPED", "DELETING"} THEN Gone ELSE file
        /\ RowWritten(change.row) /\ inbox \in Seq(Events)
    BY <1>2 DEF ChangeWrite, Idle, IInv, TypeInv
  <2>2. pending'.profile = pending.profile
    BY <2>1 DEF RowWritten, IInv, TypeInv
  <2> SUFFICES ASSUME Clean
               PROVE  HostInv' /\ FreshInv'
    BY <2>1 DEF FileInv, Clean
  <2>3. session # Gone /\ HostInv /\ FreshInv /\ <<session.state, to>> \in Moves
    <3>1. session # Gone
      BY <2>1 DEF IInv, WritersInv, Clean
    <3> QED
      BY <2>1, <3>1 DEF FileInv, HostInv
  <2>4. session'.state = to
    BY <2>1
  <2>5. CASE session.state = "READY"
    <3>1. to \in {"STOPPED", "DELETING"} /\ file' = Gone /\ command = Gone /\ ~Holds(inbox, "resume")
      BY <2>1, <2>3, <2>5 DEF Moves, HostInv
    <3>2. to = "STOPPED" => inbox' = inbox
      <4>1. to = "STOPPED" => inbox' = inbox \o <<>>
        BY <1>2 DEF ChangeWrite
      <4> QED
        BY <2>1, <4>1, ConcatEmptySeq
    <3> QED
      BY <2>1, <2>4, <3>1, <3>2 DEF HostInv, FreshInv
  <2>6. CASE session.state = "STOPPED"
    <3>1. to = "RESUMING" /\ file' = Gone /\ command = Gone /\ ~Holds(inbox, "resume")
      BY <2>1, <2>3, <2>6 DEF Moves, HostInv
    <3>2. inbox' = Append(inbox, "resume")
      <4>1. inbox' = inbox \o <<"resume">>
        BY <1>2, <3>1 DEF ChangeWrite
      <4> QED
        BY <2>1, <4>1, AppendIsConcat DEF Events
    <3>3. Once(inbox, "resume")
      BY <3>1 DEF Holds, Once
    <3>4. Holds(inbox', "resume") /\ Once(inbox', "resume")
      BY <2>1, <3>1, <3>2, <3>3, AppendHolds DEF Events
    <3> QED
      BY <2>1, <2>4, <3>1, <3>4 DEF HostInv, FreshInv
  <2>7. CASE session.state = "RESUMING"
    <3>1. to = "READY" /\ file' = file /\ file # Gone /\ command = Gone /\ ~Holds(inbox, "resume")
      BY <2>1, <2>3, <2>7 DEF Moves, HostInv
    <3>2. inbox' = inbox
      <4>1. inbox' = inbox \o <<>>
        BY <1>2, <3>1 DEF ChangeWrite
      <4> QED
        BY <2>1, <4>1, ConcatEmptySeq
    <3>3. HostInv'
      BY <2>1, <2>4, <3>1, <3>2 DEF HostInv
    <3>4. (RowsAnnounced' <=> RowsAnnounced) /\ (Announced' <=> Announced)
      BY <2>1, <2>2, <3>2 DEF RowsAnnounced, Announced, Begun, Uses
    <3>5. \A x : Fresh(x) => Fresh(x)'
      BY <2>1, <3>4 DEF Fresh, Content, Unreadable, Shared
    <3>6. FreshInv'
      BY <2>1, <2>3, <2>7, <3>1, <3>4, <3>5 DEF FreshInv
    <3> QED
      BY <3>3, <3>6
  <2> QED
    BY <2>3, <2>5, <2>6, <2>7 DEF Moves
<1> QED
  BY <1>1, <1>2

\* The DCV session starts with the file of the command.
LEMMA CommandRunsFile ==
    ASSUME IInv, FileInv, CommandRuns
    PROVE  FileInv'
<1>1. /\ command # Gone /\ file' = command /\ command' = Gone
      /\ UNCHANGED <<session, change, check, perms, profile, inbox, pending, share, worker, excuse>>
  BY DEF CommandRuns, scheduleVars, actorVars
<1> SUFFICES ASSUME session # Gone, Clean
             PROVE  HostInv' /\ FreshInv'
  BY <1>1 DEF FileInv, Clean
<1>2. HostInv /\ FreshInv /\ session.state \notin {"READY", "STOPPED"}
  BY <1>1 DEF FileInv, HostInv
<1>3. HostInv'
  BY <1>1, <1>2 DEF HostInv
<1>4. (RowsAnnounced' <=> RowsAnnounced) /\ (Announced' <=> Announced)
  BY <1>1 DEF RowsAnnounced, Announced, Begun, Uses
<1>5. \A x : Fresh(x) => Fresh(x)'
  BY <1>1, <1>4 DEF Fresh, Content, Unreadable, Shared
<1>6. FreshInv'
  BY <1>1, <1>2, <1>4, <1>5 DEF FreshInv
<1> QED
  BY <1>3, <1>6

\* A deletion removes rows nobody is told of, of a session that does not run.
LEMMA DeletionFile ==
    ASSUME IInv, FileInv, DeleteRead \/ HandlerDeletes \/ RequestDeletes
    PROVE  FileInv'
<1>1. CASE DeleteRead
  <2>1. /\ UNCHANGED <<session, perms, profile, file, command, pending, check, share, change>>
        /\ excuse \subseteq excuse' /\ inbox # <<>> /\ Head(inbox) = "delete"
    BY <1>1 DEF DeleteRead, Receive, Note, scheduleVars, actorVars
  <2>2. worker'.at # "update" /\ (inbox' = inbox \/ inbox' = Tail(inbox))
    BY <1>1 DEF DeleteRead, DeletionOf, Handled, HandledBy, Idle
  <2> QED
    BY <2>1, <2>2, ReturningFile
<1>2. CASE HandlerDeletes
  <2>1. UNCHANGED <<change, excuse>> /\ Deleting(worker) /\ (session' = session \/ session' = Gone)
    BY <1>2 DEF HandlerDeletes, DeletionStep, Deleting, actorVars
  <2> SUFFICES ASSUME session' # Gone, Clean
               PROVE  HostInv' /\ FreshInv'
    BY <2>1 DEF FileInv, Clean
  <2>2. session' = session /\ session.state = "DELETING" /\ change.at # "write"
    BY <2>1 DEF IInv, WritersInv, Clean
  <2> QED
    BY <2>1, <2>2 DEF HostInv, FreshInv
<1>3. CASE RequestDeletes
  <2>1. /\ UNCHANGED <<change, file, command, inbox>> /\ excuse \subseteq excuse' /\ Deleting(removal)
        /\ session' = session \/ session' = Gone
    BY <1>3 DEF RequestDeletes, DeletionStep, Deleting, Note
  <2> SUFFICES ASSUME session' # Gone, Clean'
               PROVE  HostInv' /\ FreshInv'
    BY DEF FileInv
  <2>2. Clean /\ session' = session /\ session.state = "STOPPED"
    BY <2>1 DEF IInv, WritersInv, Clean
  <2>3. HostInv
    BY <2>1, <2>2 DEF FileInv
  <2> QED
    BY <2>1, <2>2, <2>3 DEF HostInv, FreshInv
<1> QED
  BY <1>1, <1>2, <1>3

\* The check removes rows and will say so, or fails before it has removed any.
LEMMA CheckFile ==
    ASSUME IInv, FileInv, Tick \/ CheckTrigger \/ CheckExpire
    PROVE  FileInv'
<1>1. CASE Tick \/ CheckTrigger
  <2>1. /\ UNCHANGED <<session, perms, profile, file, command, inbox, pending, share, worker, change, excuse>>
        /\ check.at # "expire"
    BY <1>1 DEF Tick, CheckTrigger, scheduleVars, permissionVars, Idle
  <2>2. RowsAnnounced => RowsAnnounced'
    BY <2>1 DEF RowsAnnounced, Begun
  <2> QED
    BY <2>1, <2>2, FileFrame
<1>2. CASE CheckExpire
  <2>1. /\ check.at = "expire" /\ check \in Expiring
        /\ UNCHANGED <<session, profile, file, command, inbox, pending, share, worker, change>>
    BY <1>2, Forms DEF CheckExpire, scheduleVars, IInv
  <2>2. PICK g \in check.todo :
          /\ perms' = [perms EXCEPT ![g] = Gone]
          /\ check' = IF perms[g] = Gone THEN Again ELSE [check EXCEPT !.todo = @ \ {g}, !.hit = TRUE]
          /\ Note(Midair(DeletesRows(removal))
                  \cup (IF perms[g] = Gone /\ check.hit THEN {"unannounced"} ELSE {}))
    BY <1>2 DEF CheckExpire
  <2>3. excuse \subseteq excuse'
    BY <2>2 DEF Note
  <2>4. CASE perms[g] = Gone
    <3>1. perms' = perms
      BY <2>2, <2>4 DEF IInv, TypeInv, PermRows
    <3>2. Clean' => ~check.hit
      BY <2>2, <2>4 DEF Clean, Note
    <3>3. Clean' /\ RowsAnnounced => RowsAnnounced'
      BY <2>1, <3>2 DEF RowsAnnounced, Begun
    <3> QED
      BY <2>1, <2>3, <3>1, <3>3, FileFrame
  <2>5. CASE perms[g] # Gone
    <3>1. check'.at = "expire" /\ check'.hit = TRUE
      BY <2>1, <2>2, <2>5 DEF Expiring
    <3>2. RowsAnnounced'
      BY <3>1 DEF RowsAnnounced
    <3> QED
      BY <2>1, <2>3, <3>2, AnnouncedFrame
  <2> QED
    BY <2>4, <2>5
<1> QED
  BY <1>1, <1>2

\* The controller dies: only what was published is still announced.
LEMMA CrashFile ==
    ASSUME IInv, FileInv, Crash
    PROVE  FileInv'
<1>1. /\ UNCHANGED <<session, perms, profile, file, command, inbox, pending>>
      /\ change' = Idle /\ change'.at = "idle" /\ worker' = Idle /\ worker'.at = "idle" /\ excuse \subseteq excuse'
  BY DEF Crash, Note, Idle
<1>2. Clean' => share.at = "idle" /\ ~(check.at = "expire" /\ check.hit)
  BY DEF Crash, Note, Clean, Idle
<1>3. Clean' /\ RowsAnnounced => RowsAnnounced'
  BY <1>1, <1>2 DEF RowsAnnounced
<1> QED
  BY <1>1, <1>3, FileFrame

\* An event that was received too often is given up, which is noted unless it
\* was the deletion.
LEMMA DeadLetterFile ==
    ASSUME IInv, FileInv, DeadLetter, UNCHANGED <<scheduleVars, actorVars, bounds>>
    PROVE  FileInv'
<1>1. /\ UNCHANGED <<session, perms, profile, file, command, pending, check, share, change>>
      /\ excuse \subseteq excuse' /\ worker'.at # "update" /\ inbox' = Tail(inbox)
  BY DEF DeadLetter, Handled, HandledBy, Note, Idle, scheduleVars, actorVars
<1>2. inbox # <<>>
  BY PermissionParameters DEF DeadLetter, IInv, QueueInv
<1>3. CASE Head(inbox) = "delete"
  BY <1>1, <1>2, <1>3, ReturningFile
<1>4. CASE Head(inbox) # "delete"
  BY <1>4 DEF DeadLetter, Note, Clean, FileInv
<1> QED
  BY <1>3, <1>4

\* A running session starts with a file that says what the rows say.
LEMMA InitFile ==
    ASSUME Init, IInv
    PROVE  FileInv
<1>1. PICK start \in Starts :
        /\ session.state = start.state
        /\ file = IF start.state = "READY" THEN Content ELSE Gone
  BY DEF Init
<1>2. start.state \in {"READY", "STOPPED"}
  BY SettingsParameters
<1>3. command = Gone /\ inbox = <<>> /\ worker = Idle /\ change = Idle
  BY DEF Init
<1>4. worker.at = "idle" /\ change.at = "idle"
  BY <1>3 DEF Idle
<1>5. Content # Gone
  BY ContentTyped, PermissionParameters DEF IInv, TypeInv, Files
<1>6. ~Holds(inbox, "resume")
  BY <1>3 DEF Holds
<1>7. HostInv /\ FreshInv
  BY <1>1, <1>2, <1>3, <1>4, <1>5, <1>6 DEF HostInv, FreshInv, Fresh
<1> QED
  BY <1>7 DEF FileInv

\* Every step preserves it.
LEMMA NextFile ==
    ASSUME IInv, FileInv, [Next]_vars
    PROVE  FileInv'
<1>1. CASE Progress
  <2>1. CASE (ShareStep \/ HandlerStep) /\ UNCHANGED <<scheduleVars, actorVars, bounds>>
    <3>1. CASE ShareStep
      BY <2>1, <3>1, ShareWriteFile, PublishFile DEF ShareStep
    <3>2. CASE HandlerStep
      BY <2>1, <3>2, PublishFile, EnforceFile, ResumeCommandFile, UpdateFile, DeadLetterFile DEF HandlerStep
    <3> QED
      BY <2>1, <3>1, <3>2
  <2> QED
    BY <1>1, <2>1, EditFile, ChangeFile, CommandRunsFile, DeletionFile, CheckFile, PublishFile DEF Progress
<1>2. CASE UNCHANGED vars
  BY <1>2, BeginningFile DEF vars, scheduleVars, permissionVars, actorVars
<1> QED
  BY <1>1, <1>2, RequestFile, CrashFile DEF Next, Finished

\* When nothing is under way, the permission file of a running session says
\* what the rows and the profiles say (enforce_session_permissions): whoever
\* changes a row, a profile or the session publishes an event that is handled
\* after the change, or leaves the making of the file to a later resume.
THEOREM PermissionsHold == Spec => []PermissionsEnforced
<1>1. Spec => []FileInv
  <2>1. Init /\ IInv => FileInv
    BY InitFile
  <2>2. IInv /\ FileInv /\ [Next]_vars => FileInv'
    BY NextFile
  <2> QED
    BY <2>1, <2>2, InvariantHolds, PTL DEF Spec
<1>2. ASSUME IInv, FileInv PROVE PermissionsEnforced
  <2> SUFFICES ASSUME Quiet, session # Gone, session.state = "READY", ~Unreadable, Clean
               PROVE  file = Content
    BY DEF PermissionsEnforced, Clean
  <2>1. HostInv /\ FreshInv
    BY <1>2 DEF FileInv
  <2>2. check.at = "idle" /\ share.at = "idle" /\ inbox = <<>> /\ pending.profile = <<>>
    BY DEF Quiet, Idle
  <2>3. ~Holds(inbox, "resume") /\ ~Holds(inbox, "enforce") /\ \A p \in Profiles : ~Holds(pending.profile, p)
    BY <2>2 DEF Holds
  <2>4. ~Announced
    BY <2>2, <2>3 DEF Announced, RowsAnnounced
  <2> QED
    BY <2>1, <2>3, <2>4 DEF HostInv, FreshInv, Fresh
<1> QED
  BY <1>1, <1>2, InvariantHolds, PTL

=============================================================================
