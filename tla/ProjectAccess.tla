---------------------------- MODULE ProjectAccess ----------------------------
(***************************************************************************)
(* The cluster manager's projects: the requests of ProjectsService and     *)
(* AccountsService, the task queue (TaskManager) with the project tasks,   *)
(* and, from DirectorySync, the synchronisation from the directory.        *)
(*                                                                          *)
(* A node has one task executor (MAX_WORKERS = 1), and the requests run in *)
(* the threads of the server.  Overlap says whether the fan-outs of a      *)
(* request, of a project task and of the synchronisation may interleave:   *)
(* they do when a user is activated or a project deleted during a task,    *)
(* or when there are several nodes.                                         *)
(***************************************************************************)
EXTENDS DirectorySync

CONSTANTS
    Overlap,            \* fan-outs of different actors may interleave
    GroupChoices,       \* the ldap_groups that requests give a project
    UserChoices,        \* the users that requests give a project
    ActiveUsers,        \* the users who have logged in before
    OldGroups,          \* the groups the directory has had for long
    MaxReceive,         \* max_receive_count of the task queue, 30
    MaxEvents           \* bound: requests, changes of the directory, synchronisations

ASSUME AccessParameters ==
    /\ Overlap \in BOOLEAN
    /\ GroupChoices \subseteq SUBSET Groups
    /\ UserChoices \subseteq (SUBSET Users) \cup {Unset}
    /\ ActiveUsers \subseteq Users /\ OldGroups \subseteq Groups
    /\ MaxReceive \in Nat \ {0}
    /\ {MaxEvents, MaxFaults} \subseteq Nat

VARIABLES
    tasks,      \* the project's message group in the task queue
    recent,     \* the content hashes SQS has seen in the last five minutes
    tries,      \* receives of the oldest task
    events      \* requests, changes of the directory and synchronisations so far

queueVars == <<tasks, recent, tries>>
vars == <<tables, todo, excuse, directoryVars, queueVars, events>>

Idle(a) == todo[a] = <<>>

Rest == tasks = <<>> /\ \A a \in Actors : Idle(a)

(* Requests about a project only write its row and send a task.              *)
Light == {"store", "send"}
Fanning(a) ==
    \/ \E i \in DOMAIN todo[a] : todo[a][i].op \notin Light
    \/ a = "projects" /\ tries > 0          \* begun, and not finished
MayFan(a) == Overlap \/ \A b \in Actors \ {a} : ~Fanning(b)

(* The access the project's row and the memberships call for.                *)
Entitled(u) ==
    IF project.state # "enabled" THEN {}
    ELSE {g \in project.groups : u \in members[g]} \cup (IF u \in Named THEN {Self} ELSE {})

(* A deployed cluster: the directory was synchronised, though it may have    *)
(* got new users or groups since, some users have logged in, and there is    *)
(* no project yet, or one that was enabled.                                  *)
Init ==
    /\ ad = [groups |-> Groups, of |-> [u \in Users |-> Groups], renamed |-> {}]
    /\ \E here \in {Users, ActiveUsers}, G \in {Groups, OldGroups} :
        /\ group = [g \in Groups |-> IF g \in G THEN "enabled" ELSE "none"]
        /\ user = [u \in Users |-> IF u \in here
                                   THEN [enabled |-> TRUE, active |-> u \in ActiveUsers, groups |-> G]
                                   ELSE NoRow]
        /\ members = [g \in Groups |-> IF g \in G THEN ActiveUsers ELSE {}]
        /\ homes = here
        /\ synced = IF here = Users /\ G = Groups THEN "yes" ELSE "no"
        /\ \/ /\ project = [state |-> "none", groups |-> {}, users |-> Unset]
              /\ links = {}
              /\ access = [u \in Users |-> {}]
           \/ /\ project \in [state : {"enabled"}, groups : {G}, users : UserChoices]
              /\ links = G
              /\ access = [u \in Users |-> Entitled(u)]
    /\ todo = [a \in Actors |-> <<>>]
    /\ excuse = {}
    /\ tasks = <<>> /\ recent = {} /\ tries = 0
    /\ faults = 0 /\ events = 0

-----------------------------------------------------------------------------
(* Requests.                                                                 *)

Event == events < MaxEvents /\ events' = events + 1

Call == /\ Idle("api")
        /\ Event
        /\ UNCHANGED <<ad, homes, faults, queueVars>>

Undisturbed == UNCHANGED synced
Disturbed == synced' = "no"

Plan(steps) == todo' = [todo EXCEPT !["api"] = steps]

SetState(s) == [op |-> "store", state |-> s, send |-> <<[kind |-> s]>>]

(* create_project: the groups are looked up in the directory, but nobody     *)
(* looks at the answer; the users are not looked up.                         *)
CreateProject(G, U) ==
    /\ Call /\ Undisturbed
    /\ project.state = "none"
    /\ project' = [state |-> "disabled", groups |-> G, users |-> U]
    /\ Plan(<<SetState("enabled")>>)
    /\ UNCHANGED <<user, group, members, links, access, excuse>>

(* update_project: what was added and removed is computed only for a list    *)
(* that is not empty; the row gets the empty list all the same.              *)
UpdateProject(G, U) ==
    /\ Call /\ Undisturbed
    /\ Exists
    /\ LET named == IF U = Unset THEN {} ELSE U
           added == IF G = {} THEN {} ELSE G \ project.groups
           removed == IF G = {} THEN {} ELSE project.groups \ G
           usersAdded == named \ Named
           usersRemoved == IF named = {} THEN {} ELSE Named \ named
           task == [kind |-> "updated", added |-> added, removed |-> removed,
                    usersAdded |-> usersAdded, usersRemoved |-> usersRemoved]
           changed == added \cup removed \cup usersAdded \cup usersRemoved # {}
       IN  /\ added \subseteq Known /\ usersAdded \subseteq Rows
           /\ Plan(<<[op |-> "store", groups |-> G, users |-> U,
                      send |-> IF changed THEN <<task>> ELSE <<>>]>>)
           /\ excuse' = IF \/ G = {} /\ project.groups # {}
                           \/ U = {} /\ Named # {}
                        THEN excuse \cup {"silent"} ELSE excuse
    /\ UNCHANGED tables

EnableProject ==
    /\ Call /\ Undisturbed
    /\ Exists
    /\ Plan(<<SetState("enabled")>>)
    /\ UNCHANGED <<tables, excuse>>

DisableProject ==
    /\ Call /\ Undisturbed
    /\ Exists
    /\ Plan(<<SetState("disabled")>>)
    /\ UNCHANGED <<tables, excuse>>

(* delete_project, of a project without sessions and software stacks: the    *)
(* rows of named users stay.                                                 *)
DeleteProject ==
    /\ Call /\ Undisturbed /\ MayFan("api")
    /\ Exists
    /\ Plan(ForEach([g \in links |-> GroupRemoved(g)]) \o <<[op |-> "drop_project"]>>)
    /\ UNCHANGED <<tables, excuse>>

(* Mutant: the check for active users is not bypassed.                       *)
ActivateUserChecked(u) ==
    /\ Call /\ Disturbed /\ MayFan("api")
    /\ user[u] # NoRow /\ user[u].enabled /\ ~user[u].active
    /\ Plan(Tried([g \in user[u].groups |-> AddToGroup(u, g, FALSE)]) \o <<[op |-> "set_active", u |-> u]>>)
    /\ UNCHANGED <<tables, excuse>>

(* modify_user and activate_user: with the groups the row has now; a group   *)
(* that cannot be joined is skipped.                                         *)
ActivateUser(u) ==
    /\ Call /\ Disturbed /\ MayFan("api")
    /\ user[u] # NoRow /\ user[u].enabled /\ ~user[u].active
    /\ Plan(Tried([g \in user[u].groups |-> AddToGroup(u, g, TRUE)]) \o <<[op |-> "set_active", u |-> u]>>)
    /\ UNCHANGED <<tables, excuse>>

EnableUser(u) ==
    /\ Call /\ Disturbed
    /\ user[u] # NoRow /\ ~user[u].enabled
    /\ user' = [user EXCEPT ![u].enabled = TRUE]
    /\ UNCHANGED <<group, members, project, links, access, todo, excuse>>

DisableUser(u) ==
    /\ Call /\ Disturbed
    /\ user[u] # NoRow /\ user[u].enabled
    /\ user' = [user EXCEPT ![u].enabled = FALSE]
    /\ UNCHANGED <<group, members, project, links, access, todo, excuse>>

EnableGroup(g) ==
    /\ Call /\ Disturbed
    /\ group[g] = "disabled"
    /\ group' = [group EXCEPT ![g] = "enabled"]
    /\ UNCHANGED <<user, members, project, links, access, todo, excuse>>

DisableGroup(g) ==
    /\ Call /\ Disturbed
    /\ group[g] = "enabled"
    /\ group' = [group EXCEPT ![g] = "disabled"]
    /\ UNCHANGED <<user, members, project, links, access, todo, excuse>>

-----------------------------------------------------------------------------
(* The steps of the requests that are not UserProjects' or DirectorySync's.  *)

(* ProjectsDAO.update_project: only an existing row is written.  An update    *)
(* is followed by its task if the row it returns is enabled.  The list of    *)
(* groups may bring back one that the synchronisation has taken away since   *)
(* the request read the row.                                                 *)
BroughtBack ==
    /\ "groups" \in DOMAIN Cur("api")
    /\ LET task == Cur("api").send
           added == IF task = <<>> THEN {} ELSE task[1].added
       IN  ~ (Cur("api").groups \subseteq project.groups \cup added)

Store ==
    /\ At("api", "store")
    /\ IF ~Exists THEN RaiseOther("api") /\ UNCHANGED project
       ELSE /\ project' = IF "state" \in DOMAIN Cur("api")
                          THEN [project EXCEPT !.state = Cur("api").state]
                          ELSE [project EXCEPT !.groups = Cur("api").groups,
                                               !.users = IF Cur("api").users = Unset THEN @
                                                         ELSE Cur("api").users]
            /\ Continue("api", IF "state" \in DOMAIN Cur("api") \/ project.state = "enabled"
                               THEN [i \in DOMAIN Cur("api").send |->
                                        [op |-> "send", task |-> Cur("api").send[i]]]
                               ELSE <<>>)
    /\ excuse' = excuse
           \cup (IF /\ project.state = "disabled" /\ tasks # <<>>
                   /\ (project.groups \ project'.groups) \cup (Named \ Named') # {}
                 THEN {"overtaken"} ELSE {})
           \cup (IF BroughtBack THEN {"stale"} ELSE {})
    /\ UNCHANGED <<user, group, members, links, access, directoryVars, queueVars, events>>

(* TaskManager.send: an update has no deduplication id of its own, so SQS    *)
(* drops one with the content of another of the last five minutes.           *)
Send ==
    /\ At("api", "send")
    /\ LET t == Cur("api").task
       IN  IF t.kind = "updated" /\ t \in recent
           THEN excuse' = excuse \cup {"deduped"} /\ UNCHANGED <<tasks, recent>>
           ELSE /\ tasks' = Append(tasks, t)
                /\ recent' = IF t.kind = "updated" THEN recent \cup {t} ELSE recent
                /\ UNCHANGED excuse
    /\ Done("api")
    /\ UNCHANGED <<tables, directoryVars, tries, events>>

DropProject ==
    /\ At("api", "drop_project")
    /\ project' = [project EXCEPT !.state = "deleted"]
    /\ Done("api")
    /\ UNCHANGED <<user, group, members, links, access, excuse, directoryVars, queueVars, events>>

SetActive ==
    /\ At("api", "set_active")
    /\ IF user[Cur("api").u] = NoRow THEN UNCHANGED user
       ELSE user' = [user EXCEPT ![Cur("api").u].active = TRUE]
    /\ Done("api")
    /\ UNCHANGED <<group, members, project, links, access, excuse, directoryVars, queueVars, events>>

-----------------------------------------------------------------------------
(* TaskManager.                                                              *)

(* invoke() of the three project tasks.                                      *)
Invoke(t) ==
    CASE t.kind = "enabled" -> ProjectEnabled
      [] t.kind = "disabled" -> ProjectDisabled
      [] t.kind = "updated" /\ project.state = "enabled" ->
             ForEach([u \in t.usersRemoved |-> DeleteUserProject(u, Self)])
             \o ForEachThen([g \in t.removed |-> GroupRemoved(g)], [op |-> "refresh"])
             \o ForEach([u \in t.usersAdded |-> CreateUserProject(u, Self)])
             \o ForEach([g \in t.added |-> GroupAdded(g)])
      [] t.kind = "updated" /\ project.state # "enabled" -> <<>>

Unreadable(t) ==
    \/ ~Exists                                      \* project is None
    \/ t.kind = "disabled" /\ project.users = Unset \* project['users']

(* Mutant: a task is received without limit.                                 *)
StartTaskAgain ==
    /\ Idle("projects") /\ MayFan("projects")
    /\ tasks # <<>>
    /\ tries' = tries + 1
    /\ todo' = [todo EXCEPT !["projects"] =
           IF Unreadable(Head(tasks)) THEN <<>>
           ELSE Invoke(Head(tasks)) \o <<[op |-> "delete_message"]>>]
    /\ UNCHANGED <<tables, excuse, directoryVars, tasks, recent, events>>

(* The task of an update adds what was added when the update was requested:  *)
(* also a group that the synchronisation has taken out of the project since, *)
(* and that no later update removes.                                         *)
LinksAgain(t) ==
    LET sends == {i \in DOMAIN todo["api"] : todo["api"][i].op = "send"}
        later == {tasks[i] : i \in 2 .. Len(tasks)} \cup {todo["api"][i].task : i \in sends}
    IN  \E g \in t.added \ project.groups :
            \A s \in later : s.kind = "updated" => g \notin s.removed

(* execute_task.  A task that raised, or whose executor died, is received    *)
(* again after its visibility timeout.                                       *)
StartTask ==
    /\ Idle("projects") /\ MayFan("projects")
    /\ tasks # <<>> /\ tries < MaxReceive
    /\ tries' = tries + 1
    /\ LET t == Head(tasks)
       IN  /\ todo' = [todo EXCEPT !["projects"] =
                  IF Unreadable(t) THEN <<>> ELSE Invoke(t) \o <<[op |-> "delete_message"]>>]
           /\ excuse' = excuse
                  \cup (IF /\ t.kind = "updated" /\ project.state = "disabled"
                          /\ t.removed \cup t.usersRemoved # {}
                        THEN {"overtaken"} ELSE {})
                  \cup (IF t.kind = "updated" /\ project.state = "enabled" /\ LinksAgain(t)
                        THEN {"stale"} ELSE {})
    /\ UNCHANGED <<tables, directoryVars, tasks, recent, events>>

DeleteMessage ==
    /\ At("projects", "delete_message")
    /\ tasks' = Tail(tasks)
    /\ tries' = 0
    /\ Done("projects")
    /\ UNCHANGED <<tables, excuse, directoryVars, recent, events>>

DeadLetter ==
    /\ Idle("projects")
    /\ tries = MaxReceive
    /\ tries' = 0
    /\ tasks' = Tail(tasks)
    /\ excuse' = excuse \cup {"dropped"}
    /\ UNCHANGED <<tables, todo, directoryVars, recent, events>>

(* Five minutes pass, which only a later request would notice.               *)
Forget ==
    /\ recent # {}
    /\ Idle("api") /\ events < MaxEvents
    /\ recent' = {}
    /\ UNCHANGED <<tables, todo, excuse, directoryVars, tasks, tries, events>>

(* SyncFromAD, once an hour.                                                 *)
StartSync ==
    /\ Idle("sync") /\ MayFan("sync")
    /\ Event
    /\ todo' = [todo EXCEPT !["sync"] = <<[op |-> "sync_groups"]>>]
    /\ synced' = "running"
    /\ UNCHANGED <<tables, excuse, ad, homes, faults, queueVars>>

(* Only the synchronisation reads the directory: it is enough that it        *)
(* changes before and during one, while the others are idle.                 *)
ChangeDirectory ==
    /\ Event
    /\ Idle("api") /\ Idle("projects")
    /\ events + 1 < MaxEvents \/ ~Idle("sync")
    /\ \E new \in DirectoryChanges : DirectoryChange(new)
    /\ UNCHANGED queueVars

(* The cluster manager dies.  A project task is received again; what a       *)
(* request or the synchronisation had begun is not taken up by anyone.       *)
Crash ==
    /\ \E a \in Actors : ~Idle(a)
    /\ faults < MaxFaults
    /\ faults' = faults + 1
    /\ todo' = [a \in Actors |-> <<>>]
    /\ excuse' = IF Idle("api") /\ Idle("sync") THEN excuse ELSE excuse \cup {"interrupted"}
    /\ synced' = "no"
    /\ UNCHANGED <<tables, ad, homes, queueVars, events>>

-----------------------------------------------------------------------------
Request ==
    \/ \E G \in GroupChoices, U \in UserChoices : CreateProject(G, U) \/ UpdateProject(G, U)
    \/ EnableProject \/ DisableProject \/ DeleteProject
    \/ \E u \in Users : ActivateUser(u) \/ EnableUser(u) \/ DisableUser(u)
    \/ \E g \in Groups : EnableGroup(g) \/ DisableGroup(g)

Step(a) ==
    \/ UserProjectsStep(a) /\ UNCHANGED <<directoryVars, queueVars, events>>
    \/ DirectoryStep(a) /\ UNCHANGED <<queueVars, events>>

Progress ==
    \/ \E a \in Actors : Step(a)
    \/ Store \/ Send \/ DropProject \/ SetActive
    \/ StartTask \/ DeleteMessage \/ DeadLetter

(* The bound is reached and nothing is under way.  In any other state        *)
(* something can happen.                                                     *)
Finished == Rest /\ events = MaxEvents /\ UNCHANGED vars

Next ==
    \/ Request \/ Progress \/ Forget \/ StartSync \/ ChangeDirectory \/ Crash
    \/ Finished

Spec == Init /\ [][Next]_vars

-----------------------------------------------------------------------------
TypeOK ==
    /\ user \in [Users -> {NoRow} \cup [enabled : BOOLEAN, active : BOOLEAN, groups : SUBSET Groups]]
    /\ group \in [Groups -> {"none", "enabled", "disabled"}]
    /\ members \in [Groups -> SUBSET Users]
    /\ project \in [state : {"none", "enabled", "disabled", "deleted"},
                    groups : SUBSET Groups, users : (SUBSET Users) \cup {Unset}]
    /\ links \subseteq Groups
    /\ access \in [Users -> SUBSET (Groups \cup {Self})]
    /\ DOMAIN todo = Actors
    /\ excuse \subseteq {"silent", "overtaken", "deduped", "dropped", "orphaned",
                         "missed", "unhoused", "interrupted", "stale"}
    /\ ad \in [groups : SUBSET Groups, of : [Users -> {NoRow} \cup SUBSET Groups],
               renamed : SUBSET Users]
    /\ homes \subseteq Users
    /\ synced \in {"no", "running", "yes"}
    /\ tries \in 0..MaxReceive
    /\ faults \in 0..MaxFaults

(* When nothing is under way, every user has exactly the access that the     *)
(* project's row and the memberships call for, and the links are the         *)
(* project's groups; a deleted project leaves at most the rows of the users  *)
(* it named.  So it is in whatever order requests, tasks and the             *)
(* synchronisation changed them, and although the executor crashed and tasks *)
(* were run twice.  The exceptions are those the history names               *)
(* (UserProjectsDAO, project tasks).                                         *)
AccessIsExact ==
    Rest /\ excuse \subseteq {"missed", "unhoused"} =>
        /\ links = IF project.state = "enabled" THEN project.groups ELSE {}
        /\ \A u \in Users :
              access[u] = Entitled(u) \/ (project.state = "deleted" /\ access[u] = {Self})

(* After a synchronisation that nothing disturbed, and that has come to its  *)
(* end, the rows of enabled users and groups say what the directory says,    *)
(* and every user has had a home directory requested.  A user whose common   *)
(* name is not its account name is not created and not added to groups; if   *)
(* nothing failed, everybody else has a row and every group is there.        *)
DirectoryIsMirrored ==
    Rest /\ synced = "yes" /\ excuse = {} =>
        /\ Rows \subseteq InDirectory /\ Rows \subseteq homes
        /\ faults = 0 => /\ InDirectory \subseteq Rows \cup ad.renamed
                         /\ Known = ad.groups
        /\ \A u \in Rows, g \in Known :
              user[u].enabled /\ group[g] = "enabled" =>
                  /\ g \in user[u].groups => g \in ad.of[u]
                  /\ g \in ad.of[u] => g \in user[u].groups \/ u \in ad.renamed

(* An active user is a member of exactly the groups its row notes, an         *)
(* inactive one of none, and nobody else is a member.                        *)
MembershipsMatchRows ==
    Rest /\ excuse \cap {"missed", "orphaned", "interrupted"} = {} =>
        \A g \in Known, u \in Users :
            u \in members[g] <=> u \in Rows /\ user[u].active /\ g \in user[u].groups
=============================================================================
