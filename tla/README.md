# Verification of the RES virtual desktop controller and cluster manager

TLA+ specifications of the control logic in `src/containres`: the virtual
desktop controller (`ideavirtualdesktopcontroller`), the cluster manager
(`ideaclustermanager`) and the library both are built on (`ideasdk`). All of the
following is specified and model-checked: the life of a virtual desktop session, the
event queue with its threads, the nodes of the cluster manager, projects and
directory synchronisation, the settings of a session, and snapshots. Every safety
property of a session, of the event queue, of the nodes, of the settings of a session and
of snapshots is also proved for all values of the constants (some of a session's under the
conditions section 6 names), and so are three of the four about projects.
What is left is inventoried below and planned in section 9.

## 1. The system

| Part | State it keeps | Operations | What makes it correct |
|---|---|---|---|
| Session operations (`app/sessions/virtual_desktop_session_utils.py`) | none of their own; rows in DynamoDB | create, stop, resume, reboot, terminate | a session in a transitional state is always driven out of it; the host is released when, and only when, the session is terminated |
| Tables (`sessions/*_db.py`, `servers/*_db.py`) | session row, host row, session counters | create, unconditional update, delete | a deleted session does not come back |
| Host operations (`servers/virtual_desktop_server_utils.py`) | host row, EC2 instance | provision, start, stop, hibernate, reboot, terminate | row and instance agree |
| Event handlers (`events/handlers/...`) | none | one handler per event type | a handler that is run again finishes what it began |
| Event publishing and consumption (`events/*`) | FIFO queue with one message group per session; controller queue (standard) | publish, receive, delete on return, receive again on an exception | every event is handled or is visibly given up; a group is handled in order |
| DCV broker client, SSM commands | the broker's sessions; command rows | create, describe, delete; send command | an answer that is late is not taken for a new one |
| Schedules, permissions | schedules, session permissions and profiles tables; the permission file of the DCV session | edit, share, expire, check every half hour, delete with the session | the table holds what the last edit asked for; the file says what the rows say; a deleted session leaves nothing |
| Software stacks | table of their own | create a stack from a session | not modelled, but for snapshots |
| Distributed lock, leader election (`ideasdk`) | lock table lease | acquire, release, heartbeat | at most one leader; a leader after a crash |
| Thread pool (`ideasdk/thread_pool`) | the threads it started, the ones it counts on | scale up/down, stop | no message is handled by no thread; no thread is forgotten |
| Stream subscription, cluster configuration | shard iterators, settings cache | poll, apply | the cache catches up with the table; not modelled |
| Password of the directory (`ad_automation_agent.py`) | the directory, the secrets manager | reset when expired, under a lock | both have the same password; no reset without need |
| Tasks, projects, accounts, directory sync (`ideaclustermanager`) | users, groups, members, projects, the reasons for a user's access in `user_projects` | enable/disable, activate, sync, add/remove members | everybody has exactly the access the project and the memberships call for; a repeated task changes nothing |
| Snapshots (`ideaclustermanager/app/snapshots`) | rows of snapshots, metadata file, imported tables, records of applications | create, list, apply, roll back | the recorded status says what became of the snapshot |
| Web portal, notifications, e-mail templates, shared file systems | none that a protocol depends on | rendering, validation, I/O | not modelled |

How the parts interact. An API thread runs a session operation: it reads the
session's row, calls the DCV broker or EC2, writes the row and publishes an
event into the session's message group. A handler thread receives the events of
the group one at a time and does the next part of the work. EC2 state changes
and SSM command statuses come back through SNS and the controller queue, where
`ControllerQueueMonitorService` finds the session they are about and publishes
them into its group. The host itself publishes `DCV_HOST_READY` and
`DCV_HOST_REBOOT_COMPLETE` when it boots. Changed rows of the session and permission
profile tables come back as events too, and end in a new permission file.

A node of the cluster manager answers requests in the threads of its server, and
runs one task at a time from a FIFO queue. A request about a project writes its
row and sends a task; the task, the activation of a user and the hourly
synchronisation from the directory each rewrite the derived `user_projects` rows,
one small write after the other. Nodes meet in the lock table, where they elect the leader and
take turns at the directory's password. Snapshots are exported, and applied, by
threads that a request starts and that nobody takes up again after a crash.

What is hard about it. No lock protects a session; `update` writes the whole row
from what was read before the remote calls, without a condition, and creates a
row that is gone. A session moves on only if the next event is published,
delivered and handled: nothing sweeps for stuck sessions. SQS drops bodies it
has seen in the last five minutes; the controller queue is not ordered; a
handler that raises is run again from the start. A handler slower than the
visibility timeout runs twice. Derived tables are kept by reading, changing and
writing back, without a condition or a lock, over many steps of which any may be the last.
`PROJECT.json` lists the hazards line by line, each with the properties that would catch it, or
with a note on why none does.

The web application (`src/webapp`), the deployment code (`src/res`,
`src/infra`) and the generated broker client are left out, except that the
queues' settings (FIFO, content based deduplication, redrive) are read from the
CDK stack.

## 2. Modules

| Modules | Subject |
|---|---|
| `VirtualDesktopSession`, `VirtualDesktopSession_proofs`, `SerialSession_proofs`, `UndisturbedSession_proofs` | one session: its operations, handlers and surroundings; theorems whatever overlaps, when operations do not overlap, and when nothing else disturbs the session either |
| `OrderedDelivery`, `EventQueue`, `EventQueue_proofs` | what handlers may rely on; the queue, the handler threads and their pool, which implement it; the proof that they do |
| `DistributedLock`, `ClusterManagerNodes`, `ClusterManagerNodes_proofs` | the lock service; the nodes that elect a leader and reset the directory's password with it; theorems about both |
| `UserProjects`, `DirectorySync`, `ProjectAccess`, `ProjectAccess_proofs` | access to a project; users, groups and their synchronisation; requests and tasks, which compose the two; theorems about all three |
| `SessionSchedules`, `SessionPermissions`, `SessionSettings`, `SessionSettings_proofs` | a session's schedule; its guests; everything that reads and writes both; theorems about it |
| `SnapshotExport`, `ApplySnapshot`, `Snapshots`, `Snapshots_proofs` | taking snapshots; applying them; the two together; theorems about each |

`MC...` modules give the constants that a `.cfg` file cannot express. The five groups
after the first share no variables with `VirtualDesktopSession`: each takes what it needs
of the others as an abstraction (in `EventQueue` a handler succeeds, fails or rejects;
in `SessionSettings` a lifecycle operation reads the row and writes a new state).

### `VirtualDesktopSession`: state

| Variable | Code |
|---|---|
| `row` | the session's row in the sessions table: `state`, and whether `dcv_session_id` is set |
| `server` | the `state` of the host's row in the servers table |
| `counters` | the session counters table: creation attempts, validation attempts, resumed checks |
| `queue`, `recent` | the session's message group in the FIFO events queue; the bodies SQS takes for duplicates |
| `act` | for every API thread and for the group's handler: the operation, where in it, the row it read, the `force` flag and the broker's answer |
| `ec2`, `host`, `alive`, `dcv` | the instance, its operating system, the DCV session on it and the broker's view of that session |
| `ssm`, `notif` | commands and their rows; EC2 and SSM notifications on their way through SNS and the controller queue |
| `budget`, `asked` | how often the environment acted; whether anybody ever asked for the termination |

### `VirtualDesktopSession`: actions

An operation is cut where another may run in between: after it read the row,
after each remote call, after each write and before the publish. For
`stop_sessions` that gives `ApiStop` (checks and read), `BrokerDelete`
(`delete_sessions`), `StopWrite` (state `STOPPING`) and `PublishDeletion`.
Handlers call `stop_sessions`, `resume_sessions` and `terminate_sessions` too;
`StopRead`, `ResumeRead` and `TerminateRead` are their entries. Handlers that
change nothing in between are one action. `Return` deletes the handled message,
`Raise` leaves it at the head of the group; an update of a missing row writes
the row and raises, as the code does when it compares with the old row.

| Code | Actions |
|---|---|
| `create_session` | `CreateProvision`, `CreateWrite` |
| `stop_sessions`, `_stop_dcv_sessions` | `ApiStop`, `StopRead`, `BrokerDelete`, `StopWrite`, `PublishDeletion` |
| `resume_sessions` | `ApiResume`, `ResumeRead`, `ResumeHost`, `ResumeWrite` |
| `reboot_sessions` | `ApiReboot`, `RebootWrite`, `RebootHost` |
| `terminate_sessions` | `ApiTerminate`, `TerminateRead`, `BrokerDelete`, `TerminateWrite`, `PublishDeletion`, `TerminateStoppedHost`, `TerminateDelete` |
| `DCVHostReadyEventHandler` | `HandleHostReady`, `ReadyCreate`, `ReadyWrite`, `ReadyPublish` |
| `DCVHostRebootCompleteEventHandler` | `HandleRebootComplete`, `HandleRebootCompleteByController`, `RebootedDescribe`, `RebootedResume`, `RebootedRecord` |
| `EC2StateChangeEventHandler` | `HandleEc2Stopping`, `HandleEc2Stopped`, `Ec2StopWrite`, `HandleEc2Running` |
| `ValidateDCVSessionCreationEventHandler` | `HandleValidateCreation`, `ValidateCreationDescribe`, `ValidateCreationWrite` |
| `ValidateDCVSessionDeletionEventHandler` | `HandleValidateDeletion`, `ValidateDeletionDescribe`, `ContinueDelete`, `ContinueDeleteHost`, `ContinueStop` |
| resume and CPU command statuses | `HandleResumeSuccess`, `ResumeSuccessPublish`, `HandleResumeFailed`, `HandleResumeOther`, `ResumeStatusWrite`, `HandleCpuSuccess`, `HandleCpuOther` |
| scheduled and forced events | `HandleScheduledResume`, `HandleScheduledStop`, `CpuRecord`, `HandleTerminate` |
| `ControllerQueueMonitorService` | `Route` |
| schedule tick, disabled user | `TriggerSchedule`, `UserDisabled` |
| exceptions and crashes | `Fail` |
| EC2, host, broker, SSM, SQS (external) | `Ec2Settles`, `HostUp`, `Outage`, `BrokerWorks`, `BrokerNotices`, `CommandEnds`, `DedupExpires` |

An API call that its own checks reject changes nothing and has no action. A
session is created once: its identifier is a fresh UUID. Whether a client is
connected is not modelled; an unforced deletion is accepted or refused. The
number of times a message is received is not bounded here; `EventQueue` bounds it.

### `EventQueue` implements `OrderedDelivery`

`queue`, `holder` and `receives` are SQS: per message group the messages it keeps,
the thread whose receipt for the oldest one is valid, and the receives counted
towards the dead letter queue. `thread` is an `EventsHandlerThread`: polling,
handling a message, or about to delete it. `all`, `active` and `exit` are
`_all_threads`, `_active_threads` and the threads' exit events. `published`,
`outcome` and `succeeded` are history.

`Receive`, `HandlerReturns`, `HandlerRejects` (bad checksum, unknown type, a sender
that is not accepted: deleted without effect), `HandlerRaises` and `Delete` are the
loop of a thread; `AdjustThreadCounts` is one round of `_monitor_queue` and
`_enforce_thread_count`; `StopPool`, `StopThread` and `StopEnds` are `stop()`, which
tells the threads to exit and joins them. `TimeoutWhileBusy` ends the visibility
timeout of a message that is still being handled; `Crash` and `Start` replace the process.

`Delivery == INSTANCE OrderedDelivery WITH acted <- {m : succeeded[m] > 0}`: messages
of a group take effect for the first time in order, none is deleted as done that no
handler carried out. This is what lets `VirtualDesktopSession` and
`SessionPermissions` treat a session's group as a sequence served by one handler,
as long as no handler outlives its timeout.

### `DistributedLock` and `ClusterManagerNodes`

`row` is the lock table, `beating` the leases the lock client keeps alive,
`locks` the `_active_locks` of a node. Each node has three threads: `loop`
(`LeaderElection.loop`), `agent` (`ADAutomationAgent`) and `main`, which runs
`SocaApp.stop`: the services stop one after the other, and
`DistributedLock.stop` raises when it still holds a lock, as it removes from the
dictionary it iterates over. The agent checks the age, acquires the lock, checks again, changes
the password up to `MaxRetries` times, saves the secret and releases. `provider` is
`directoryservice.provider`: of a directory that AWS does not manage `change_password` changes
nothing, and the secret is overwritten all the same. `AgentRaises` is every other exception, of the second check, of
the change or of `update_root_password`, before or after its effect: the `finally` clause
releases the lock, and nothing is made up for.

### `UserProjects`, `DirectorySync` and `ProjectAccess`

An operation that fans out into many writes is a plan: `todo[a]` is the sequence of
database steps that actor `a` (a request, the executor with a project task, the
executor with the synchronisation) has left, and one action carries out one step. `catch` and
`catch_all` steps mark the ends of try blocks, so an exception skips exactly what
it skips in the code. The tables are `user`, `group`, `members`, `project`, `links`
(`project_groups`) and `access` (`user_projects` with `by_ldaps`). `ad` is the
directory. `tasks`, `recent` and `tries` are the project's message group,
the deduplication interval and the receive count.

The rows of users are keyed by their account name (`sAMAccountName`), but `create_user` searches
the directory, and the synchronisation changes memberships, by common name (`cn`). `ad.renamed` has the users for whom these
differ: they are not created, they are not added to groups, and a removal from a group fails outside of
any `try` block, so that the synchronisation ends there (`CompareUser`). A creation refused for another reason (sssd does not know the
user or group yet, the mail is not valid) is one of the `faults`; the synchronisation logs it and goes on.

### `SessionSchedules`, `SessionPermissions` and `SessionSettings`

`session` and `schedules` are the rows an edit reads, changes and writes; the
decision of a check is the operator `Trigger`, next to `Wanted`, what a reader of
the schedule expects; `SameMinutes` and `WithinDay` are what the decision relies on and
nothing but the web portal's slider sees to. `perms` and `profile` are the tables that decide what `file`, the
DCV session's permission file, should say; `inbox` with `worker` is the session's group
and its handler, `pending` the change events of the tables. `SessionSettings` adds the other
operations on the session (`change`), its deletion in a handler (`worker`) and in
a request (`removal`), and the half-hourly check (`check`).

### `SnapshotExport`, `ApplySnapshot` and `Snapshots`

`SnapshotExport`: threads create snapshots at one path and list the snapshots, which is
what updates the metadata file and the status. `ApplySnapshot`: applications merge the
tables in `TABLES_IN_MERGE_DEPENDENCY_ORDER`, record what they did, and undo it in the
opposite order after a failure. A row carries who made it, so that what is left after
a rollback can be told from what was there. `Accounts` are the users that the environment has, `Unfit` the records
that it cannot take: software stacks whose image is not in its region, file systems without a provider, of
another scope, of another network or already onboarded, records without a name. The mergers skip
them and the application still ends `COMPLETED`, which therefore means that every record that can
be taken was merged. The two share only the exported files, which
do not change, so `Snapshots` lets a behaviour follow one of them.

### History variables that name exceptions

Several promises do not hold without exception, because the code takes no lock or
because a step may be the last one. The exceptions are not left out of the
model: they happen, and a history variable notes that they did (`excuse`,
`caveats`, `lapsed`, `stranded`, `disturbed`). A property then says that the promise
holds unless one of the named things happened. Each label is the shortest
description of a way in which the code breaks the promise, found by TLC:

| Variable | Labels |
|---|---|
| `excuse` of `ProjectAccess` | `silent` an update that empties a list of the project, which sends no task for what it removed; `overtaken` an update skipped because the project was disabled meanwhile; `deduped` a task dropped as a duplicate; `dropped` a task given up; `orphaned` a user deleted while still a member of a group; `missed` an activation that went on without a group; `unhoused` a user created without a home; `interrupted` a request or synchronisation cut short by a crash (`synced`, next to it, says whether a synchronisation came to its end without a change of the directory, a crash or an exception that ended it); `stale` an update that brought back a group taken away since it read the row, or the task of an update that linked one again |
| `excuse` of `SessionSettings` | `custom` one custom schedule replaced by another; `overlap` two writers of the session's row; `midair` a permission row changed between read and write; `unannounced` a change whose event was never published; `early` permissions sent before the DCV session existed; `poisoned` an event given up because a profile is gone; `recreated` a deleted profile created again; `undeleted` a deletion that failed; `crashed` an edit or deletion cut short |
| `excuse` of `ApplySnapshot` | `overlap` roles changed by two applications; `escaped` a merger raised and took its record along; `halfway` a call that failed after its effect; `abandoned` an exception past the rollback; `prefix` settings of another file system deleted with the same prefix; `undeleted` imported tables that could not be deleted |
| `caveats` of `SnapshotExport` | `fault` a call failed; `raced` two threads found the snapshot complete; `recreated` a second snapshot at the path; `lost` an older metadata file written back; `crashed` a thread died before its write |
| `lapsed`, `stranded`, `disturbed` | a leader's lease ran out; a row could not be deleted, or its node died; a reset lost its lease, its node or its user, or raised between the change and the saving of the secret |

## 3. Runs

The first four use one API thread beside the handler.

| Run | Setting | Checks |
|---|---|---|
| `session_serial` | operations one at a time, three requests or schedule ticks after the creation, no faults | `DeletionIsDriven`, `StopIsDriven`, `CreationIsDriven`, `ResumeIsDriven`: every transitional state has the step or message that will end it; `NoZombieRow`, `NoResurrection`: rows and hosts come and go together; `QuietStateMatchesHost`: at rest the row tells the truth |
| `session_hazards` | two operations overlap at any step, one fault, duplicates dropped, notifications in any order | `HardwareReleasedOnlyIfAsked`, `NoLeakedHost`, `TypeOK` |
| `session_outage` | hibernation; the host stops or reboots by itself once, in the middle of anything | `DeletionIsDriven`, `CreationIsDriven` |
| `session_liveness` | three requests under `FairSpec` | `SessionSettles`: provisioning, validation, stopping and resuming end |
| `event_queue` | two groups, two threads that come and go, handlers that raise or outlive the timeout, a crash, a stop | `ImplementsOrderedDelivery` (refinement); `ExactlyOnceWithoutFaults`: scaling and stopping let a thread finish; `MinThreadsServe`, `LiveThreadsAreKnown`: the pool never loses count; `EveryMessageSettles`, `StopCompletes`: under `FairSpec` every event is handled, rejected or given up, and `stop()` ends |
| `cluster_nodes` | two nodes stop, crash, restart, lose leases and fail to reset in the middle of anything; a directory that AWS manages, and one that it does not | `LeaderOwnsLock`; `StoppedNodeHoldsNoLock`: an orderly stop leaves no row to wait for, even in the middle of `acquire`; `ResetOnlyWhenExpired`: no reset too early; `SecretMatchesDirectory`: both have the same password; `SomeLeader`: there is a leader again and again |
| `project_access` | two requests, changes of the directory (names included) or synchronisations and a fault, or four and none | `AccessIsExact`: at rest everybody has exactly the access due; `DirectoryIsMirrored`: after an undisturbed synchronisation the rows say what the directory says, but for the creation and additions of users under another name; `MembershipsMatchRows`: members and rows agree, whatever was skipped |
| `session_settings` | two requests, two checks, a crash, all actors interleaved | `PermissionsEnforced`, `GrantsAsAsked`, `ScheduleAsAsked`: file, rows and schedule are what was asked for last; `ChecksFollowSchedule`; `DeletionFailsOnlyIfDisturbed`, `NothingLeftBehind` |
| `snapshots` | two creators, two listers; two applications, one with records that cannot be taken, with failing calls, a crash, an administrator | `ExportStatusIsTrue`, `ApplyStatusIsTrue`: the recorded status is true |

The five last also check their type invariant. Deadlock is not checked for
`VirtualDesktopSession`: a terminated session has nothing left to do, and
requests are bounded. It is checked in all other modules, where a step
`Finished`, enabled only when everybody is idle and the bounds are used up, marks the
legitimate end (`EventQueue` and `ClusterManagerNodes` never end).

The serial properties are stated without overlap because they do not hold with
it: two operations on one session overwrite each other's state (see the hazards
on `update`). The runs say exactly which promises survive overlap.

### Disagreements between code and documentation

Each of the first three has a run that checks one sentence of
`src/webapp/src/docs/my-virtual-desktop-sessions.md` and ends in a counterexample.

- `session_lost_termination` (`DeletionIsFinal`): the status of an earlier
  resume command is handled after `terminate_sessions` wrote `DELETING`. The
  handler writes `INITIALIZING` whatever it finds, and the validation of the
  deletion is then ignored. The session lives on.
- `session_dedup` (`TerminationFinishes`): a stop is followed by a termination
  within five minutes. The two validations of the deletion have equal bodies, SQS
  drops the second, and the session stays `DELETING`.
- `session_hibernate` (`RestartResumes`): waking from hibernation runs no boot
  script, so the controller publishes `DCV_HOST_REBOOT_COMPLETE` itself; the
  handler accepts the event only from the host and deletes the message. The session
  stays `RESUMING`.
- The directory's password is reset too late. The comment in `ad_automation_agent.py:82` says "check for expiration 2 days before
  expiration", and the directory's settings template
  (`src/res/source/idea/idea-administrator/resources/config/templates/directoryservice/_templates/activedirectory.yml:38-39`)
  that the agent "will try to reset the service account credentials, when nearing
  expiration". The code takes the two days from now and not from the expiry date
  (`ad_automation_agent.py:83-88`), so the password counts as expired only when it has been so for two
  days (`IsPasswordExpired`). It shows in the guard of `AgentCheck` and needs no run; `ResetOnlyWhenExpired` is the
  other half of what a reader expects, that the password is never reset too early, and holds.
- The same template (`:40`) says that the setting should be left as `false` "unless you know the AD service account is allowed to update its
  password in 'activedirectory' mode". In that mode `change_password` is a no-op
  (`active_directory_client.py:163-165`) while the secret is overwritten
  (`ad_automation_agent.py:140`): the reset loses the password. `SecretMatchesDirectory` is therefore
  stated for a directory that AWS manages.

## 4. Bounds

`MaxCalls` (2 or 3) requests after the creation give every pair, and in the
serial run every triple, of stop, resume, reboot, terminate, scheduled stop,
scheduled resume and disabled user (the liveness run: every triple without the
scheduled ones). The code's thresholds are
reduced so that both sides of each comparison are reached:
`SESSION_CREATION_THRESHOLD_COUNT` 1 (one retry, then `ERROR`),
`VALIDATION_REQUEST_THRESHOLD` 2 and `SESSION_DELETED_THRESHOLD` 1 (so that the
two exits of the validation differ, as in the code), and
`RESUME_REQUEST_COUNT_THRESHOLD` 1. `MaxCommands` 3 is never reached
with another command to send in the passing runs (checked once with TLC), so it
cuts nothing off. `MaxInFlight` is 1 for serial runs and 2 where an API
thread and the handler overlap. `MaxFaults` 1 and `MaxOutages` 1 are single
failures, placed anywhere.

- `event_queue`: of three messages, two in one group, at most two are published;
  two threads, so that a thread is added and removed while another works. The
  dead letter queue takes a message after 2 receives instead of 60, and
  `MESSAGE_COUNT_PER_THREAD` is 1 instead of 3, so that two messages call for two
  threads. One fault (crash, or a handler slower than its timeout) and one orderly stop.
- `cluster_nodes`: two nodes, either provider; the password's maximal age is 0 days, so that it counts as expired after two, and
  is reset twice (days are not counted after the last password); 2 attempts instead of 4; one fault (a lost lease, a crash, a
  step that raises, a user that is never found) and one stop.
- `project_access`: two users, one of whom has logged in, two groups, one of
  which is new, one project. Two requests, directory changes or synchronisations in any order, with a
  fault, named users and empty lists; and four of them, e.g. an update, a disabling and two
  synchronisations between them, where nothing fails, no user is named, no list is emptied and every user has a
  home (`MCLongRuns`); three of them also with a user under another name, who is renamed, leaves a group and makes the
  synchronisation end. Only with the fourth can the task of an update link a
  group that a synchronisation has taken out of the project since (`LinksAgain`, the label
  `stale`). `MCNamedUsers` gives a project that names users the old group at most: rows
  by name and by group meet in one user already. A task is received twice instead
  of 30 times. Checked once with TLC without these constraints, `AccessIsExact` holds as well for two users and
  two groups with three events and a fault, for two users where no project names any with four
  events and a fault, for one user with four events and a fault, and with five events and no
  fault. `Overlap` is `FALSE`: of the request, the project task and
  the synchronisation, one at a time works through memberships. With
  `TRUE` `MembershipsMatchRows` does not hold, as the code takes no lock.
- `session_settings`: two guests, one profile, a check at the start of the hours and
  one at the end of the custom ones, and hours that pass midnight; sessions start as three combinations of state, schedule and guests.
  Two requests, one crash; an event is received twice instead of 60 times.
- `snapshots`: two exported tables; a user, a project, two software stacks and a file
  system to apply, so that a merger is interrupted between two records, in an
  environment that has both stacks, one with the very content of the snapshot and one
  with other content, and lacks a user. One of the applications cannot take a stack, which it finds out when it
  writes, and the file system, at either of the two places where the merger looks. Two failures, of which one may be that of a rollback, and one act of
  an administrator or a user. Creators, and listers, are symmetric.

## 5. Fairness

`FairSpec` adds weak fairness on what runs by itself: the handler thread's
endless loop (`events_handler_thread.py`, `run`), an API call that has begun, the
controller queue monitor's loop with the delivery of notifications, and EC2,
the host's boot, the broker and SSM, which carry out what they accepted. There is
none on requests, outages, faults, schedule ticks or the end of the deduplication
window. The liveness run has no schedule: a second CPU status for a
session that is no longer `READY`, or a scheduled resume of one in `ERROR`, makes its
handler raise every time and holds the group back until the dead letter queue takes
the message, which this module does not model. It has no hibernation and no
deduplication either, whose stuck sessions section 3 shows.
`SessionSettles` leaves `DELETING` out: the broker may answer that it does not
know a session which a resume command has just brought back, and the code does not ask
for its deletion again.

`EventQueue!FairSpec`: weak fairness on each thread's loop and on `stop()` for each thread,
on the pool's half-minute round, on SQS honouring its visibility timeout and its redrive
policy, and on the replacement of a controller that stopped (the autoscaling group).
None on publishing, on a timeout that ends too early, on crashes or on the call of `stop()`.

`ClusterManagerNodes!FairSpec`: weak fairness on the three threads of each node and on
the replacement of a node that exited; none on stops, crashes, lost leases or the
passing of days. A stop that raised in `DistributedLock.stop` needs no fairness: the
other node takes over when the lease has run out.

## 6. What is proved

Eight modules hold theorems. Each has one or two inductive invariants, a conjunction of named parts; that it holds initially and is preserved by every
action is proved action by action, and the properties of the runs follow from it. The
constants are arbitrary within the named assumptions of the modules that declare them,
which TLC evaluates on every run.

| Theorem | Property of a run |
|---|---|
| `VirtualDesktopSession_proofs`: `TypeCorrect`, `ReleaseNeedsRequest`, `NothingLeaks` | `TypeOK`, `HardwareReleasedOnlyIfAsked`, `NoLeakedHost` |
| `SerialSession_proofs`: `NothingResurrected`, `RowsHaveHosts`, `CreationsDriven`, `DeletionsDriven` | `NoResurrection`, `NoZombieRow`, `CreationIsDriven`, `DeletionIsDriven` |
| `UndisturbedSession_proofs`: `StopsDriven`, `ResumesDriven`, `RestMatchesHost` | `StopIsDriven`, `ResumeIsDriven`, `QuietStateMatchesHost` |
| `EventQueue_proofs`: `TypeCorrect`, `LiveThreadsKnown`, `MinimumServes`, `ExactlyOnce`, `Refinement` | `TypeOK`, `LiveThreadsAreKnown`, `MinThreadsServe`, `ExactlyOnceWithoutFaults`, `ImplementsOrderedDelivery` |
| `ClusterManagerNodes_proofs`: `TypeCorrect`, `LeaderIsOwner`, `StopReleasesLocks`, `NoNeedlessReset`, `SecretIsCurrent` | `TypeOK`, `LeaderOwnsLock`, `StoppedNodeHoldsNoLock`, `ResetOnlyWhenExpired`, `SecretMatchesDirectory` |
| `ProjectAccess_proofs`: `TypesHold`, `MembershipsMatch`, `DirectoryMirrored` | `TypeOK`, `MembershipsMatchRows`, `DirectoryIsMirrored` |
| `SessionSettings_proofs`: `TypeCorrect`, `GrantsHold`, `ScheduleHolds`, `DeletionsHold`, `NothingStays`, `ChecksFollow`, `PermissionsHold` | `TypeOK`, `GrantsAsAsked`, `ScheduleAsAsked`, `DeletionFailsOnlyIfDisturbed`, `NothingLeftBehind`, `ChecksFollowSchedule`, `PermissionsEnforced` |
| `Snapshots_proofs`: `TypeCorrect`, `ExportStatusHolds`, `ApplyStatusHolds` | `TypeOK`, `ExportStatusIsTrue`, `ApplyStatusIsTrue` |

### `VirtualDesktopSession_proofs`

Proved for every set of API threads, every bound, every threshold, with or without
hibernation, schedule, deduplication and reordering:

- `TypeCorrect`: `Spec => []TypeOK`;
- `ReleaseNeedsRequest`: `Spec => []HardwareReleasedOnlyIfAsked`;
- `NothingLeaks`: `Spec => []NoLeakedHost`.

They follow from the inductive invariant `IInv` (`InvariantHolds`). Neither
safety property is inductive by itself:

- `Control` types the actors, the queue and the deduplication set, says that the
  handler is busy only with a message at the head of the group (so deleting it is
  possible), and that, as long as nobody asked for a termination, no `TERMINATE`
  event is queued, no actor is terminating and no actor holds a `DELETING` row it
  might write back. The last part is why a stop cannot become a termination
  through a stale row.
- `Data` types the other variables.
- `Guarded`: as long as nobody asked, the row is not `DELETING` and the instance is not
  terminated.
- `FreshInv`: before the row is first written, the creation is under way.
- `ReleasedInv`: an operation that is about to delete the row after the host has
  indeed released it, and one that deletes the row first read `DELETING`, so that
  it goes on to the host.
- `LeakInv`: without a fault, a row that is gone means a released host or an
  operation that will release it.

Each action has a step for each part it can disturb; lemmas about `Send`,
`Return`, `Raise`, `Begin` and `Goto` carry the parts through the operations
that share them. The only assumption is `Parameters`, the types of the
constants and that the handler is not an API thread.

### `SerialSession_proofs`

The other properties of a session fail as soon as operations overlap: the code reads a row,
acts and writes the row back without a condition. They are proved for every
set of API threads and every bound under `Serial` (`MaxInFlight <= 1`), which still lets
notifications, boots, the broker, schedules and the disabling of users come in anywhere.
Each theorem has only the conditions without which TLC finds a counterexample:

| Theorem | no operation overlaps | and none was interrupted by a fault | and no deduplication |
|---|---|---|---|
| `NothingResurrected` | x | | |
| `RowsHaveHosts`, `CreationsDriven` | x | x | |
| `DeletionsDriven` | x | x | x |

"None was interrupted" is part of the invariant (`budget.faults = 0 => ...`), not of the
specification: the theorems speak about the whole time before the first fault.

- `SerialInv`: at most one actor is in the middle of an operation (`AloneInv`); it is at one of
  that operation's steps, and the row is what the operation itself has made of the row it
  read (`JobInv`). So nobody writes over a row that is gone: `NothingResurrected`, an action
  property.
- `FaultlessInv`, on top of it: `HostInv` (a session with a row, or about to get one, has its
  host until `terminate_sessions` releases it), `CreationInv` and `DeletionInv` (what the two
  properties say, extended to the rows that the job is about to write).

### `UndisturbedSession_proofs`

The rest of the properties need in addition that notifications keep their order and
that nobody stops the instance behind the controller's back (`budget.outages = 0`):

| Theorem | `Serial`, no fault, no outage, no reordering | and |
|---|---|---|
| `StopsDriven` | x | no deduplication |
| `ResumesDriven` | x | no hibernation |
| `RowsAreTrue`, `RestMatchesHost` | x | |

TLC finds a counterexample without any one of these. `RowsAreTrue` says more than the run does: READY and
STOPPED are true of instance, DCV session and host row whenever no operation is under way,
whatever is still queued. The inductive invariant is `UndisturbedInv`:

- `ChainInv`, `StillInv`: a session comes up through a chain of events, of which one link exists
  at a time (the boot, the event that announces it, the resume command, its status, the
  validation), and none while the session is at rest or going down. Without "one at a time" a
  second boot could end a stop that has just begun.
- `UpInv`, `DownInv`: what the row's state and the chain say of the instance, and that the news of
  a stop is kept until the row is written.
- `ServerInv`, `DcvInv`, `CommandInv`: the host's row, the DCV session, and the command rows by which
  the monitor finds the session again.
- `StoppingInv`, `ResumingInv`: the properties, extended to the rows that are about to be written.
- `EmptyInv`, `SparedInv`: before the creation there is nothing; a session that is being stopped is not
  terminated the short way.

### `EventQueue_proofs`

Proved for every set of messages, groups and threads and every bound, from
`QueueParameters` (types of the constants; the minimum of threads is at least 1 and
at most the maximum, and there are enough thread names). None of the properties
is inductive. The parts of `IInv`:

- `PoolInv`: the threads in `_active_threads` are different, alive and not told to
  exit, and there are at least `MinThreads` of them once the service runs. That the list has no
  duplicates is what turns its length into a number of serving threads.
- `QueueInv`: what SQS keeps of a group is the rest of what was published to it
  (`IsRest`): all before it is settled, all in it is pending. From this comes the
  order of `OrderedDelivery`.
- `MessageInv` and `WorkInv`: the message a thread is busy with is the oldest of its group until
  it is settled, also when the thread's receipt is no longer valid. So a handler that outlives
  its timeout repeats an effect but never overtakes, and a message deleted with an
  old receipt has already been carried out.
- `OnceInv`: without faults a busy thread has the valid receipt, and a message that
  was carried out is with the thread that is about to delete it.

`Refinement` proves `Spec => Delivery!Spec` step by step: publishing, the first success
of a handler, and the three ways to settle a message are steps of `OrderedDelivery`;
everything else (polling, repeated handling, scaling, stopping, crashes) is a stutter.

### `ClusterManagerNodes_proofs`

Proved for every set of nodes and every bound, from `NodeParameters` (the two keys are
different, the bounds are numbers). The parts of `IInv`:

- `Leadership`: a node that leads, or is between `acquire` and `_is_leader.set()`, owns the
  row and keeps it alive, unless its lease lapsed or it is exiting.
- `RowsRecorded`: a row of a node is in its `_active_locks`, or the node's thread is just
  about to put it there; `StopOrder`: the threads end before the lock service does. With both, a stop that
  comes in the middle of `acquire` still finds the lock.
- `Resets`: while nothing was disturbed, only the owner of the lock is between its
  second check and the save; the password it changes is expired, and the secret of a directory that AWS manages lags behind
  only until the save. A reset that raises leaves this state only with the secret saved, or with nothing
  changed, or `disturbed`.

`NoNeedlessReset` is an action property; it follows from `Resets` and the two actions that
change the directory.

### `ProjectAccess_proofs`

Proved for all finite sets of users and groups, all choices of requests and all bounds, from
`MembershipParameters` (the sets are finite; `NoRow`, `Unset` and `Self` are none of the
values they stand beside) and `AccessParameters` (types).

An operation is a plan in `todo`, so the proofs are about sequences of steps that grow and shrink at
the front. `Advance` and `Escape` say once what remains of a plan when its current step is
done or raises; `Fan`, `ThenFan` and `TriedFan` what a fan-out contains; everything else uses only
which steps are in a plan (`Elems`) and that some come last (`OnlyLast`).

- `TypesHold`: `Spec => []TypeOK`, also when fan-outs overlap. The invariant `TypesInv` types every
  step by its operation (`StepsOf`), so that what was read at the beginning of a plan can
  still be used at its end. `SyncInv` is why the synchronisation never looks into
  the row of a user that is gone: who stays and who goes is decided at once
  in `sync_all_users`, and no plan has both a comparison and a deletion of the same user. `QueueInv`
  says that a task under way is still in the queue and bounds its receives.
- `MembershipsMatch`: `Spec => []MembershipsMatchRows` when `Overlap` is `FALSE`; with `TRUE` TLC finds
  a counterexample (a user activated during a synchronisation). The invariant adds `ExclusiveInv` (while
  the synchronisation runs, requests only write a project's row and send its task),
  `ActivationInv` (only an activation makes a request add users to groups, all of one user, and
  setting the user active is its last step) and `MatchInv` (the memberships are those of the
  rows; of a user that is being activated, those that are missing are still in the plan).
- `DirectoryMirrored`: `Spec => []DirectoryIsMirrored` when `Overlap` is `FALSE`. Its invariant
  `SyncedInv` follows the synchronisation from the moment it reads the groups to its last step:
  `GroupsInv`, `UsersInv` and `HomesInv` say that every difference between rows and directory
  has the step that will remove it in the plan, unless a creation failed or it is one that a user under another name keeps,
  `HomesFirst` that home directories are requested before users are compared, so that a comparison that ends
  the synchronisation leaves nobody without one, `AdInv` that the directory has no membership
  of a group it does not have, `QuietInv` that a synchronisation with a disturbed beginning
  never ends in `yes`. The hard part is exceptions, which drop steps: `ShapeInv` says where the `try`
  blocks are (`Apart`: between a step that may raise and a later one that must not be lost
  there is the end of a block, with two exceptions in `create_user` and `delete_user` that have
  their own excuse or cannot raise), and `LinksInv` and `TaskInv` that a project that is gone has no links, so
  that taking a group from it finds nothing to fail at.

### `SessionSettings_proofs`

Proved for every set of guests and profiles, every set of schedules and requests that may be
asked for, every list of checks and every bound. `ScheduleParameters` and
`PermissionParameters` type what may be asked for, and say that a schedule that is not custom is
determined by its type and that an event is received at least once before it is given up;
`SettingsParameters` says that the checks of the day come in order and that a session starts
`READY` or `STOPPED`.

`IInv`, for the tables:

- `SoundInv`: a schedule in a row, in the table or in the hands of a thread has an id that
  was given out; `QueueInv`: the event the handler is busy with is the oldest of its group.
- `WritersInv`: until an overlap is noted, one thread at a time is between reading and
  writing the session's row, and what it read is still there.
- `AskedInv`: the row, and the row an edit is about to write, name the schedule asked for.
- `ScheduleInv`: the table has that schedule, or what is left of it in the middle of an edit or a
  deletion. The one exception is `Broken`: a deletion has removed the schedule, failed at a
  permission row that somebody else had deleted, and will be tried again; it is then bound to end in
  `undeleted`, and no edit may take it for a session in order.
- `RowsInv`: what a handler or a deletion read of the permission rows is still so.
- `GrantInv`: the row of each guest is what the last request left after the checks so far
  (`Expected`), also while a check has removed only some of the expired rows.

`FileInv`, for the permission file, holds on top of `IInv` until one of the five labels of
`PermissionsEnforced` is noted: the file, and the content a resume command carries, say what the
tables say, or somebody is about to replace them (`Announced`: an event in the group, a change event
that is pending, a request or a check that has yet to publish); and a session that is `READY`
has a file (`HostInv`).

`ChecksFollow` is an action property. It needs `AskedInv` and `ScheduleInv`, and that `Trigger` and
`Wanted` agree at every minute of the day (`TriggerAsWanted`). That lemma is false for hours that pass
midnight, which no test and no earlier run had: with the end before the start `trigger_schedule`
never resumes the session, and stops it from the start of its hours on. The property now says so.

### `Snapshots_proofs`

Proved for every list of exported tables, every snapshot content (the records of each table, in
any order and number), every set of creators, listers and applications, every environment to
start from and every bound. `ExportParameters` gives the types of the export's constants;
`ApplyParameters` those of the applications, and says that no row an environment starts with
was made by an application.

`ExportInv`, for create and list:

- `CreationInv`: the metadata file is written after every export was started;
- `CopiesInv`: what a file, or a thread's copy of it, says of an export that has ended is so,
  whichever copy is written back last;
- `RowInv` (until a second snapshot is created at the path): what a thread found completed
  is in the file, a row is marked failed for a reason, and of a completed snapshot whose row does not say so
  some thread still knows.

`ApplyInv`, for applications:

- `ThreadInv`: where a thread is in its two loops; the deltas it remembers of a table are rows
  that it made itself, under names that no row with the snapshot's own content has;
- `TraceInv`: everything an application has left is in the deltas that are still to be
  undone (`Pending`), wherever it is between the first write and the end of the rollback. This is
  the heart: a rollback that ends has nothing pending, hence has left nothing;
- `MergedInv`: every record the merge has passed, and that could be taken, has its row, and none that could not be taken has one;
- `TempInv`: imported tables are gone at the end, unless their deletion failed.

What one application does to the rows and roles of another is reduced to two lemmas
(`OthersKeep`, `ApplyStep`): others lose a row, or get a role back, only with a note in
`excuse`. The proof shows that the labels of section 2 are all the exceptions the model of the
applications has.

## 7. What is only model-checked

- Liveness under fairness, which is beyond the prover: `SessionSettles`,
  `EveryMessageSettles`, `StopCompletes`, `SomeLeader`.
- Of `ProjectAccess`: `AccessIsExact`. It needs, on top of the invariants of
  `ProjectAccess_proofs`, an account of what every task in the queue and every step in
  each of the three plans has still to write, with tasks that are run again from any point.
- The three counterexamples.

## 8. What is not modelled

- In `VirtualDesktopSession`, the dead letter queue and the visibility timeout: a
  message that always fails is received for ever there. `EventQueue` has both, with
  abstract handlers.
- Several sessions, projects or snapshot paths at once: they share nothing but threads
  and locks, which have their own modules. Pages of listings are left out (a user who is
  disabled has only the first page of sessions terminated).
- The rest of a batch of messages: a handler thread asks for one message per call.
- In `VirtualDesktopSession`, the decision of a schedule (any tick may stop or resume);
  `SessionSchedules` has it, for one day of the week.
- The counter of failed validations, which is never deleted, as a property of its own,
  and clients that connect between the count of connections and the deletion.
- In `ClusterManagerNodes`, the password that each node remembers (`refresh_root_username_password`), and providers
  other than the two of Active Directory, which the client refuses.
- In `DirectorySync`, a user whose common name is the account name of another or differs from its own in capitals only (the
  rows are found by the name as it is written), and internal groups, which the synchronisation leaves alone. A
  synchronisation that raised and is received again is one more synchronisation.
- In `ApplySnapshot`, two snapshots that hold the same storage: the second would find it onboarded or not, depending on the first.
- Creating software stacks from sessions, with their commands; the subscription to the
  settings stream and the settings tree; logins, Cognito, preset computers; budgets and
  roles of projects; the transformation of snapshot records between versions.
- The checks of a single request (validation, authorization), listing and search.
- Deployment (CDK stacks, installer, administrator's command line), the records of
  the data model, clients of AWS and of the operating system: they are most of
  the repository's lines and keep no state between two steps.
- Rendering, formatting, authorization of single requests, pure I/O.

## 9. Plan

Proofs: `AccessIsExact` (every row of `user_projects` that is not yet what it should be has
the step, or the task, that will write it).

Models still to be written: an abstract life cycle of a session and its refinement
by `VirtualDesktopSession` when operations do not overlap; software stacks created
from sessions; the stream subscription with the settings cache.
