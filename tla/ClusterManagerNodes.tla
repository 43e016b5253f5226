------------------------- MODULE ClusterManagerNodes -------------------------
(***************************************************************************)
(* The nodes of the cluster manager, each with three threads that share    *)
(* the DistributedLock service:                                             *)
(*                                                                          *)
(*   loop[n]    LeaderElection.loop                                         *)
(*   agent[n]   ADAutomationAgent, resetting the directory's admin password *)
(*   main[n]    SocaApp.launch and SocaApp.stop                             *)
(*                                                                          *)
(* The leader publishes the accumulated metrics (MetricsService).           *)
(***************************************************************************)
EXTENDS DistributedLock

CONSTANTS
    LeaderKey,         \* LEADER_ELECTION_KEY
    ResetKey,          \* AD_RESET_PASSWORD_LOCK_KEY
    PasswordMaxAge,    \* password_max_age, in days
    MaxRetries,        \* max_retries, 4 in the code
    MaxResets,         \* bound: passwords generated
    MaxFaults,         \* bound: lost leases, crashes, steps that raise
    MaxStops           \* bound: orderly stops

ASSUME NodeParameters ==
    /\ Keys = {LeaderKey, ResetKey} /\ LeaderKey # ResetKey
    /\ NoNode \notin Nodes
    /\ {PasswordMaxAge, MaxRetries, MaxResets, MaxFaults, MaxStops} \subseteq Nat

VARIABLES
    main, loop, agent,
    leader,            \* the nodes whose _is_leader event is set
    provider,          \* directoryservice.provider
    age,               \* days since the directory's password was set
    directory,         \* the admin password in the directory (its number)
    secret,            \* the admin password in the secrets manager
    lapsed,            \* history: nodes that lost the lease of the leader's lock
    stranded,          \* history: rows whose deletion failed
    disturbed,         \* history: a reset lost its lease, its node or its user,
                       \* or raised when the directory had the new password
    faults, stops

passwordVars == <<provider, age, directory, secret, disturbed>>
history == <<lapsed, stranded>>
vars == <<lockVars, main, loop, agent, leader, passwordVars, history, faults, stops>>

Providers == {"activedirectory", "aws_managed_activedirectory"}
Exiting(n) == main[n] # "up"       \* _exit and _stop_event are set

Init ==
    /\ LockInit
    /\ main = [n \in Nodes |-> "up"]
    /\ loop = [n \in Nodes |-> "try"]
    /\ agent = [n \in Nodes |-> [at |-> "check"]]
    /\ leader = {}
    /\ provider \in Providers
    /\ age = 0 /\ directory = 0 /\ secret = 0
    /\ lapsed = {} /\ stranded = {} /\ disturbed = FALSE
    /\ faults = 0 /\ stops = 0

-----------------------------------------------------------------------------
(* LeaderElection.loop: a leader only waits; exit is looked at between two  *)
(* rounds, the wait in between ends early when it is set.                   *)

GoLoop(n, from, to) == loop[n] = from /\ loop' = [loop EXCEPT ![n] = to]

ElectionRound(n) ==
    /\ GoLoop(n, "try", IF n \in leader THEN "wait" ELSE "acquire")
    /\ UNCHANGED <<lockVars, main, agent, leader, passwordVars, history, faults, stops>>

ElectionAcquire(n) ==
    /\ GoLoop(n, "acquire", "record")
    /\ Obtain(n, LeaderKey)
    /\ UNCHANGED <<main, agent, leader, passwordVars, history, faults, stops>>

(* Mutant: a timeout of acquire() is not told from success.                 *)
ElectionTimeoutAppoints(n) ==
    /\ ~Obtainable(LeaderKey)
    /\ GoLoop(n, "acquire", "record")
    /\ UNCHANGED <<lockVars, main, agent, leader, passwordVars, history, faults, stops>>

ElectionTimeout(n) ==
    /\ ~Obtainable(LeaderKey)
    /\ GoLoop(n, "acquire", "wait")
    /\ UNCHANGED <<lockVars, main, agent, leader, passwordVars, history, faults, stops>>

ElectionRecord(n) ==
    /\ GoLoop(n, "record", "appoint")
    /\ Record(n, LeaderKey)
    /\ UNCHANGED <<main, agent, leader, passwordVars, history, faults, stops>>

(* _set_leader *)
Appoint(n) ==
    /\ GoLoop(n, "appoint", "wait")
    /\ leader' = leader \cup {n}
    /\ UNCHANGED <<lockVars, main, agent, passwordVars, history, faults, stops>>

(* Mutant: the loop ends after one round.                                   *)
ElectionWaitOnce(n) ==
    /\ GoLoop(n, "wait", "ended")
    /\ UNCHANGED <<lockVars, main, agent, leader, passwordVars, history, faults, stops>>

ElectionWait(n) ==
    /\ GoLoop(n, "wait", IF Exiting(n) THEN "ended" ELSE "try")
    /\ UNCHANGED <<lockVars, main, agent, leader, passwordVars, history, faults, stops>>

-----------------------------------------------------------------------------
(* ADAutomationAgent: check_and_reset_admin_password.                       *)

(* is_password_expired: today minus two days is compared with the expiry.   *)
IsPasswordExpired == ~(age - 2 < PasswordMaxAge)

GoAgent(n, from, to) ==
    agent[n].at = from /\ agent' = [agent EXCEPT ![n] = [at |-> to]]

AgentCheck(n) ==
    /\ IF Exiting(n) THEN GoAgent(n, "check", "ended")
       ELSE IsPasswordExpired /\ GoAgent(n, "check", "acquire")
    /\ UNCHANGED <<lockVars, main, loop, leader, passwordVars, history, faults, stops>>

AgentAcquire(n) ==
    /\ GoAgent(n, "acquire", "record")
    /\ Obtain(n, ResetKey)
    /\ UNCHANGED <<main, loop, leader, passwordVars, history, faults, stops>>

(* The exception passes the finally clause, where nothing is recorded.      *)
AgentTimeout(n) ==
    /\ ~Obtainable(ResetKey)
    /\ GoAgent(n, "acquire", "release")
    /\ UNCHANGED <<lockVars, main, loop, leader, passwordVars, history, faults, stops>>

AgentRecord(n) ==
    /\ GoAgent(n, "record", "recheck")
    /\ Record(n, ResetKey)
    /\ UNCHANGED <<main, loop, leader, passwordVars, history, faults, stops>>

(* Mutant: the check is not repeated under the lock.                        *)
AgentNoRecheck(n) ==
    /\ agent[n].at = "recheck"
    /\ agent' = [agent EXCEPT ![n] = [at |-> "change", retry |-> 0]]
    /\ UNCHANGED <<lockVars, main, loop, leader, passwordVars, history, faults, stops>>

(* Another node may have reset the password already.                        *)
AgentRecheck(n) ==
    /\ agent[n].at = "recheck"
    /\ agent' = [agent EXCEPT ![n] = IF IsPasswordExpired THEN [at |-> "change", retry |-> 0]
                                     ELSE [at |-> "release"]]
    /\ UNCHANGED <<lockVars, main, loop, leader, passwordVars, history, faults, stops>>

Managed == provider = "aws_managed_activedirectory"
Unknown == MaxResets + 1           \* a password the directory does not have

Changed == Managed /\ directory < MaxResets /\ directory' = directory + 1 /\ age' = 0

(* change_password; of a directory that AWS does not manage it changes      *)
(* nothing.                                                                  *)
AgentChange(n) ==
    /\ agent[n].at = "change"
    /\ \/ /\ Changed
          /\ agent' = [agent EXCEPT ![n] = [at |-> "save", new |-> directory']]
       \/ /\ ~Managed
          /\ agent' = [agent EXCEPT ![n] = [at |-> "save", new |-> Unknown]]
          /\ UNCHANGED <<age, directory>>
    /\ UNCHANGED <<lockVars, main, loop, leader, provider, secret, disturbed, history, faults, stops>>

(* Mutant: the retries are counted and never compared with the limit.       *)
AgentUserNeverFound(n) ==
    /\ agent[n].at = "change"
    /\ faults < MaxFaults
    /\ agent' = [agent EXCEPT ![n].retry = @ + 1]
    /\ UNCHANGED <<lockVars, main, loop, leader, passwordVars, history, faults, stops>>

(* AUTH_USER_NOT_FOUND: retried, and after the last retry the new password  *)
(* is saved although the directory does not have it.                        *)
AgentUserNotFound(n) ==
    /\ agent[n].at = "change" /\ Managed
    /\ faults < MaxFaults
    /\ LET last == agent[n].retry + 1 >= MaxRetries
       IN  /\ agent' = [agent EXCEPT ![n] =
                  IF last THEN [at |-> "save", new |-> Unknown]
                  ELSE [at |-> "change", retry |-> @.retry + 1]]
           /\ faults' = IF last THEN faults + 1 ELSE faults
           /\ disturbed' = (disturbed \/ last)
    /\ UNCHANGED <<lockVars, main, loop, leader, provider, age, directory, secret, history, stops>>

(* Any other exception, of the second check, of the change before or after  *)
(* the directory took it, or of update_root_password before or after the    *)
(* secrets manager took it, is raised through the finally clause: the lock   *)
(* is released and nothing made up for.                                      *)
AgentRaises(n) ==
    /\ faults < MaxFaults
    /\ faults' = faults + 1
    /\ \/ /\ agent[n].at \in {"recheck", "change"}
          /\ UNCHANGED passwordVars
       \/ /\ agent[n].at = "change" /\ Changed
          /\ disturbed' = TRUE
          /\ UNCHANGED <<provider, secret>>
       \/ /\ agent[n].at = "save"
          /\ disturbed' = TRUE
          /\ UNCHANGED <<provider, age, directory, secret>>
       \/ /\ agent[n].at = "save"
          /\ secret' = agent[n].new
          /\ UNCHANGED <<provider, age, directory, disturbed>>
    /\ agent' = [agent EXCEPT ![n] = [at |-> "release"]]
    /\ UNCHANGED <<lockVars, main, loop, leader, history, stops>>

(* Mutant: the secret is not updated.                                       *)
AgentSaveNothing(n) ==
    /\ agent[n].at = "save"
    /\ agent' = [agent EXCEPT ![n] = [at |-> "release"]]
    /\ UNCHANGED <<lockVars, main, loop, leader, passwordVars, history, faults, stops>>

(* update_root_password *)
AgentSave(n) ==
    /\ agent[n].at = "save"
    /\ secret' = agent[n].new
    /\ agent' = [agent EXCEPT ![n] = [at |-> "release"]]
    /\ UNCHANGED <<lockVars, main, loop, leader, provider, age, directory, disturbed, history, faults, stops>>

AgentRelease(n) ==
    /\ GoAgent(n, "release", "check")
    /\ Release(n, ResetKey, TRUE)
    /\ UNCHANGED <<main, loop, leader, passwordVars, history, faults, stops>>

(* A day passes.  (None is counted after the last password.)                *)
Day ==
    /\ age < PasswordMaxAge + 2 /\ directory < MaxResets
    /\ age' = age + 1
    /\ UNCHANGED <<lockVars, main, loop, agent, leader, provider, directory, secret, disturbed, history, faults, stops>>

-----------------------------------------------------------------------------
(* SocaApp.stop and the stop() of the services it calls, in its order:      *)
(* the application's threads, LeaderElection, DistributedLock, the metrics. *)

GoMain(n, from, to) == main[n] = from /\ main' = [main EXCEPT ![n] = to]

Terminate(n) ==
    /\ stops < MaxStops
    /\ stops' = stops + 1
    /\ GoMain(n, "up", "app_stop")
    /\ UNCHANGED <<lockVars, loop, agent, leader, passwordVars, history, faults>>

(* app_stop joins the agent's thread.                                       *)
AppStop(n) ==
    /\ agent[n].at = "ended"
    /\ GoMain(n, "app_stop", "election_stop")
    /\ UNCHANGED <<lockVars, loop, agent, leader, passwordVars, history, faults, stops>>

(* LeaderElection.stop: release, _unset_leader, join.                       *)
ElectionRelease(n) ==
    /\ GoMain(n, "election_stop", "dismiss")
    /\ \E ok \in BOOLEAN :
        /\ ok \/ (faults < MaxFaults /\ row[LeaderKey] = n /\ LeaderKey \in locks[n])
        /\ faults' = IF ok THEN faults ELSE faults + 1
        /\ stranded' = IF ok THEN stranded ELSE stranded \cup {n}
        /\ Release(n, LeaderKey, ok)
    /\ UNCHANGED <<loop, agent, leader, passwordVars, lapsed, stops>>

Dismiss(n) ==
    /\ GoMain(n, "dismiss", "join")
    /\ leader' = leader \ {n}
    /\ UNCHANGED <<lockVars, loop, agent, passwordVars, history, faults, stops>>

Join(n) ==
    /\ loop[n] = "ended"
    /\ GoMain(n, "join", "lock_stop")
    /\ UNCHANGED <<lockVars, loop, agent, leader, passwordVars, history, faults, stops>>

(* DistributedLock.stop.  When it raises, launch() logs the error and calls *)
(* sys.exit, which waits for the metrics threads nobody has stopped.        *)
LockStop(n) ==
    /\ IF StopRaises(n)
       THEN /\ GoMain(n, "lock_stop", "stuck")
            /\ \E k \in locks[n] : Release(n, k, TRUE)
            /\ UNCHANGED leader
       ELSE /\ GoMain(n, "lock_stop", "exited")
            /\ Close(n)
            /\ leader' = leader \ {n}
    /\ UNCHANGED <<loop, agent, passwordVars, history, faults, stops>>

-----------------------------------------------------------------------------
(* Faults: a lost lease, the death of a process, and a new process.         *)

LoseLease(n, k) ==
    /\ faults < MaxFaults
    /\ faults' = faults + 1
    /\ Lapse(n, k)
    /\ lapsed' = IF k = LeaderKey THEN lapsed \cup {n} ELSE lapsed
    /\ disturbed' = (disturbed \/ k = ResetKey)
    /\ UNCHANGED <<main, loop, agent, leader, provider, age, directory, secret, stranded, stops>>

Crash(n) ==
    /\ main[n] # "exited"
    /\ main[n] = "stuck" \/ faults < MaxFaults
    /\ faults' = IF main[n] = "stuck" THEN faults ELSE faults + 1
    /\ main' = [main EXCEPT ![n] = "exited"]
    /\ loop' = [loop EXCEPT ![n] = "ended"]
    /\ agent' = [agent EXCEPT ![n] = [at |-> "ended"]]
    /\ leader' = leader \ {n}
    /\ disturbed' = (disturbed \/ agent[n].at = "save")
    /\ Forget(n)
    /\ stranded' = stranded \cup {n}
    /\ UNCHANGED <<provider, age, directory, secret, lapsed, stops>>

Start(n) ==
    /\ GoMain(n, "exited", "up")
    /\ loop' = [loop EXCEPT ![n] = "try"]
    /\ agent' = [agent EXCEPT ![n] = [at |-> "check"]]
    /\ lapsed' = lapsed \ {n}
    /\ UNCHANGED <<lockVars, leader, passwordVars, stranded, faults, stops>>

-----------------------------------------------------------------------------
LoopStep(n) ==
    \/ ElectionRound(n) \/ ElectionAcquire(n) \/ ElectionTimeout(n)
    \/ ElectionRecord(n) \/ Appoint(n) \/ ElectionWait(n)

AgentStep(n) ==
    \/ AgentCheck(n) \/ AgentAcquire(n) \/ AgentTimeout(n) \/ AgentRecord(n)
    \/ AgentRecheck(n) \/ AgentChange(n) \/ AgentSave(n) \/ AgentRelease(n)

StopStep(n) ==
    \/ AppStop(n) \/ ElectionRelease(n) \/ Dismiss(n) \/ Join(n) \/ LockStop(n)

Next ==
    \/ \E n \in Nodes :
        \/ LoopStep(n) \/ AgentStep(n) \/ StopStep(n)
        \/ AgentUserNotFound(n) \/ AgentRaises(n) \/ Terminate(n) \/ Crash(n) \/ Start(n)
        \/ \E k \in Keys : LoseLease(n, k)
    \/ Day

Spec == Init /\ [][Next]_vars

(* The threads go on, and a node that exited is replaced.                   *)
Fairness ==
    \A n \in Nodes :
        /\ WF_vars(LoopStep(n)) /\ WF_vars(AgentStep(n)) /\ WF_vars(StopStep(n))
        /\ WF_vars(Start(n))

FairSpec == Spec /\ Fairness

-----------------------------------------------------------------------------
AgentStates ==
    [at : {"check", "acquire", "record", "recheck", "release", "ended"}]
        \cup [at : {"change"}, retry : 0..MaxRetries]
        \cup [at : {"save"}, new : 0..(MaxResets + 1)]

TypeOK ==
    /\ LockTypeOK
    /\ main \in [Nodes -> {"up", "app_stop", "election_stop", "dismiss", "join",
                           "lock_stop", "stuck", "exited"}]
    /\ loop \in [Nodes -> {"try", "acquire", "record", "appoint", "wait", "ended"}]
    /\ agent \in [Nodes -> AgentStates]
    /\ leader \subseteq Nodes
    /\ provider \in Providers
    /\ age \in 0..(PasswordMaxAge + 2)
    /\ directory \in 0..MaxResets
    /\ secret \in 0..(MaxResets + 1)
    /\ lapsed \subseteq Nodes
    /\ stranded \subseteq Nodes
    /\ disturbed \in BOOLEAN
    /\ faults \in 0..MaxFaults
    /\ stops \in 0..MaxStops

(* A node that takes itself for the leader owns the lock, unless it lost its *)
(* lease, which nobody tells it, or is being stopped (_is_leader is cleared  *)
(* only by stop()).  So without lost leases at most one running node        *)
(* publishes the accumulated metrics.                                       *)
LeaderOwnsLock ==
    \A n \in leader : row[LeaderKey] = n \/ n \in lapsed \/ Exiting(n)

(* An orderly stop leaves no row behind that others must wait for, even if   *)
(* it runs while the election loop is in the middle of acquire(), unless     *)
(* the deletion of the row failed.                                           *)
StoppedNodeHoldsNoLock ==
    \A n \in Nodes : main[n] \in {"exited", "stuck"} /\ n \notin stranded
                        => \A k \in Keys : row[k] # n

(* However many nodes find the directory's password expired, it is not      *)
(* reset before it is older than password_max_age, because the check is      *)
(* repeated under the lock, unless a lease was lost or an earlier reset went *)
(* wrong.  (The code waits for two days more, see IsPasswordExpired; its     *)
(* comment says that it acts two days before.)                               *)
ResetOnlyWhenExpired ==
    [][directory' # directory /\ ~disturbed => age > PasswordMaxAge]_vars

(* Between two resets the secrets manager has the password of a directory   *)
(* that AWS manages, unless a node died in between, the directory never      *)
(* found its user, a lease was lost, or the change or the saving of the      *)
(* secret raised when the directory had the new password already.            *)
SecretMatchesDirectory ==
    Managed /\ (\A n \in Nodes : agent[n].at # "save") /\ ~disturbed
        => secret = directory

(* Some node always takes itself for the leader again: after timeouts,       *)
(* stops, crashes and lost leases.                                           *)
SomeLeader == []<>(leader # {})
=============================================================================
