---------------------- MODULE ClusterManagerNodes_proofs ----------------------
(***************************************************************************)
(* What holds of ClusterManagerNodes for every set of nodes and every      *)
(* bound, whichever node stops, dies or loses a lease in the middle of      *)
(* anything.                                                                *)
(***************************************************************************)
EXTENDS ClusterManagerNodes, TLAPS

-----------------------------------------------------------------------------
(* The inductive invariant *)

\* A node that leads, or is about to be appointed, owns the leader's lock and
\* keeps it alive, as long as it runs and has not lost its lease.
Leads(n) == n \in leader \/ loop[n] \in {"record", "appoint"}
Leadership ==
    \A n \in Nodes : Leads(n) /\ ~Exiting(n) /\ n \notin lapsed =>
        row[LeaderKey] = n /\ LeaderKey \in beating[n]

\* A row is recorded or about to be recorded, unless it was left behind.
RowsRecorded ==
    \A n \in Nodes : n \notin stranded =>
        /\ row[LeaderKey] = n => LeaderKey \in locks[n] \/ loop[n] = "record"
        /\ row[ResetKey] = n => ResetKey \in locks[n] \/ agent[n].at = "record"

\* Nothing is recorded for an agent that is not between acquire and release,
\* and the threads end in the order of SocaApp.stop.
StopOrder ==
    \A n \in Nodes :
        /\ agent[n].at \in {"check", "acquire", "ended"} => ResetKey \notin locks[n]
        /\ main[n] \notin {"up", "app_stop"} => agent[n].at = "ended"
        /\ main[n] \in {"lock_stop", "stuck", "exited"} => loop[n] = "ended"
        /\ main[n] \in {"stuck", "exited"} => locks[n] = {}
        /\ main[n] = "exited" => n \notin leader

\* While no reset was disturbed, a reset is made by the one owner of its lock,
\* of an expired password, and the secret of a directory that AWS manages lags
\* behind only until it is saved.
Resetting(n) == agent[n].at \in {"record", "recheck", "change", "save"}
Resets ==
    ~disturbed =>
        /\ \A n \in Nodes : Resetting(n) => row[ResetKey] = n /\ ResetKey \in beating[n]
        /\ \A n \in Nodes : agent[n].at = "change" => IsPasswordExpired
        /\ \A n \in Nodes : agent[n].at = "save" /\ Managed => agent[n].new = directory
        /\ (\A n \in Nodes : agent[n].at # "save") /\ Managed => secret = directory

IInv == TypeOK /\ Leadership /\ RowsRecorded /\ StopOrder /\ Resets

-----------------------------------------------------------------------------
\* The inductive invariant holds.
THEOREM InvariantHolds == Spec => []IInv
  <1>1. Init => IInv
    <2> SUFFICES ASSUME Init PROVE IInv
      OBVIOUS
    <2>1. TypeOK
      <3>1. agent \in [Nodes -> AgentStates]
        BY DEF Init, AgentStates
      <3>2. LockTypeOK
        BY DEF Init, LockInit, LockTypeOK
      <3>3. disturbed \in BOOLEAN
        BY Zenon DEF Init
      <3>4. QED
        BY <3>1, <3>2, <3>3, NodeParameters DEF Init, TypeOK
    <2>2. Leadership /\ RowsRecorded /\ StopOrder
      BY NodeParameters DEF Init, LockInit, Leadership, Leads, RowsRecorded, StopOrder
    <2>3. Resets
      BY DEF Init, Resets, Resetting, Managed
    <2>4. QED
      BY <2>1, <2>2, <2>3 DEF IInv
  <1>2. ASSUME IInv, [Next]_vars PROVE IInv'
    <2> USE NodeParameters DEF IInv, TypeOK, LockTypeOK, AgentStates, Leadership, Leads, RowsRecorded, StopOrder,
            Exiting, Resets, Resetting, IsPasswordExpired, Managed, Providers, Unknown, lockVars, passwordVars, history
    <2>1. ASSUME NEW n \in Nodes, ElectionRound(n) PROVE IInv'
      BY <1>2, <2>1 DEF ElectionRound, GoLoop
    <2>2. ASSUME NEW n \in Nodes, ElectionAcquire(n) PROVE IInv'
      BY <1>2, <2>2 DEF ElectionAcquire, GoLoop, Obtain, Obtainable
    <2>3. ASSUME NEW n \in Nodes, ElectionTimeout(n) PROVE IInv'
      BY <1>2, <2>3 DEF ElectionTimeout, GoLoop
    <2>4. ASSUME NEW n \in Nodes, ElectionRecord(n) PROVE IInv'
      BY <1>2, <2>4 DEF ElectionRecord, GoLoop, Record
    <2>5. ASSUME NEW n \in Nodes, Appoint(n) PROVE IInv'
      BY <1>2, <2>5 DEF Appoint, GoLoop
    <2>6. ASSUME NEW n \in Nodes, ElectionWait(n) PROVE IInv'
      BY <1>2, <2>6 DEF ElectionWait, GoLoop
    <2>7. ASSUME NEW n \in Nodes, AgentCheck(n) PROVE IInv'
      <3>1. PICK to \in {"ended", "acquire"} : GoAgent(n, "check", to)
        BY <2>7 DEF AgentCheck
      <3>2. UNCHANGED <<lockVars, main, loop, leader, passwordVars, history, faults, stops>>
        BY <2>7 DEF AgentCheck
      <3>3. QED
        BY <1>2, <3>1, <3>2 DEF GoAgent
    <2>8. ASSUME NEW n \in Nodes, AgentAcquire(n) PROVE IInv'
      BY <1>2, <2>8 DEF AgentAcquire, GoAgent, Obtain, Obtainable
    <2>9. ASSUME NEW n \in Nodes, AgentTimeout(n) PROVE IInv'
      BY <1>2, <2>9 DEF AgentTimeout, GoAgent
    <2>10. ASSUME NEW n \in Nodes, AgentRecord(n) PROVE IInv'
      BY <1>2, <2>10 DEF AgentRecord, GoAgent, Record
    <2>11. ASSUME NEW n \in Nodes, AgentRecheck(n) PROVE IInv'
      BY <1>2, <2>11 DEF AgentRecheck
    <2>12. ASSUME NEW n \in Nodes, AgentChange(n) PROVE IInv'
      <3>1. CASE Managed
        BY <1>2, <2>12, <3>1 DEF AgentChange, Changed
      <3>2. CASE ~Managed
        BY <1>2, <2>12, <3>2 DEF AgentChange, Changed
      <3>3. QED
        BY <3>1, <3>2
    <2>13. ASSUME NEW n \in Nodes, AgentSave(n) PROVE IInv'
      BY <1>2, <2>13 DEF AgentSave
    <2>14. ASSUME NEW n \in Nodes, AgentRelease(n) PROVE IInv'
      BY <1>2, <2>14 DEF AgentRelease, GoAgent, Release
    <2>15. ASSUME NEW n \in Nodes, AppStop(n) PROVE IInv'
      BY <1>2, <2>15 DEF AppStop, GoMain
    <2>16. ASSUME NEW n \in Nodes, ElectionRelease(n) PROVE IInv'
      BY <1>2, <2>16 DEF ElectionRelease, GoMain, Release
    <2>17. ASSUME NEW n \in Nodes, Dismiss(n) PROVE IInv'
      BY <1>2, <2>17 DEF Dismiss, GoMain
    <2>18. ASSUME NEW n \in Nodes, Join(n) PROVE IInv'
      BY <1>2, <2>18 DEF Join, GoMain
    <2>19. ASSUME NEW n \in Nodes, LockStop(n) PROVE IInv'
      BY <1>2, <2>19 DEF LockStop, GoMain, StopRaises, Release, Close
    <2>20. ASSUME NEW n \in Nodes, AgentUserNotFound(n) PROVE IInv'
      <3> DEFINE last == agent[n].retry + 1 >= MaxRetries
      <3>1. disturbed' \in BOOLEAN
        BY <2>20, Zenon DEF AgentUserNotFound
      <3>2. CASE last
        <4>1. disturbed'
          BY <2>20, <3>2, Zenon DEF AgentUserNotFound
        <4>2. agent' = [agent EXCEPT ![n] = [at |-> "save", new |-> Unknown]] /\ faults' = faults + 1
          BY <2>20, <3>2 DEF AgentUserNotFound
        <4>3. QED
          BY <1>2, <2>20, <3>1, <4>1, <4>2 DEF AgentUserNotFound
      <3>3. CASE ~last
        <4>1. disturbed' = disturbed
          BY <1>2, <2>20, <3>3, Zenon DEF AgentUserNotFound
        <4>2. agent' = [agent EXCEPT ![n] = [at |-> "change", retry |-> @.retry + 1]] /\ faults' = faults
          BY <2>20, <3>3 DEF AgentUserNotFound
        <4>3. QED
          BY <1>2, <2>20, <3>1, <3>3, <4>1, <4>2 DEF AgentUserNotFound
      <3>4. QED
        BY <3>2, <3>3
    <2>21. ASSUME NEW n \in Nodes, Terminate(n) PROVE IInv'
      BY <1>2, <2>21 DEF Terminate, GoMain
    <2>22. ASSUME NEW n \in Nodes, Crash(n) PROVE IInv'
      <3>1. disturbed' \in BOOLEAN
        BY <2>22, Zenon DEF Crash
      <3>2. ~disturbed' => ~disturbed /\ agent[n].at # "save"
        BY <2>22, Zenon DEF Crash
      <3>3. TypeOK'
        BY <1>2, <2>22, <3>1 DEF Crash, Forget
      <3>4. Leadership' /\ RowsRecorded' /\ StopOrder'
        BY <1>2, <2>22 DEF Crash, Forget
      <3>5. Resets'
        BY <1>2, <2>22, <3>2 DEF Crash, Forget
      <3>6. QED
        BY <3>3, <3>4, <3>5
    <2>23. ASSUME NEW n \in Nodes, Start(n) PROVE IInv'
      BY <1>2, <2>23 DEF Start, GoMain
    <2>24. ASSUME NEW n \in Nodes, NEW k \in Keys, LoseLease(n, k) PROVE IInv'
      <3>1. disturbed' \in BOOLEAN
        BY <2>24, Zenon DEF LoseLease
      <3>2. ~disturbed' => ~disturbed /\ k # ResetKey
        BY <2>24, Zenon DEF LoseLease
      <3>3. TypeOK'
        BY <1>2, <2>24, <3>1 DEF LoseLease, Lapse
      <3>4. Leadership' /\ RowsRecorded' /\ StopOrder'
        BY <1>2, <2>24 DEF LoseLease, Lapse
      <3>5. Resets'
        BY <1>2, <2>24, <3>2 DEF LoseLease, Lapse
      <3>6. QED
        BY <3>3, <3>4, <3>5
    <2>25. CASE Day
      BY <1>2, <2>25 DEF Day
    <2>26. ASSUME NEW n \in Nodes, AgentRaises(n) PROVE IInv'
      <3> USE DEF AgentRaises, Changed
      <3>1. CASE agent[n].at \in {"recheck", "change"} /\ UNCHANGED passwordVars
        BY <1>2, <2>26, <3>1
      <3>2. CASE agent[n].at = "change" /\ Changed /\ disturbed' = TRUE /\ UNCHANGED <<provider, secret>>
        BY <1>2, <2>26, <3>2
      <3>3. CASE agent[n].at = "save" /\ disturbed' = TRUE /\ UNCHANGED <<provider, age, directory, secret>>
        BY <1>2, <2>26, <3>3
      <3>4. CASE agent[n].at = "save" /\ secret' = agent[n].new /\ UNCHANGED <<provider, age, directory, disturbed>>
        BY <1>2, <2>26, <3>4
      <3>5. QED
        BY <2>26, <3>1, <3>2, <3>3, <3>4
    <2>27. CASE UNCHANGED vars
      BY <1>2, <2>27 DEF vars
    <2>28. QED
      BY ONLY <1>2, <2>1, <2>2, <2>3, <2>4, <2>5, <2>6, <2>7, <2>8, <2>9, <2>10, <2>11, <2>12, <2>13, <2>14,
         <2>15, <2>16, <2>17, <2>18, <2>19, <2>20, <2>21, <2>22, <2>23, <2>24, <2>25, <2>26, <2>27
         DEF Next, LoopStep, AgentStep, StopStep
  <1>3. QED
    BY <1>1, <1>2, PTL DEF Spec

-----------------------------------------------------------------------------
\* The variables keep their types.
THEOREM TypeCorrect == Spec => []TypeOK
  BY InvariantHolds, PTL DEF IInv

\* LeaderElection: a running node that takes itself for the leader owns the
\* lock of the leader, unless its lease ran out.
THEOREM LeaderIsOwner == Spec => []LeaderOwnsLock
  <1>1. IInv => LeaderOwnsLock
    BY DEF IInv, TypeOK, Leadership, Leads, LeaderOwnsLock
  <1>2. QED
    BY <1>1, InvariantHolds, PTL

\* SocaApp.stop, LeaderElection.stop and DistributedLock.stop: whatever the
\* election and the agent were doing, a stop leaves no row in the lock table.
THEOREM StopReleasesLocks == Spec => []StoppedNodeHoldsNoLock
  <1>1. IInv => StoppedNodeHoldsNoLock
    BY NodeParameters DEF IInv, TypeOK, RowsRecorded, StopOrder, StoppedNodeHoldsNoLock
  <1>2. QED
    BY <1>1, InvariantHolds, PTL

\* check_and_reset_admin_password: the second check, under the lock, keeps a
\* node from resetting a password that another one has just reset.
THEOREM NoNeedlessReset == Spec => ResetOnlyWhenExpired
  <1>1. ASSUME IInv, [Next]_vars
        PROVE  [directory' # directory /\ ~disturbed => age > PasswordMaxAge]_vars
    <2>1. SUFFICES ASSUME Next, directory' # directory, ~disturbed
                   PROVE  age > PasswordMaxAge
      BY <1>1
    <2>2. PICK n \in Nodes : AgentChange(n) \/ AgentRaises(n)
      BY <2>1 DEF Next, LoopStep, AgentStep, StopStep, passwordVars,
         ElectionRound, ElectionAcquire, ElectionTimeout, ElectionRecord, Appoint, ElectionWait,
         AgentCheck, AgentAcquire, AgentTimeout, AgentRecord, AgentRecheck, AgentSave, AgentRelease,
         AgentUserNotFound, AppStop, ElectionRelease, Dismiss, Join, LockStop, Terminate, Crash, Start,
         LoseLease, Day
    <2>3. agent[n].at = "change"
      BY <2>1, <2>2 DEF AgentChange, AgentRaises, passwordVars
    <2>4. IsPasswordExpired
      BY <1>1, <2>1, <2>3, Zenon DEF IInv, Resets
    <2>5. QED
      BY <1>1, <2>4, NodeParameters DEF IInv, TypeOK, IsPasswordExpired
  <1>2. QED
    BY <1>1, InvariantHolds, PTL DEF Spec, ResetOnlyWhenExpired

\* update_root_password: between two resets the secrets manager has the
\* password of a directory that AWS manages, unless a reset went wrong.
THEOREM SecretIsCurrent == Spec => []SecretMatchesDirectory
  <1>1. IInv => SecretMatchesDirectory
    BY DEF IInv, Resets, SecretMatchesDirectory
  <1>2. QED
    BY <1>1, InvariantHolds, PTL
=============================================================================
