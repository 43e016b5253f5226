-------------------------- MODULE MCSessionSettings --------------------------
(* SessionSettings for TLC: two guests, a check when the hours begin and one *)
(* when the custom hours end and the working hours do not.                   *)
EXTENDS SessionSettings

CONSTANTS g1, g2, p1

MCHours == [type |-> "WORKING_HOURS", start |-> 480, stop |-> 1050]
MCCustom == [type |-> "CUSTOM_SCHEDULE", start |-> 480, stop |-> 1020]
MCNight == [type |-> "CUSTOM_SCHEDULE", start |-> 1020, stop |-> 480]
MCWishes == {NoSchedule, MCHours, MCCustom, MCNight,
             [type |-> "STOP_ALL_DAY", start |-> 0, stop |-> 0]}
MCTimes == <<480, 1020>>

MCRow(expiry) == [profile |-> p1, expiry |-> expiry]
MCRequests == {(g1 :> MCRow(600) @@ g2 :> Gone), (g1 :> Gone @@ g2 :> Keep)}
MCStarts ==
    {[state |-> "READY", wish |-> NoSchedule, perms |-> (g1 :> Gone @@ g2 :> MCRow(600))],
     [state |-> "READY", wish |-> MCCustom, perms |-> (g1 :> MCRow(480) @@ g2 :> MCRow(480))],
     [state |-> "STOPPED", wish |-> MCHours, perms |-> (g1 :> MCRow(480) @@ g2 :> MCRow(600))]}
=============================================================================
