---------------------------- MODULE MCEventQueue -----------------------------
(* EventQueue for TLC: two events of one group, or of two groups.            *)
EXTENDS EventQueue

CONSTANTS m1, m2, m3, g1, g2

MCGroupOf == m1 :> g1 @@ m2 :> g1 @@ m3 :> g2
MCKindsOf == m1 :> Kinds @@ m2 :> {"event"} @@ m3 :> {"event", "unknown"}
=============================================================================
