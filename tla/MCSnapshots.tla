----------------------------- MODULE MCSnapshots ------------------------------
(* Two creations and two listings of two tables; two applications of four   *)
(* tables' records, in an environment that has two software stacks of the   *)
(* same names, one of them with the very content of the snapshot, and only  *)
(* one of the two users.  It cannot take a stack and the file system of the *)
(* second snapshot.                                                          *)
EXTENDS Snapshots, TLC

CONSTANTS a1, a2

MCSymmetry == Permutations(Creators) \cup Permutations(Listers)

MCExportedTables == <<"users", "projects">>
MCRecords == <<<<"v", "u">>, <<>>, <<"p">>, <<"s", "t">>, <<"f">>>>
MCAccounts == {"u"}
MCUnfit == (a1 :> {} @@ a2 :> {"s", "f"})
MCWantedRole == (a1 :> "admin" @@ a2 :> "user")

Row(table, name, by) == [table |-> table, name |-> name, suffix |-> None, by |-> by]
MCEnvironments == {{Row(4, "s", "env"), Row(4, "t", "same")}}
=============================================================================
