--------------------------- MODULE MCProjectAccess ---------------------------
(* ProjectAccess for TLC.  The two constraints cut off what would only     *)
(* multiply the states; what they leave is explored in full.                 *)
EXTENDS ProjectAccess

CONSTANTS u1, u2, g1, g2

MCGroupChoices == {{}, {g1}, {g1, g2}}
MCUserChoices == {Unset, {u1}, {u2}}

(* More than two events only where nothing failed, nobody is named, no list  *)
(* was emptied and every user has got a home: then up to four, enough for    *)
(* the tasks of two updates to wait while a group goes, or three where a     *)
(* user is renamed, enough for the user to leave a group as well.            *)
MCLongRuns ==
    events > 2 =>
        /\ faults = 0
        /\ project.users = Unset
        /\ "silent" \notin excuse
        /\ homes = Users
        /\ events > 3 => ad.renamed = {}

(* A project that names users has the old group at most.                     *)
MCNamedUsers == project.users # Unset => project.groups \subseteq {g1}
=============================================================================
