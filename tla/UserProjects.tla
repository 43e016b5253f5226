---------------------------- MODULE UserProjects -----------------------------
(***************************************************************************)
(* Who may use a project.  The cluster manager keeps, next to the projects *)
(* themselves, one row per user and project with the reasons of the user's *)
(* access: the groups of the project the user is a member of, and SELF for *)
(* a user the project names (UserProjectsDAO).  The rows are derived data, *)
(* brought up to date by fan-outs of many small writes.                     *)
(*                                                                          *)
(* An operation is therefore a plan, a sequence of database steps that an  *)
(* actor carries out one at a time:                                         *)
(*                                                                          *)
(*   "api"       a request (AccountsService, ProjectsService)               *)
(*   "projects"  the task executor, with a task about the project           *)
(*   "sync"      the task executor, with the synchronisation from AD        *)
(*                                                                          *)
(* This module has the tables and the steps of UserProjectsDAO;             *)
(* DirectorySync and ProjectAccess add theirs.                              *)
(***************************************************************************)
EXTENDS Naturals, Sequences, SequencesExt, FiniteSets

CONSTANTS Users, Groups, Self, NoRow, Unset

ASSUME MembershipParameters ==
    /\ IsFiniteSet(Users) /\ IsFiniteSet(Groups)
    /\ Self \notin Groups
    /\ \A U \in SUBSET Users : U # Unset
    /\ \A G \in SUBSET Groups : G # NoRow
    /\ \A r \in [enabled : BOOLEAN, active : BOOLEAN, groups : SUBSET Groups] : r # NoRow

VARIABLES
    user,       \* accounts.users: NoRow, or enabled, is_active, additional_groups
    group,      \* accounts.groups: "none", "enabled" or "disabled"
    members,    \* accounts.group-members
    project,    \* the row of the project: its state, ldap_groups and users
    links,      \* project_groups: the groups that lead to the project
    access,     \* user_projects: by_ldaps per user, {} for no row
    todo,       \* per actor, the rest of its plan
    excuse      \* history: the known ways in which the tables were left apart

tables == <<user, group, members, project, links, access>>

Actors == {"api", "projects", "sync"}

Exists == project.state \in {"enabled", "disabled"}

-----------------------------------------------------------------------------
(* Plans.                                                                   *)

At(a, op) == todo[a] # <<>> /\ todo[a][1].op = op
Cur(a) == todo[a][1]

(* The steps that remain; the end of a try block is not a step of its own.   *)
Remaining(steps) ==
    LET first == SelectInSeq(steps, LAMBDA s : s.op \notin {"catch", "catch_all"})
    IN  IF first = 0 THEN <<>> ELSE SubSeq(steps, first, Len(steps))

(* The current step is done, and these steps come before the others.        *)
Continue(a, steps) == todo' = [todo EXCEPT ![a] = Remaining(steps \o Tail(@))]
Done(a) == Continue(a, <<>>)

(* One step per element of a set, or two, of which the second is always      *)
(* next.  The set is the domain of the function that gives the steps.        *)
ForEach(step) ==
    LET order == SetToSeq(DOMAIN step) IN [i \in DOMAIN order |-> step[order[i]]]
ForEachThen(step, next) ==
    LET order == SetToSeq(DOMAIN step)
    IN  [i \in 1 .. 2 * Len(order) |-> IF i % 2 = 1 THEN step[order[(i + 1) \div 2]] ELSE next]

Catch == <<[op |-> "catch"]>>         \* the end of an "except SocaException"

(* One step per element, in an "except Exception" of its own.                *)
Tried(step) == ForEachThen(step, [op |-> "catch_all"])

(* An exception leaves the plan up to the end of the first try block that    *)
(* catches it.  Without one the request ends, or the task fails and is not   *)
(* deleted from the queue.                                                   *)
Raise(a, catchers) ==
    LET caught == SelectInSeq(todo[a], LAMBDA s : s.op \in catchers)
    IN  todo' = [todo EXCEPT ![a] = IF caught = 0 THEN <<>>
                                    ELSE Remaining(SubSeq(@, caught + 1, Len(@)))]
RaiseSoca(a) == Raise(a, {"catch", "catch_all"})
RaiseOther(a) == Raise(a, {"catch_all"})

-----------------------------------------------------------------------------
(* UserProjectsDAO.                                                          *)

GroupAdded(g) == [op |-> "link", g |-> g]
GroupRemoved(g) == [op |-> "unlink", g |-> g]
CreateUserProject(u, by) == [op |-> "grant", u |-> u, by |-> by]
DeleteUserProject(u, by) == [op |-> "revoke", u |-> u, by |-> by]
MemberAdded(g, u) == [op |-> "member_added", g |-> g, u |-> u]
MemberRemoved(g, u) == [op |-> "member_removed", g |-> g, u |-> u]

(* ldap_group_added and ldap_group_removed: the link, then the members.      *)
Link(a) ==
    /\ At(a, "link")
    /\ links' = links \cup {Cur(a).g}
    /\ Continue(a, <<[op |-> "grant_members", g |-> Cur(a).g]>>)
    /\ UNCHANGED <<user, group, members, project, access, excuse>>

Unlink(a) ==
    /\ At(a, "unlink")
    /\ links' = links \ {Cur(a).g}
    /\ Continue(a, <<[op |-> "revoke_members", g |-> Cur(a).g]>>)
    /\ UNCHANGED <<user, group, members, project, access, excuse>>

GrantMembers(a) ==
    /\ At(a, "grant_members")
    /\ LET g == Cur(a).g
       IN  Continue(a, ForEach([u \in members[g] |-> CreateUserProject(u, g)]))
    /\ UNCHANGED <<tables, excuse>>

RevokeMembers(a) ==
    /\ At(a, "revoke_members")
    /\ LET g == Cur(a).g
       IN  Continue(a, ForEach([u \in members[g] |-> DeleteUserProject(u, g)]))
    /\ UNCHANGED <<tables, excuse>>

(* group_member_added and group_member_removed: through the links.           *)
MemberChanged(a) ==
    \/ /\ At(a, "member_added")
       /\ Continue(a, IF Cur(a).g \in links
                      THEN <<CreateUserProject(Cur(a).u, Cur(a).g)>> ELSE <<>>)
       /\ UNCHANGED <<tables, excuse>>
    \/ /\ At(a, "member_removed")
       /\ Continue(a, IF Cur(a).g \in links
                      THEN <<DeleteUserProject(Cur(a).u, Cur(a).g)>> ELSE <<>>)
       /\ UNCHANGED <<tables, excuse>>

(* create_user_project: the row is read, and written in a second step.       *)
Grant(a) ==
    /\ At(a, "grant")
    /\ Continue(a, <<[op |-> "write", u |-> Cur(a).u,
                      row |-> access[Cur(a).u] \cup {Cur(a).by}]>>)
    /\ UNCHANGED <<tables, excuse>>

(* Mutant: the row is deleted whatever other reasons it has.                 *)
RevokeEverything(a) ==
    /\ At(a, "revoke")
    /\ LET u == Cur(a).u
       IN  IF ~Exists \/ user[u] = NoRow THEN RaiseSoca(a)
           ELSE Continue(a, <<[op |-> "write", u |-> u, row |-> {}]>>)
    /\ UNCHANGED <<tables, excuse>>

(* delete_user_project: both the project and the user must exist.            *)
Revoke(a) ==
    /\ At(a, "revoke")
    /\ LET u == Cur(a).u
       IN  IF ~Exists \/ user[u] = NoRow THEN RaiseSoca(a)
           ELSE Continue(a, IF access[u] = {} THEN <<>>
                            ELSE <<[op |-> "write", u |-> u, row |-> access[u] \ {Cur(a).by}]>>)
    /\ UNCHANGED <<tables, excuse>>

(* update_item, put_item or delete_item.                                     *)
Write(a) ==
    /\ At(a, "write")
    /\ access' = [access EXCEPT ![Cur(a).u] = Cur(a).row]
    /\ Done(a)
    /\ UNCHANGED <<user, group, members, project, links, excuse>>

(* project_enabled and project_disabled, for the row as it is now.  A        *)
(* project without a users attribute cannot be disabled: project['users'].   *)
Named == IF project.users = Unset THEN {} ELSE project.users

ProjectEnabled ==
    ForEach([g \in project.groups |-> GroupAdded(g)])
        \o ForEach([u \in Named |-> CreateUserProject(u, Self)])
ProjectDisabled ==
    ForEach([g \in project.groups |-> GroupRemoved(g)])
        \o ForEach([u \in Named |-> DeleteUserProject(u, Self)])

Refresh(a) ==
    /\ At(a, "refresh")
    /\ IF Exists THEN Continue(a, ProjectEnabled) ELSE RaiseOther(a)
    /\ UNCHANGED <<tables, excuse>>

UserProjectsStep(a) ==
    \/ Link(a) \/ Unlink(a) \/ GrantMembers(a) \/ RevokeMembers(a)
    \/ MemberChanged(a) \/ Grant(a) \/ Revoke(a) \/ Write(a) \/ Refresh(a)
=============================================================================
