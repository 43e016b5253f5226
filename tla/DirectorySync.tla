---------------------------- MODULE DirectorySync ----------------------------
(***************************************************************************)
(* Users, groups and memberships, and their synchronisation from the       *)
(* directory: AccountsService and ADSyncService.  A user becomes a member  *)
(* of the groups only when it is activated (its first login); until then   *)
(* the groups are only noted in additional_groups.                          *)
(*                                                                          *)
(* Rows are keyed by the account name (sAMAccountName) of a user, while the  *)
(* directory is searched, and memberships are compared, by its common name  *)
(* (cn).  ad.renamed has the users whose common name is not their account   *)
(* name; it is nobody else's account name either.                            *)
(*                                                                          *)
(* The user's row is read and written in one step here: its writers, the   *)
(* synchronisation and an activation, change different attributes or add   *)
(* the same group.  Roles (admin groups) and e-mail are left out.           *)
(***************************************************************************)
EXTENDS UserProjects

CONSTANTS MaxFaults         \* bound: failed creations of groups and users, crashes

VARIABLES
    ad,         \* the directory: its groups, per user its groups or NoRow, and who
                \* is renamed
    homes,      \* the users for whom a home directory was requested
    synced,     \* history: "yes" when a synchronisation ended undisturbed
    faults

directoryVars == <<ad, homes, synced, faults>>

Rows == {u \in Users : user[u] # NoRow}
Known == {g \in Groups : group[g] # "none"}
InDirectory == {u \in Users : ad.of[u] # NoRow}

-----------------------------------------------------------------------------
(* AccountsService.                                                          *)

AddToGroup(u, g, bypass) == [op |-> "add_to_group", u |-> u, g |-> g, bypass |-> bypass]

Creating(a, u) == \E i \in DOMAIN todo[a] : todo[a][i] = [op |-> "request_home", u |-> u]

(* add_users_to_group, for one user.  Its caller goes on: an activation      *)
(* without the group, a synchronisation without the rest of create_user.     *)
AddUsersToGroup(a) ==
    /\ At(a, "add_to_group")
    /\ LET u == Cur(a).u
           g == Cur(a).g
       IN  IF group[g] # "enabled" \/ user[u] = NoRow \/ ~user[u].enabled
           THEN /\ RaiseSoca(a)
                /\ excuse' = excuse \cup (CASE a = "api" -> {"missed"}
                                           [] Creating(a, u) -> {"unhoused"}
                                           [] OTHER -> {})
                /\ UNCHANGED tables
           ELSE /\ user' = [user EXCEPT ![u].groups = @ \cup {g}]
                /\ IF Cur(a).bypass \/ user[u].active
                   THEN /\ members' = [members EXCEPT ![g] = @ \cup {u}]
                        /\ Continue(a, <<MemberAdded(g, u)>>)
                   ELSE Done(a) /\ UNCHANGED members
                /\ UNCHANGED <<group, project, links, access, excuse>>
    /\ UNCHANGED directoryVars

(* What remove_users_from_group does with a user it found.                   *)
Leave(a, u, g) ==
    /\ user' = [user EXCEPT ![u].groups = @ \ {g}]
    /\ members' = [members EXCEPT ![g] = @ \ {u}]
    /\ Continue(a, <<MemberRemoved(g, u)>>)
    /\ UNCHANGED <<group, project, links, access, excuse>>

(* Mutant: only an active user is taken for one of the group.                *)
RemoveFromGroupIfActive(a) ==
    /\ At(a, "remove_from_group")
    /\ LET u == Cur(a).u
           g == Cur(a).g
       IN  IF group[g] = "enabled" /\ user[u].enabled /\ user[u].active
           THEN Leave(a, u, g)
           ELSE RaiseSoca(a) /\ UNCHANGED <<tables, excuse>>
    /\ UNCHANGED directoryVars

(* handle_user_removal_from_group: a group that is gone is crossed out for   *)
(* an inactive user only; a disabled group or user is an error.              *)
RemoveFromGroup(a) ==
    /\ At(a, "remove_from_group")
    /\ LET u == Cur(a).u
           g == Cur(a).g
       IN  \/ /\ group[g] = "none"
              /\ user' = IF user[u].active THEN user
                         ELSE [user EXCEPT ![u].groups = @ \ {g}]
              /\ RaiseSoca(a)
              /\ UNCHANGED <<group, members, project, links, access, excuse>>
           \/ /\ group[g] = "disabled" \/ (group[g] = "enabled" /\ ~user[u].enabled)
              /\ RaiseSoca(a)
              /\ UNCHANGED <<tables, excuse>>
           \/ /\ group[g] = "enabled" /\ user[u].enabled
              /\ Leave(a, u, g)
    /\ UNCHANGED directoryVars

(* remove_users_from_group with force, for one user.                         *)
ForceRemove(a) ==
    /\ At(a, "force_remove")
    /\ IF user[Cur(a).u] = NoRow
       THEN Done(a) /\ UNCHANGED <<tables, excuse>>
       ELSE Leave(a, Cur(a).u, Cur(a).g)
    /\ UNCHANGED directoryVars

(* create_user looks the user up in the directory again, under the name of   *)
(* its row.  It fails as well when sssd does not know the user yet, or the   *)
(* user has no valid name or mail.                                           *)
CreateUser(a) ==
    /\ At(a, "create_user")
    /\ LET u == Cur(a).u
           found == ad.of[u] # NoRow /\ u \notin ad.renamed
       IN  \/ /\ ~found \/ user[u] # NoRow
              /\ RaiseSoca(a)
              /\ UNCHANGED <<tables, faults>>
           \/ /\ faults < MaxFaults
              /\ faults' = faults + 1
              /\ RaiseSoca(a)
              /\ UNCHANGED tables
           \/ /\ found /\ user[u] = NoRow
              /\ user' = [user EXCEPT ![u] =
                     [enabled |-> TRUE, active |-> FALSE, groups |-> Cur(a).groups]]
              /\ Continue(a, ForEach([g \in Cur(a).groups |-> AddToGroup(u, g, FALSE)])
                              \o <<[op |-> "request_home", u |-> u]>>)
              /\ UNCHANGED <<group, members, project, links, access, faults>>
    /\ UNCHANGED <<excuse, ad, homes, synced>>

RequestHome(a) ==
    /\ At(a, "request_home")
    /\ homes' = homes \cup {Cur(a).u}
    /\ Done(a)
    /\ UNCHANGED <<tables, excuse, ad, synced, faults>>

(* delete_user and remove_user_from_groups: a user that is gone is skipped,  *)
(* nothing is cleaned up for a disabled user, and the memberships of         *)
(* disabled groups stay.                                                     *)
DeleteUser(a) ==
    /\ At(a, "delete_user")
    /\ LET u == Cur(a).u
           row == user[u]
           left == {g \in row.groups : group[g] = "enabled"}
           crossed == left \cup {g \in row.groups : group[g] = "none" /\ ~row.active}
       IN  IF row = NoRow
           THEN Done(a) /\ UNCHANGED <<user, members>>
           ELSE IF row.enabled /\ row.groups # {}
           THEN /\ members' = [g \in Groups |-> IF g \in left THEN members[g] \ {u} ELSE members[g]]
                /\ user' = [user EXCEPT ![u].groups = @ \ crossed]
                /\ Continue(a, ForEach([g \in row.groups |-> MemberRemoved(g, u)])
                               \o <<[op |-> "drop_user", u |-> u]>>)
           ELSE /\ Continue(a, <<[op |-> "drop_user", u |-> u]>>)
                /\ UNCHANGED <<user, members>>
    /\ UNCHANGED <<group, project, links, access, excuse, directoryVars>>

DropUser(a) ==
    /\ At(a, "drop_user")
    /\ user' = [user EXCEPT ![Cur(a).u] = NoRow]
    /\ excuse' = IF \E g \in Groups : Cur(a).u \in members[g]
                 THEN excuse \cup {"orphaned"} ELSE excuse
    /\ Done(a)
    /\ UNCHANGED <<group, members, project, links, access, directoryVars>>

(* create_group looks the group up in the directory again, and its gid in    *)
(* sssd, which may not know it yet.                                          *)
CreateGroup(a) ==
    /\ At(a, "create_group")
    /\ \/ /\ Cur(a).g \in ad.groups
          /\ group' = [group EXCEPT ![Cur(a).g] = "enabled"]
          /\ Done(a)
          /\ UNCHANGED faults
       \/ /\ faults < MaxFaults
          /\ faults' = faults + 1
          /\ RaiseSoca(a)
          /\ UNCHANGED group
       \/ /\ Cur(a).g \notin ad.groups
          /\ RaiseSoca(a)
          /\ UNCHANGED <<group, faults>>
    /\ UNCHANGED <<user, members, project, links, access, excuse, ad, homes, synced>>

(* delete_group with force: the members, the projects, the group.            *)
DeleteGroup(a) ==
    /\ At(a, "delete_group")
    /\ LET g == Cur(a).g
       IN  Continue(a, ForEach([u \in members[g] |-> [op |-> "force_remove", u |-> u, g |-> g]])
                       \o Catch \o <<[op |-> "remove_project", g |-> g]>>
                       \o Catch \o <<[op |-> "drop_group", g |-> g]>>)
    /\ UNCHANGED <<tables, excuse, directoryVars>>

(* remove_projects_from_group: only a project that still names the group     *)
(* loses it; one that is gone is an error that nobody expected.              *)
RemoveProject(a) ==
    /\ At(a, "remove_project")
    /\ LET g == Cur(a).g
       IN  \/ /\ g \in links /\ ~Exists
              /\ RaiseOther(a)
              /\ UNCHANGED project
           \/ /\ g \in links /\ Exists /\ g \in project.groups
              /\ project' = [project EXCEPT !.groups = @ \ {g}]
              /\ Continue(a, <<GroupRemoved(g)>>)
           \/ /\ g \notin links \/ (Exists /\ g \notin project.groups)
              /\ Done(a)
              /\ UNCHANGED project
    /\ UNCHANGED <<user, group, members, links, access, excuse, directoryVars>>

DropGroup(a) ==
    /\ At(a, "drop_group")
    /\ group' = [group EXCEPT ![Cur(a).g] = "none"]
    /\ Done(a)
    /\ UNCHANGED <<user, members, project, links, access, excuse, directoryVars>>

-----------------------------------------------------------------------------
(* ADSyncService.  The groups and, later, the users are read at once; every  *)
(* difference is a handler in a try block of its own.                        *)

SyncAllGroups(a) ==
    /\ At(a, "sync_groups")
    /\ LET theirs == ad.groups
       IN  Continue(a, Tried([g \in theirs \ Known |-> [op |-> "create_group", g |-> g]])
                       \o Tried([g \in Known \ theirs |-> [op |-> "delete_group", g |-> g]])
                       \o <<[op |-> "sync_users", groups |-> theirs]>>)
    /\ UNCHANGED <<tables, excuse, directoryVars>>

(* A user who stays, with the groups it should have, and whether its common  *)
(* name finds its row.                                                       *)
Compare(u, theirs) ==
    [op |-> "compare", u |-> u, added |-> theirs \ user[u].groups,
     removed |-> user[u].groups \ theirs, found |-> u \notin ad.renamed]

SyncAllUsers(a) ==
    /\ At(a, "sync_users")
    /\ LET groups == Cur(a).groups
           failed == groups \ Known             \* group_addition_failures
           here == InDirectory
       IN  Continue(a, Tried([u \in here \ Rows |-> [op |-> "create_user", u |-> u,
                                                    groups |-> ad.of[u] \cap groups]])
                       \o Tried([u \in Rows \ here |-> [op |-> "delete_user", u |-> u]])
                       \o ForEach([u \in here \cap Rows |->
                                      Compare(u, (ad.of[u] \cap groups) \ failed)])
                       \o <<[op |-> "synced"]>>)
    /\ UNCHANGED <<tables, excuse, directoryVars>>

(* A user that is not found cannot be added to any group.  Nor removed: the  *)
(* handler of that error looks for the user again, outside of the try block, *)
(* and the synchronisation ends there.                                       *)
CompareUser(a) ==
    /\ At(a, "compare")
    /\ LET u == Cur(a).u
       IN  \/ /\ Cur(a).found
              /\ Continue(a, Tried([g \in Cur(a).added |-> AddToGroup(u, g, FALSE)])
                              \o Tried([g \in Cur(a).removed |->
                                           [op |-> "remove_from_group", u |-> u, g |-> g]]))
              /\ UNCHANGED synced
           \/ /\ ~Cur(a).found /\ Cur(a).removed = {}
              /\ Done(a)
              /\ UNCHANGED synced
           \/ /\ ~Cur(a).found /\ Cur(a).removed # {}
              /\ Raise(a, {})                   \* caught nowhere
              /\ synced' = "no"
    /\ UNCHANGED <<tables, excuse, ad, homes, faults>>

Synced(a) ==
    /\ At(a, "synced")
    /\ synced' = IF synced = "running" THEN "yes" ELSE synced
    /\ Done(a)
    /\ UNCHANGED <<tables, excuse, ad, homes, faults>>

-----------------------------------------------------------------------------
(* The directory changes: a user comes, goes, is renamed or gets its account *)
(* name back as its common name; it joins or leaves a group; a group comes,  *)
(* or goes with its memberships.                                             *)
DirectoryChange(new) ==
    /\ new # ad
    /\ ad' = new
    /\ synced' = "no"
    /\ UNCHANGED <<tables, todo, excuse, homes, faults>>

UserChanges ==
    {[ad EXCEPT !.of[u] = NoRow, !.renamed = @ \ {u}] : u \in Users}
        \cup {[ad EXCEPT !.of[u] = {}] : u \in Users \ InDirectory}
        \cup {[ad EXCEPT !.renamed = @ \cup {u}] : u \in InDirectory}
        \cup {[ad EXCEPT !.renamed = @ \ {u}] : u \in InDirectory}

MembershipChanges ==
    {[ad EXCEPT !.of[u] = IF g \in @ THEN @ \ {g} ELSE @ \cup {g}]
        : u \in InDirectory, g \in ad.groups}

GroupChanges ==
    {[ad EXCEPT !.groups = @ \cup {g}] : g \in Groups}
        \cup {[ad EXCEPT !.groups = @ \ {g},
                         !.of = [u \in Users |-> IF u \in InDirectory THEN @[u] \ {g} ELSE NoRow]]
                 : g \in Groups}

DirectoryChanges == UserChanges \cup MembershipChanges \cup GroupChanges

DirectoryStep(a) ==
    \/ AddUsersToGroup(a) \/ RemoveFromGroup(a) \/ ForceRemove(a)
    \/ CreateUser(a) \/ RequestHome(a) \/ DeleteUser(a) \/ DropUser(a)
    \/ CreateGroup(a) \/ DeleteGroup(a) \/ RemoveProject(a) \/ DropGroup(a)
    \/ SyncAllGroups(a) \/ SyncAllUsers(a) \/ CompareUser(a) \/ Synced(a)
=============================================================================
