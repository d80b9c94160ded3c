------------------------------- MODULE UserPool -------------------------------
(***************************************************************************)
(* The Cognito user pool: the script that puts the first administrator     *)
(* into it after a deployment (cognitoSetup.ts) and the operations of the  *)
(* user management service (userManagementService.ts and its Cognito       *)
(* plugin).  The script may stop anywhere and is run again.                *)
(***************************************************************************)
EXTENDS Integers, FiniteSets

CONSTANTS
    User,        \* email addresses
    Root,        \* ROOT_USER_EMAIL
    Role,        \* names of groups
    MaxDirect,   \* bound: operations of other programs on the pool
    MaxFaults    \* bound: failures of the script and of Cognito

ASSUME UserPoolAssumption ==
    /\ Root \in User /\ {"Admin", "Researcher"} \subseteq Role
    /\ MaxDirect \in Nat /\ MaxFaults \in Nat

VARIABLES
    groups,   \* groups of the pool
    users,    \* users of the pool
    member,   \* pairs of a user and a group
    setup,    \* progress of CognitoSetup
    direct,   \* operations of other programs so far
    faults    \* failures so far

poolVars == <<groups, users, member, setup, direct, faults>>

RolesOf(u) == {g \in groups : <<u, g>> \in member}

(***************************************************************************)
(* CognitoUserManagementPlugin: an operation either takes effect or throws *)
(* the error its guard names and changes nothing.                          *)
(***************************************************************************)
\* UserAlreadyExistsError
CreateUser(u) ==
    IF u \in users THEN UNCHANGED <<groups, users, member>>
    ELSE users' = users \cup {u} /\ UNCHANGED <<groups, member>>

\* UserNotFoundError
DeleteUser(u) ==
    /\ u \in users
    /\ users' = users \ {u}
    /\ member' = {m \in member : m[1] # u}
    /\ UNCHANGED groups

CanAddUserToRole(u, g) == u \in users /\ g \in groups

\* Mutant of AddUserToRole: the role does not have to exist.
AddUserToAnyRole(u, g) ==
    /\ member' = IF u \in users THEN member \cup {<<u, g>>} ELSE member
    /\ UNCHANGED <<groups, users>>

\* RoleNotFoundError, UserNotFoundError; a user who has the role keeps it
AddUserToRole(u, g) ==
    /\ member' = IF CanAddUserToRole(u, g) THEN member \cup {<<u, g>>} ELSE member
    /\ UNCHANGED <<groups, users>>

RemoveUserFromRole(u, g) ==
    /\ CanAddUserToRole(u, g)
    /\ member' = member \ {<<u, g>>}
    /\ UNCHANGED <<groups, users>>

\* RoleAlreadyExistsError
CreateRole(g) ==
    IF g \in groups THEN UNCHANGED <<groups, users, member>>
    ELSE groups' = groups \cup {g} /\ UNCHANGED <<users, member>>

\* RoleNotFoundError
DeleteRole(g) ==
    /\ g \in groups
    /\ groups' = groups \ {g}
    /\ member' = {m \in member : m[2] # g}
    /\ UNCHANGED users

(***************************************************************************)
(* CognitoSetup.run                                                        *)
(***************************************************************************)
SetupGoes(pc) == setup' = pc /\ UNCHANGED <<direct, faults>>

\* _getUserPoolId finds the pool of the deployment
StartSetup ==
    /\ setup = "stopped"
    /\ SetupGoes("creatingAdmin") /\ UNCHANGED <<groups, users, member>>

\* Mutant of CreateGroup: a group that exists ends the script.
CreateGroupOnce(g, next) ==
    /\ CreateRole(g)
    /\ SetupGoes(IF g \in groups THEN "stopped" ELSE next)

\* GroupExistsException is caught
CreateGroup(g, next) == CreateRole(g) /\ SetupGoes(next)

CreateAdminGroup ==
    /\ setup = "creatingAdmin"
    /\ CreateGroup("Admin", "creatingResearcher")

CreateResearcherGroup ==
    /\ setup = "creatingResearcher"
    /\ CreateGroup("Researcher", "creatingUser")

\* UsernameExistsException is caught
AdminCreateUser ==
    /\ setup = "creatingUser"
    /\ CreateUser(Root) /\ SetupGoes("addingUser")

\* throws when another program removed the user or the group meanwhile
AdminAddUserToGroup ==
    /\ setup = "addingUser"
    /\ AddUserToRole(Root, "Admin")
    /\ SetupGoes(IF CanAddUserToRole(Root, "Admin") THEN "done" ELSE "stopped")

SetupInterrupted ==
    /\ setup \notin {"stopped", "done"}
    /\ faults < MaxFaults
    /\ faults' = faults + 1
    /\ setup' = "stopped"
    /\ UNCHANGED <<groups, users, member, direct>>

SetupStep ==
    \/ StartSetup \/ CreateAdminGroup \/ CreateResearcherGroup
    \/ AdminCreateUser \/ AdminAddUserToGroup

(***************************************************************************)
(* Operations that the API does not offer, called by another program that  *)
(* uses the service, or on the console.  Nobody is made Admin this way.    *)
(***************************************************************************)
DirectStep ==
    /\ direct < MaxDirect
    /\ direct' = direct + 1
    /\ UNCHANGED <<setup, faults>>
    /\ \/ \E u \in User : DeleteUser(u)
       \/ \E u \in User, g \in Role : RemoveUserFromRole(u, g)
       \/ \E g \in Role : DeleteRole(g)
       \/ \E g \in Role \ groups : CreateRole(g)

PoolInit ==
    /\ groups = {} /\ users = {} /\ member = {}
    /\ setup = "stopped"
    /\ direct = 0 /\ faults = 0

PoolTypeOK ==
    /\ groups \subseteq Role /\ users \subseteq User
    /\ member \subseteq users \X groups
    /\ setup \in {"stopped", "creatingAdmin", "creatingResearcher", "creatingUser",
                  "addingUser", "done"}
    /\ direct \in 0..MaxDirect /\ faults \in 0..MaxFaults
================================================================================
