--------------------------- MODULE DataSetEndpoints ---------------------------
(***************************************************************************)
(* The external endpoints of one dataset: the list of endpoint ids in the  *)
(* dataset's row, the endpoint rows, and the S3 access points behind them  *)
(* (dataSetService.ts, s3DataSetStoragePlugin.ts,                          *)
(* ddbDataSetMetadataPlugin.ts).                                           *)
(*                                                                         *)
(* Clients are the launches that mount the dataset, the share route, the   *)
(* status handlers that admit an instance role and the terminations that   *)
(* unmount.  Each makes one call, and every await of a call is a point     *)
(* where the others run.  A row is read whole and written whole, so a call *)
(* works on what it read.  Endpoint ids are fresh: an add by client c      *)
(* creates the id c.                                                       *)
(***************************************************************************)
EXTENDS FiniteSets

CONSTANTS
    Client,   \* callers, each with one call; also the endpoint ids
    Name,     \* names of endpoints, which are also names of access points
    Role,     \* IAM roles
    RoleOf,   \* the role of the environment an endpoint of that name serves
    Nobody    \* neither a client nor a name

ASSUME RoleAssumption   == RoleOf \in [Name -> Role]
ASSUME NobodyAssumption == Nobody \notin Client \cup Name

VARIABLES
    externalEndpoints,  \* the DATASET# row: ids of the endpoints registered
    endpoint,           \* the ENDPOINT# rows: id -> name and allowedRoles
    accessPoint,        \* S3: name -> the client that created the access point
    policy,             \* S3: name -> roles its access point policy admits
    delegated,          \* the bucket policy delegates to access points
    client              \* progress of every call

s3Vars == <<accessPoint, policy, delegated>>
vars == <<externalEndpoints, endpoint, accessPoint, policy, delegated, client>>

NoEndpoint == [name |-> Nobody, roles |-> {}]

Stored == {i \in Client : endpoint[i] # NoEndpoint}

\* A call in progress: what it was asked, and what it read.
Call(op, pc, name, id, share, seen) ==
    [op |-> op, pc |-> pc, name |-> name, id |-> id, share |-> share,
     seen |-> seen, roles |-> {}]

NewClient == Call("none", "new", Nobody, Nobody, FALSE, {})

Goto(c, pc) == client' = [client EXCEPT ![c].pc = pc]

(***************************************************************************)
(* addDataSetExternalEndpoint(name[, role]); "share" is the call with a    *)
(* role                                                                    *)
(***************************************************************************)
\* getDataSet.  The code then looks for the *name* among the endpoint *ids*, so
\* its "already exists" answer is never given: no id is a name.
BeginAdd(c, n, share) ==
    /\ client[c].pc = "new"
    /\ client' = [client EXCEPT ![c] = Call("add", "creating", n, c, share, externalEndpoints)]
    /\ UNCHANGED <<externalEndpoints, endpoint, s3Vars>>

\* Mutant of CreateAccessPoint: a name in use is taken for success.
CreateOrReuseAccessPoint(c) ==
    /\ client[c].pc = "creating"
    /\ accessPoint' = [accessPoint EXCEPT ![client[c].name] = c]
    /\ policy' = [policy EXCEPT ![client[c].name] = {}]
    /\ Goto(c, "delegating")
    /\ UNCHANGED <<externalEndpoints, endpoint, delegated>>

\* createAccessPoint refuses a name in use (the call then fails, see Fail)
CreateAccessPoint(c) ==
    /\ client[c].pc = "creating"
    /\ accessPoint[client[c].name] = Nobody
    /\ accessPoint' = [accessPoint EXCEPT ![client[c].name] = c]
    /\ policy' = [policy EXCEPT ![client[c].name] = {}]
    /\ Goto(c, "delegating")
    /\ UNCHANGED <<externalEndpoints, endpoint, delegated>>

\* _configureBucketPolicy: the statement is the same for every access point
ConfigureBucketPolicy(c) ==
    /\ client[c].pc = "delegating"
    /\ delegated' = TRUE
    /\ Goto(c, IF client[c].share THEN "admitting" ELSE "validating")
    /\ UNCHANGED <<externalEndpoints, endpoint, accessPoint, policy>>

\* _configureAccessPointPolicy on the new access point; it fails when the
\* access point is gone
AdmitSharedRole(c) ==
    /\ client[c].pc = "admitting"
    /\ accessPoint[client[c].name] # Nobody
    /\ policy' = [policy EXCEPT ![client[c].name] = @ \cup {RoleOf[client[c].name]}]
    /\ Goto(c, "validating")
    /\ UNCHANGED <<externalEndpoints, endpoint, accessPoint, delegated>>

\* Mutant of ValidateName: the list is updated before, and without, the row.
ValidateNameOnly(c) ==
    /\ client[c].pc = "validating"
    /\ \A i \in Stored : endpoint[i].name # client[c].name
    /\ Goto(c, "registering")
    /\ UNCHANGED <<externalEndpoints, endpoint, s3Vars>>

\* _validateCreateExternalEndpoint: no endpoint row may have the name
ValidateName(c) ==
    /\ client[c].pc = "validating"
    /\ \A i \in Stored : endpoint[i].name # client[c].name
    /\ Goto(c, "storing")
    /\ UNCHANGED <<externalEndpoints, endpoint, s3Vars>>

\* _storeEndPointToDdb under a fresh id
StoreEndpoint(c) ==
    /\ client[c].pc = "storing"
    /\ endpoint' = [endpoint EXCEPT ![c] =
         [name |-> client[c].name,
          roles |-> IF client[c].share THEN {RoleOf[client[c].name]} ELSE {}]]
    /\ Goto(c, "registering")
    /\ UNCHANGED <<externalEndpoints, s3Vars>>

\* Mutant of Register: the row that addExternalEndpoint returns has no id.
RegisterWithoutId(c) ==
    /\ client[c].pc = "registering"
    /\ externalEndpoints' = client[c].seen \cup {Nobody}
    /\ Goto(c, "done")
    /\ UNCHANGED <<endpoint, s3Vars>>

\* updateDataSet with the list that was read, and the new id
Register(c) ==
    /\ client[c].pc = "registering"
    /\ externalEndpoints' = client[c].seen \cup {c}
    /\ Goto(c, "done")
    /\ UNCHANGED <<endpoint, s3Vars>>

(***************************************************************************)
(* removeDataSetExternalEndpoint(id)                                       *)
(***************************************************************************)
\* Mutant of BeginRemove: the early return for an id that is not listed is lost.
BeginRemoveUnlisted(c, i) ==
    /\ client[c].pc = "new"
    /\ i \in Stored
    /\ client' = [client EXCEPT ![c] =
         Call("remove", "deleting", endpoint[i].name, i, FALSE, externalEndpoints)]
    /\ UNCHANGED <<externalEndpoints, endpoint, s3Vars>>

\* getDataSet and getExternalEndPoint; an id that is not listed is left alone
BeginRemove(c, i) ==
    /\ client[c].pc = "new"
    /\ i \in Stored
    /\ client' = [client EXCEPT ![c] =
         Call("remove", IF i \in externalEndpoints THEN "deleting" ELSE "skipped",
              endpoint[i].name, i, FALSE, externalEndpoints)]
    /\ UNCHANGED <<externalEndpoints, endpoint, s3Vars>>

DeleteAccessPoint(c) ==
    /\ client[c].pc = "deleting"
    /\ accessPoint[client[c].name] # Nobody
    /\ accessPoint' = [accessPoint EXCEPT ![client[c].name] = Nobody]
    /\ policy' = [policy EXCEPT ![client[c].name] = {}]
    /\ Goto(c, "unregistering")
    /\ UNCHANGED <<externalEndpoints, endpoint, delegated>>

\* lodash remove returns what it took out of the array, and that is stored
Kept(seen, id) == {e \in seen : e = id}

Unregister(c) ==
    /\ client[c].pc = "unregistering"
    /\ externalEndpoints' = Kept(client[c].seen, client[c].id)
    /\ Goto(c, "done")
    /\ UNCHANGED <<endpoint, s3Vars>>

(***************************************************************************)
(* addRoleToExternalEndpoint(id, role)                                     *)
(***************************************************************************)
BeginGrant(c, i) ==
    /\ client[c].pc = "new"
    /\ i \in Stored
    /\ client' = [client EXCEPT ![c] =
         [Call("grant", IF RoleOf[endpoint[i].name] \in endpoint[i].roles
                        THEN "done" ELSE "getting", endpoint[i].name, i, FALSE, {})
            EXCEPT !.roles = endpoint[i].roles]]
    /\ UNCHANGED <<externalEndpoints, endpoint, s3Vars>>

\* Mutant of PutAccessPointPolicy: the put is not awaited before the row is written.
PutAccessPointPolicyLater(c) ==
    /\ client[c].pc = "getting"
    /\ accessPoint[client[c].name] # Nobody
    /\ Goto(c, "recording")
    /\ UNCHANGED <<externalEndpoints, endpoint, s3Vars>>

\* getAccessPointPolicy and putAccessPointPolicy.  No two roles are ever granted
\* on one name, so what another call puts in between is the same policy.
PutAccessPointPolicy(c) ==
    /\ client[c].pc = "getting"
    /\ accessPoint[client[c].name] # Nobody
    /\ policy' = [policy EXCEPT ![client[c].name] = @ \cup {RoleOf[client[c].name]}]
    /\ Goto(c, "recording")
    /\ UNCHANGED <<externalEndpoints, endpoint, accessPoint, delegated>>

\* updateExternalEndpoint with the roles that were read, and the new one
RecordRole(c) ==
    /\ client[c].pc = "recording"
    /\ endpoint' = [endpoint EXCEPT ![client[c].id].roles =
         client[c].roles \cup {RoleOf[client[c].name]}]
    /\ Goto(c, "done")
    /\ UNCHANGED <<externalEndpoints, s3Vars>>

\* An await rejects, a validation throws or the lambda is stopped.  Nothing is
\* rolled back.
Fail(c) ==
    /\ client[c].pc \notin {"new", "done", "skipped", "failed"}
    /\ Goto(c, "failed")
    /\ UNCHANGED <<externalEndpoints, endpoint, s3Vars>>

(***************************************************************************)
(* The specification                                                       *)
(***************************************************************************)
Init ==
    /\ externalEndpoints = {}
    /\ endpoint = [i \in Client |-> NoEndpoint]
    /\ accessPoint = [n \in Name |-> Nobody]
    /\ policy = [n \in Name |-> {}]
    /\ delegated = FALSE
    /\ client = [c \in Client |-> NewClient]

Add(c) ==
    \/ \E n \in Name, share \in BOOLEAN : BeginAdd(c, n, share)
    \/ CreateAccessPoint(c) \/ ConfigureBucketPolicy(c) \/ AdmitSharedRole(c)
    \/ ValidateName(c) \/ StoreEndpoint(c) \/ Register(c)

Remove(c) ==
    \/ \E i \in Client : BeginRemove(c, i)
    \/ DeleteAccessPoint(c) \/ Unregister(c)

Grant(c) ==
    \/ \E i \in Client : BeginGrant(c, i)
    \/ PutAccessPointPolicy(c) \/ RecordRole(c)

Next == \E c \in Client : Add(c) \/ Remove(c) \/ Grant(c) \/ Fail(c)

Spec == Init /\ [][Next]_vars
(***************************************************************************)
(* Properties                                                              *)
(***************************************************************************)
AddPC == {"creating", "delegating", "admitting", "validating", "storing", "registering"}
PC == AddPC \cup {"deleting", "unregistering", "getting", "recording", "done", "skipped", "failed"}

CallState == [op : {"add", "remove", "grant"}, pc : PC, name : Name, id : Client,
              share : BOOLEAN, seen : SUBSET Client, roles : SUBSET Role]

EndpointState == [name : Name, roles : SUBSET Role]

\* Every variable holds a value the code can give it.
TypeOK ==
    /\ externalEndpoints \subseteq Client
    /\ endpoint \in [Client -> EndpointState \cup {NoEndpoint}]
    /\ accessPoint \in [Name -> Client \cup {Nobody}]
    /\ policy \in [Name -> SUBSET Role]
    /\ delegated \in BOOLEAN
    /\ client \in [Client -> CallState \cup {NewClient}]

\* externalEndpoint.ts: an endpoint's name is unique within its dataset.  The
\* code queries for the name and stores the row later, so two calls could both
\* find it free; what prevents it is that each must first create an access
\* point of that name, and only a stored endpoint's access point is deleted.
EndpointNamesUnique ==
    \A i, j \in Stored : endpoint[i].name = endpoint[j].name => i = j

\* Every id in the dataset's list has its endpoint row, although the list is
\* written back whole by calls that read it long before: getDataSetMountObject
\* finds the row of any id that it finds listed.
ListedIsStored == externalEndpoints \subseteq Stored

\* externalEndpoint.ts: allowedRoles are roles for which access has been
\* granted.  The access point's policy admits them as long as the access point
\* the endpoint was made with exists, whichever grants run or fail half-way.
RecordedRolesHaveAccess ==
    \A i \in Stored :
        accessPoint[endpoint[i].name] = i => endpoint[i].roles \subseteq policy[endpoint[i].name]

\* When an add lists its endpoint the access point it created still exists: no
\* remove, of this or of another endpoint, took it away in between.
ListedWithAccessPoint ==
    [][\A c \in Client :
         client[c].pc = "registering" /\ client'[c].pc = "done"
            => accessPoint[client[c].name] = c]_vars

\* "Add an external endpoint to a DataSet": an add that returned is listed as
\* long as nobody removes endpoints.
AddedStaysListed ==
    (\A k \in Client : client[k].op # "remove") =>
        \A c \in Client : client[c].op = "add" /\ client[c].pc = "done" => c \in externalEndpoints

\* "Removes an external endpoint to a DataSet": the id of a remove that deleted
\* the access point and updated the dataset is not listed.
RemovedIsNotListed ==
    \A c \in Client :
        client[c].op = "remove" /\ client[c].pc = "done" => client[c].id \notin externalEndpoints

(***************************************************************************)
(* The inductive invariant                                                 *)
(***************************************************************************)
NameStored(n) == \E i \in Stored : endpoint[i].name = n

\* Which call a program counter belongs to, and whose id it works on.
CallKnows(c) ==
    /\ client[c].pc \in AddPC => client[c].op = "add" /\ client[c].id = c
    /\ client[c].pc \in {"deleting", "unregistering", "getting", "recording"} =>
         client[c].id \in Stored /\ endpoint[client[c].id].name = client[c].name
    /\ client[c].pc = "deleting" => client[client[c].id].pc \notin AddPC
    /\ client[c].seen \subseteq Stored

CallsKnow == \A c \in Client : CallKnows(c)

\* Until an endpoint of that name is stored, the access point belongs to the add
\* that created it; and only its creator stores the name and lists its id.
HoldsAccessPoint(c) ==
    /\ client[c].pc \in {"delegating", "admitting", "validating", "storing"} =>
         NameStored(client[c].name) \/ accessPoint[client[c].name] = c
    /\ client[c].pc = "storing" => ~NameStored(client[c].name)
    /\ client[c].pc = "registering" =>
         /\ c \in Stored /\ endpoint[c].name = client[c].name
         /\ accessPoint[client[c].name] = c
    /\ client[c].pc \in (AddPC \ {"registering"}) \cup {"new"} => c \notin Stored
    /\ client[c].pc \in AddPC =>
         c \notin externalEndpoints /\ \A k \in Client : c \notin client[k].seen

AccessPointIsLock == \A c \in Client : HoldsAccessPoint(c)

\* A grant, or an add with a role, about to record a role has put it in the
\* policy of the access point, if that access point still exists.
RoleAdmitted(c) ==
    LET name   == client[c].name
        admits == policy[name]
    IN  /\ (client[c].pc \in {"getting", "recording"} /\ accessPoint[name] = client[c].id)
              => client[c].roles \subseteq admits
        /\ (client[c].pc = "recording" /\ accessPoint[name] = client[c].id)
              => RoleOf[name] \in admits
        /\ (client[c].pc \in {"validating", "storing"} /\ client[c].share
              /\ accessPoint[name] = c)
              => RoleOf[name] \in admits

RolesKnow == \A c \in Client : RoleAdmitted(c)

\* Why the properties hold: the access point of a name is the lock under which
\* the endpoint of that name is made.
IInv ==
    /\ TypeOK /\ CallsKnow /\ AccessPointIsLock /\ RolesKnow
    /\ EndpointNamesUnique /\ ListedIsStored /\ RecordedRolesHaveAccess
===============================================================================
