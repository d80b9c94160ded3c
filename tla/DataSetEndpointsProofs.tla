------------------------ MODULE DataSetEndpointsProofs ------------------------
(***************************************************************************)
(* Proofs about DataSetEndpoints for any number of calls, names and roles. *)
(*                                                                         *)
(* Every step is one call's.  A lemma per action shows that it keeps IInv; *)
(* the argument is always the same: what a call knows about an access      *)
(* point is disturbed only by the call that created it, or by a remove of  *)
(* the stored endpoint of that name.                                       *)
(***************************************************************************)
EXTENDS DataSetEndpoints, TLAPS

\* The initial state satisfies the invariant.
LEMMA InvInit == Init => IInv
<1> SUFFICES ASSUME Init PROVE IInv
  OBVIOUS
<1>1. TypeOK  BY DEF Init, TypeOK
<1>2. Stored = {}  BY DEF Init, Stored
<1>3. \A k \in Client : client[k] = NewClient  BY DEF Init
<1>4. CallsKnow  BY <1>3 DEF CallsKnow, CallKnows, NewClient, Call, AddPC
<1>5. AccessPointIsLock
  BY <1>2, <1>3 DEF AccessPointIsLock, HoldsAccessPoint, NewClient, Call, AddPC
<1>6. RolesKnow  BY <1>3 DEF RolesKnow, RoleAdmitted, NewClient, Call
<1>7. EndpointNamesUnique /\ ListedIsStored /\ RecordedRolesHaveAccess
  BY <1>2 DEF Init, EndpointNamesUnique, ListedIsStored, RecordedRolesHaveAccess
<1> QED  BY <1>1, <1>4, <1>5, <1>6, <1>7 DEF IInv

\* The state of a call that has begun.
LEMMA Begun ==
    ASSUME TypeOK, NEW c \in Client, client[c].pc # "new"
    PROVE  /\ client[c] \in CallState
           /\ client[c].name \in Name /\ client[c].id \in Client
           /\ client[c].share \in BOOLEAN
           /\ client[c].seen \subseteq Client /\ client[c].roles \subseteq Role
           /\ RoleOf[client[c].name] \in Role
<1>1. client[c] \in CallState  BY DEF TypeOK, NewClient, Call
<1> QED  BY <1>1, RoleAssumption DEF CallState

\* A call that goes to pc keeps everything else, and so do the other calls.
LEMMA Progress ==
    ASSUME TypeOK, NEW c \in Client, client[c].pc # "new", NEW pc \in PC, Goto(c, pc)
    PROVE  /\ client' \in [Client -> CallState \cup {NewClient}]
           /\ client'[c].pc = pc /\ client'[c].op = client[c].op
           /\ client'[c].name = client[c].name /\ client'[c].id = client[c].id
           /\ client'[c].share = client[c].share /\ client'[c].seen = client[c].seen
           /\ client'[c].roles = client[c].roles
           /\ \A k \in Client \ {c} : client'[k] = client[k]
<1>1. client[c] \in CallState  BY Begun
<1> DEFINE new == [client[c] EXCEPT !.pc = pc]
<1>2. new \in CallState  BY <1>1 DEF CallState
<1>3. /\ new.pc = pc /\ new.op = client[c].op /\ new.name = client[c].name
      /\ new.id = client[c].id /\ new.share = client[c].share /\ new.seen = client[c].seen
      /\ new.roles = client[c].roles
  BY <1>1 DEF CallState
<1>4. client' = [client EXCEPT ![c] = new]  BY DEF Goto
<1> HIDE DEF new
<1> QED  BY <1>2, <1>3, <1>4 DEF TypeOK

\* A call that begins: what it asks for and what it read.
LEMMA Beginning ==
    ASSUME TypeOK, NEW c \in Client, NEW new \in CallState,
           client' = [client EXCEPT ![c] = new]
    PROVE  /\ client' \in [Client -> CallState \cup {NewClient}]
           /\ client'[c] = new
           /\ \A k \in Client \ {c} : client'[k] = client[k]
BY DEF TypeOK

\* Types of what the calls that have begun work on.
LEMMA AllBegun ==
    ASSUME TypeOK
    PROVE  \A k \in Client : client[k].pc # "new" =>
             /\ client[k].name \in Name /\ client[k].id \in Client
             /\ client[k].seen \subseteq Client
BY Begun

\* A stored endpoint has a name and roles.
LEMMA StoredType ==
    ASSUME TypeOK, NEW i \in Stored
    PROVE  /\ i \in Client /\ endpoint[i] \in EndpointState
           /\ endpoint[i].name \in Name /\ endpoint[i].roles \subseteq Role
BY DEF TypeOK, Stored, EndpointState

\* What the lemmas below use of a step in which c goes to pc.
Moved(c, pc) ==
    /\ client[c].pc # "new"
    /\ client[c].name \in Name /\ client[c].id \in Client /\ client[c].seen \subseteq Client
    /\ client[c].roles \subseteq Role /\ RoleOf[client[c].name] \in Role
    /\ client[c].name # Nobody /\ \A k \in Client : k # Nobody
    /\ client' \in [Client -> CallState \cup {NewClient}]
    /\ client'[c].pc = pc /\ client'[c].op = client[c].op
    /\ client'[c].name = client[c].name /\ client'[c].id = client[c].id
    /\ client'[c].share = client[c].share /\ client'[c].seen = client[c].seen
    /\ client'[c].roles = client[c].roles
    /\ \A k \in Client \ {c} : client'[k] = client[k]
    /\ \A k \in Client : client[k].pc # "new" => client[k].name \in Name /\ client[k].id \in Client

\* A step that goes to pc has all of that.
LEMMA Moves ==
    ASSUME TypeOK, NEW c \in Client, client[c].pc # "new", NEW pc \in PC, Goto(c, pc)
    PROVE  Moved(c, pc)
BY Begun, Progress, AllBegun, NobodyAssumption DEF Moved

\* Endpoint rows that did not change.
LEMMA SameRows ==
    ASSUME endpoint' = endpoint
    PROVE  Stored' = Stored /\ \A n : NameStored(n)' = NameStored(n)
BY DEF Stored, NameStored

\* CreateAccessPoint keeps the invariant.
LEMMA CreateAccessPointKeeps ==
    ASSUME IInv, NEW c \in Client, CreateAccessPoint(c)
    PROVE  IInv'
<1> USE DEF CreateAccessPoint, s3Vars
<1>1. TypeOK /\ client[c].pc # "new"  BY DEF IInv
<1>2. Moved(c, "delegating")
  BY <1>1, Moves DEF PC, AddPC
<1>3. Stored' = Stored /\ \A n : NameStored(n)' = NameStored(n)  BY SameRows
<1>4. TypeOK'
  BY <1>2 DEF IInv, TypeOK, Moved
<1>5. CallsKnow'
  <2> SUFFICES ASSUME NEW k \in Client PROVE CallKnows(k)'
    BY DEF CallsKnow
  <2>1. CallKnows(k) /\ CallKnows(c)  BY DEF IInv, CallsKnow
  <2>2. CASE k = c
    BY <1>2, <1>3, <2>1 DEF IInv, Moved, AddPC, CallKnows
  <2>3. CASE k # c
    BY <1>2, <1>3, <2>1 DEF IInv, Moved, AddPC, CallKnows
  <2> QED  BY <2>2, <2>3
<1>6. AccessPointIsLock'
  <2> SUFFICES ASSUME NEW k \in Client PROVE HoldsAccessPoint(k)'
    BY DEF AccessPointIsLock
  <2>1. HoldsAccessPoint(k) /\ HoldsAccessPoint(c)  BY DEF IInv, AccessPointIsLock
  <2>2. CASE k = c
    BY <1>2, <1>3, <2>1 DEF IInv, TypeOK, Moved, HoldsAccessPoint, AddPC
  <2>3. CASE k # c
    BY <1>2, <1>3, <2>1, <2>3 DEF IInv, Moved, HoldsAccessPoint
  <2> QED  BY <2>2, <2>3
<1>7. RolesKnow'
  <2> SUFFICES ASSUME NEW k \in Client PROVE RoleAdmitted(k)'
    BY DEF RolesKnow
  <2>1. RoleAdmitted(k) /\ RoleAdmitted(c)  BY DEF IInv, RolesKnow
  <2>2. CASE k = c
    BY <1>2, <2>2 DEF IInv, Moved, RoleAdmitted
  <2>3. CASE k # c
    BY <1>2, <2>1
    DEF IInv, Moved, CallsKnow, CallKnows, RoleAdmitted, AccessPointIsLock,
        HoldsAccessPoint, AddPC
  <2> QED  BY <2>2, <2>3
<1>8. EndpointNamesUnique'
  BY <1>3 DEF IInv, EndpointNamesUnique
<1>9. ListedIsStored'
  BY <1>3 DEF IInv, ListedIsStored
<1>10. RecordedRolesHaveAccess'
  BY <1>3
  DEF IInv, TypeOK, RecordedRolesHaveAccess, AccessPointIsLock, HoldsAccessPoint, AddPC
<1> QED  BY <1>4, <1>5, <1>6, <1>7, <1>8, <1>9, <1>10 DEF IInv

\* ConfigureBucketPolicy keeps the invariant.
LEMMA ConfigureBucketPolicyKeeps ==
    ASSUME IInv, NEW c \in Client, ConfigureBucketPolicy(c)
    PROVE  IInv'
<1> USE DEF ConfigureBucketPolicy, s3Vars
<1>1. TypeOK /\ client[c].pc # "new"  BY DEF IInv
<1>2. Moved(c, IF client[c].share THEN "admitting" ELSE "validating")
  BY <1>1, Moves DEF PC, AddPC
<1>3. Stored' = Stored /\ \A n : NameStored(n)' = NameStored(n)  BY SameRows
<1>4. TypeOK'
  BY <1>2 DEF IInv, TypeOK, Moved
<1>5. CallsKnow'
  <2> SUFFICES ASSUME NEW k \in Client PROVE CallKnows(k)'
    BY DEF CallsKnow
  <2>1. CallKnows(k) /\ CallKnows(c)  BY DEF IInv, CallsKnow
  <2>2. CASE k = c
    BY <1>2, <1>3, <2>1 DEF IInv, Moved, AddPC, CallKnows
  <2>3. CASE k # c
    BY <1>2, <1>3, <2>1 DEF IInv, Moved, AddPC, CallKnows
  <2> QED  BY <2>2, <2>3
<1>6. AccessPointIsLock'
  <2> SUFFICES ASSUME NEW k \in Client PROVE HoldsAccessPoint(k)'
    BY DEF AccessPointIsLock
  <2>1. HoldsAccessPoint(k) /\ HoldsAccessPoint(c)  BY DEF IInv, AccessPointIsLock
  <2>2. CASE k = c
    BY <1>2, <1>3, <2>1 DEF IInv, Moved, HoldsAccessPoint, AddPC
  <2>3. CASE k # c
    BY <1>2, <1>3, <2>1, <2>3 DEF IInv, Moved, HoldsAccessPoint
  <2> QED  BY <2>2, <2>3
<1>7. RolesKnow'
  <2> SUFFICES ASSUME NEW k \in Client PROVE RoleAdmitted(k)'
    BY DEF RolesKnow
  <2>1. RoleAdmitted(k) /\ RoleAdmitted(c)  BY DEF IInv, RolesKnow
  <2>2. CASE k = c
    BY <1>2, <2>2 DEF IInv, Moved, RoleAdmitted
  <2>3. CASE k # c
    BY <1>2, <2>1 DEF IInv, Moved, RoleAdmitted
  <2> QED  BY <2>2, <2>3
<1>8. EndpointNamesUnique'
  BY <1>3 DEF IInv, EndpointNamesUnique
<1>9. ListedIsStored'
  BY <1>3 DEF IInv, ListedIsStored
<1>10. RecordedRolesHaveAccess'
  BY <1>3 DEF IInv, RecordedRolesHaveAccess
<1> QED  BY <1>4, <1>5, <1>6, <1>7, <1>8, <1>9, <1>10 DEF IInv

\* AdmitSharedRole keeps the invariant.
LEMMA AdmitSharedRoleKeeps ==
    ASSUME IInv, NEW c \in Client, AdmitSharedRole(c)
    PROVE  IInv'
<1> USE DEF AdmitSharedRole, s3Vars
<1>1. TypeOK /\ client[c].pc # "new"  BY DEF IInv
<1>2. Moved(c, "validating")
  BY <1>1, Moves DEF PC, AddPC
<1>3. Stored' = Stored /\ \A n : NameStored(n)' = NameStored(n)  BY SameRows
<1>4. TypeOK'
  BY <1>2 DEF IInv, TypeOK, Moved
<1>5. CallsKnow'
  <2> SUFFICES ASSUME NEW k \in Client PROVE CallKnows(k)'
    BY DEF CallsKnow
  <2>1. CallKnows(k) /\ CallKnows(c)  BY DEF IInv, CallsKnow
  <2>2. CASE k = c
    BY <1>2, <1>3, <2>1 DEF IInv, Moved, AddPC, CallKnows
  <2>3. CASE k # c
    BY <1>2, <1>3, <2>1 DEF IInv, Moved, AddPC, CallKnows
  <2> QED  BY <2>2, <2>3
<1>6. AccessPointIsLock'
  <2> SUFFICES ASSUME NEW k \in Client PROVE HoldsAccessPoint(k)'
    BY DEF AccessPointIsLock
  <2>1. HoldsAccessPoint(k) /\ HoldsAccessPoint(c)  BY DEF IInv, AccessPointIsLock
  <2>2. CASE k = c
    BY <1>2, <1>3, <2>1 DEF IInv, Moved, HoldsAccessPoint, AddPC
  <2>3. CASE k # c
    BY <1>2, <1>3, <2>1, <2>3 DEF IInv, Moved, HoldsAccessPoint
  <2> QED  BY <2>2, <2>3
<1>7. RolesKnow'
  <2> SUFFICES ASSUME NEW k \in Client PROVE RoleAdmitted(k)'
    BY DEF RolesKnow
  <2>1. RoleAdmitted(k) /\ RoleAdmitted(c)  BY DEF IInv, RolesKnow
  <2>2. CASE k = c
    BY <1>2, <2>2 DEF IInv, TypeOK, Moved, RoleAdmitted
  <2>3. CASE k # c
    BY <1>2, <2>1, <2>3 DEF IInv, Moved, RoleAdmitted
  <2> QED  BY <2>2, <2>3
<1>8. EndpointNamesUnique'
  BY <1>3 DEF IInv, EndpointNamesUnique
<1>9. ListedIsStored'
  BY <1>3 DEF IInv, ListedIsStored
<1>10. RecordedRolesHaveAccess'
  BY <1>3 DEF IInv, RecordedRolesHaveAccess
<1> QED  BY <1>4, <1>5, <1>6, <1>7, <1>8, <1>9, <1>10 DEF IInv

\* ValidateName keeps the invariant.
LEMMA ValidateNameKeeps ==
    ASSUME IInv, NEW c \in Client, ValidateName(c)
    PROVE  IInv'
<1> USE DEF ValidateName, s3Vars
<1>1. TypeOK /\ client[c].pc # "new"  BY DEF IInv
<1>2. Moved(c, "storing")
  BY <1>1, Moves DEF PC, AddPC
<1>3. Stored' = Stored /\ \A n : NameStored(n)' = NameStored(n)  BY SameRows
<1>11. ~NameStored(client[c].name)  BY DEF NameStored
<1>4. TypeOK'
  BY <1>2 DEF IInv, TypeOK, Moved
<1>5. CallsKnow'
  <2> SUFFICES ASSUME NEW k \in Client PROVE CallKnows(k)'
    BY DEF CallsKnow
  <2>1. CallKnows(k) /\ CallKnows(c)  BY DEF IInv, CallsKnow
  <2>2. CASE k = c
    BY <1>2, <1>3, <2>1 DEF IInv, Moved, AddPC, CallKnows
  <2>3. CASE k # c
    BY <1>2, <1>3, <2>1 DEF IInv, Moved, AddPC, CallKnows
  <2> QED  BY <2>2, <2>3
<1>6. AccessPointIsLock'
  <2> SUFFICES ASSUME NEW k \in Client PROVE HoldsAccessPoint(k)'
    BY DEF AccessPointIsLock
  <2>1. HoldsAccessPoint(k) /\ HoldsAccessPoint(c)  BY DEF IInv, AccessPointIsLock
  <2>2. CASE k = c
    BY <1>2, <1>3, <1>11, <2>1 DEF IInv, Moved, HoldsAccessPoint, AddPC
  <2>3. CASE k # c
    BY <1>2, <1>3, <2>1, <2>3 DEF IInv, Moved, HoldsAccessPoint
  <2> QED  BY <2>2, <2>3
<1>7. RolesKnow'
  <2> SUFFICES ASSUME NEW k \in Client PROVE RoleAdmitted(k)'
    BY DEF RolesKnow
  <2>1. RoleAdmitted(k) /\ RoleAdmitted(c)  BY DEF IInv, RolesKnow
  <2>2. CASE k = c
    BY <1>2, <2>1 DEF IInv, Moved, RoleAdmitted
  <2>3. CASE k # c
    BY <1>2, <2>1 DEF IInv, Moved, RoleAdmitted
  <2> QED  BY <2>2, <2>3
<1>8. EndpointNamesUnique'
  BY <1>3 DEF IInv, EndpointNamesUnique
<1>9. ListedIsStored'
  BY <1>3 DEF IInv, ListedIsStored
<1>10. RecordedRolesHaveAccess'
  BY <1>3 DEF IInv, RecordedRolesHaveAccess
<1> QED  BY <1>4, <1>5, <1>6, <1>7, <1>8, <1>9, <1>10 DEF IInv

\* StoreEndpoint keeps the invariant.
LEMMA StoreEndpointKeeps ==
    ASSUME IInv, NEW c \in Client, StoreEndpoint(c)
    PROVE  IInv'
<1> USE DEF StoreEndpoint, s3Vars
<1>1. TypeOK /\ client[c].pc # "new"  BY DEF IInv
<1>2. Moved(c, "registering")
  BY <1>1, Moves DEF PC, AddPC
<1>3. /\ Stored' = Stored \cup {c}
      /\ endpoint'[c].name = client[c].name
      /\ endpoint'[c].roles = (IF client[c].share THEN {RoleOf[client[c].name]} ELSE {})
      /\ endpoint'[c] \in EndpointState
      /\ \A i \in Client \ {c} : endpoint'[i] = endpoint[i]
  BY <1>1, <1>2 DEF Moved, Stored, NoEndpoint, TypeOK, EndpointState
<1>4. TypeOK'
  BY <1>2, <1>3 DEF IInv, TypeOK, Moved
<1>5. CallsKnow'
  <2> SUFFICES ASSUME NEW k \in Client PROVE CallKnows(k)'
    BY DEF CallsKnow
  <2>1. CallKnows(k) /\ CallKnows(c)  BY DEF IInv, CallsKnow
  <2>2. CASE k = c
    BY <1>2, <1>3, <2>1, <2>2 DEF IInv, Moved, AddPC, CallKnows
  <2>3. CASE k # c
    BY <1>2, <1>3, <2>1
    DEF IInv, Moved, AddPC, AccessPointIsLock, HoldsAccessPoint, CallKnows
  <2> QED  BY <2>2, <2>3
<1>6. AccessPointIsLock'
  <2> SUFFICES ASSUME NEW k \in Client PROVE HoldsAccessPoint(k)'
    BY DEF AccessPointIsLock
  <2>1. HoldsAccessPoint(k) /\ HoldsAccessPoint(c)  BY DEF IInv, AccessPointIsLock
  <2>2. CASE k = c
    BY <1>2, <1>3, <2>1, <2>2 DEF IInv, Moved, HoldsAccessPoint, AddPC
  <2>3. CASE k # c
    BY <1>2, <1>3, <2>1 DEF IInv, Moved, HoldsAccessPoint, AddPC, NameStored
  <2> QED  BY <2>2, <2>3
<1>7. RolesKnow'
  <2> SUFFICES ASSUME NEW k \in Client PROVE RoleAdmitted(k)'
    BY DEF RolesKnow
  <2>1. RoleAdmitted(k) /\ RoleAdmitted(c)  BY DEF IInv, RolesKnow
  <2>2. CASE k = c
    BY <1>2, <2>2 DEF IInv, Moved, RoleAdmitted
  <2>3. CASE k # c
    BY <1>2, <2>1 DEF IInv, Moved, RoleAdmitted
  <2> QED  BY <2>2, <2>3
<1>8. EndpointNamesUnique'
  BY <1>3 DEF IInv, EndpointNamesUnique, AccessPointIsLock, HoldsAccessPoint, NameStored
<1>9. ListedIsStored'
  BY <1>3 DEF IInv, ListedIsStored
<1>10. RecordedRolesHaveAccess'
  BY <1>3 DEF IInv, RecordedRolesHaveAccess, RolesKnow, RoleAdmitted
<1> QED  BY <1>4, <1>5, <1>6, <1>7, <1>8, <1>9, <1>10 DEF IInv

\* Register keeps the invariant.
LEMMA RegisterKeeps ==
    ASSUME IInv, NEW c \in Client, Register(c)
    PROVE  IInv'
<1> USE DEF Register, s3Vars
<1>1. TypeOK /\ client[c].pc # "new"  BY DEF IInv
<1>2. Moved(c, "done")
  BY <1>1, Moves DEF PC, AddPC
<1>3. Stored' = Stored /\ \A n : NameStored(n)' = NameStored(n)  BY SameRows
<1>4. TypeOK'
  BY <1>2 DEF IInv, TypeOK, Moved
<1>5. CallsKnow'
  <2> SUFFICES ASSUME NEW k \in Client PROVE CallKnows(k)'
    BY DEF CallsKnow
  <2>1. CallKnows(k) /\ CallKnows(c)  BY DEF IInv, CallsKnow
  <2>2. CASE k = c
    BY <1>2, <1>3, <2>1 DEF IInv, Moved, AddPC, CallKnows
  <2>3. CASE k # c
    BY <1>2, <1>3, <2>1 DEF IInv, Moved, AddPC, CallKnows
  <2> QED  BY <2>2, <2>3
<1>6. AccessPointIsLock'
  <2> SUFFICES ASSUME NEW k \in Client PROVE HoldsAccessPoint(k)'
    BY DEF AccessPointIsLock
  <2>1. HoldsAccessPoint(k) /\ HoldsAccessPoint(c)  BY DEF IInv, AccessPointIsLock
  <2>2. CASE k = c
    BY <1>2, <2>2 DEF IInv, Moved, HoldsAccessPoint, AddPC
  <2>3. CASE k # c
    BY <1>2, <1>3, <2>1, <2>3 DEF IInv, Moved, HoldsAccessPoint
  <2> QED  BY <2>2, <2>3
<1>7. RolesKnow'
  <2> SUFFICES ASSUME NEW k \in Client PROVE RoleAdmitted(k)'
    BY DEF RolesKnow
  <2>1. RoleAdmitted(k) /\ RoleAdmitted(c)  BY DEF IInv, RolesKnow
  <2>2. CASE k = c
    BY <1>2, <2>2 DEF IInv, Moved, RoleAdmitted
  <2>3. CASE k # c
    BY <1>2, <2>1 DEF IInv, Moved, RoleAdmitted
  <2> QED  BY <2>2, <2>3
<1>8. EndpointNamesUnique'
  BY <1>3 DEF IInv, EndpointNamesUnique
<1>9. ListedIsStored'
  BY <1>3
  DEF IInv, ListedIsStored, CallsKnow, CallKnows, AccessPointIsLock, HoldsAccessPoint
<1>10. RecordedRolesHaveAccess'
  BY <1>3 DEF IInv, RecordedRolesHaveAccess
<1> QED  BY <1>4, <1>5, <1>6, <1>7, <1>8, <1>9, <1>10 DEF IInv

\* DeleteAccessPoint keeps the invariant.
LEMMA DeleteAccessPointKeeps ==
    ASSUME IInv, NEW c \in Client, DeleteAccessPoint(c)
    PROVE  IInv'
<1> USE DEF DeleteAccessPoint, s3Vars
<1>1. TypeOK /\ client[c].pc # "new"  BY DEF IInv
<1>2. Moved(c, "unregistering")
  BY <1>1, Moves DEF PC, AddPC
<1>3. Stored' = Stored /\ \A n : NameStored(n)' = NameStored(n)  BY SameRows
<1>11. /\ NameStored(client[c].name)
       /\ \A k \in Client : client[k].pc = "registering" => client[k].name # client[c].name
  BY DEF IInv, CallsKnow, CallKnows, AccessPointIsLock, HoldsAccessPoint, NameStored,
     AddPC,
         EndpointNamesUnique
<1>4. TypeOK'
  BY <1>2 DEF IInv, TypeOK, Moved
<1>5. CallsKnow'
  <2> SUFFICES ASSUME NEW k \in Client PROVE CallKnows(k)'
    BY DEF CallsKnow
  <2>1. CallKnows(k) /\ CallKnows(c)  BY DEF IInv, CallsKnow
  <2>2. CASE k = c
    BY <1>2, <1>3, <2>1 DEF IInv, Moved, AddPC, CallKnows
  <2>3. CASE k # c
    BY <1>2, <1>3, <2>1 DEF IInv, Moved, AddPC, CallKnows
  <2> QED  BY <2>2, <2>3
<1>6. AccessPointIsLock'
  <2> SUFFICES ASSUME NEW k \in Client PROVE HoldsAccessPoint(k)'
    BY DEF AccessPointIsLock
  <2>1. HoldsAccessPoint(k) /\ HoldsAccessPoint(c)  BY DEF IInv, AccessPointIsLock
  <2>2. CASE k = c
    BY <1>2, <2>2 DEF IInv, Moved, HoldsAccessPoint, AddPC
  <2>3. CASE k # c
    BY <1>2, <1>3, <1>11, <2>1, <2>3 DEF IInv, Moved, HoldsAccessPoint
  <2> QED  BY <2>2, <2>3
<1>7. RolesKnow'
  <2> SUFFICES ASSUME NEW k \in Client PROVE RoleAdmitted(k)'
    BY DEF RolesKnow
  <2>1. RoleAdmitted(k) /\ RoleAdmitted(c)  BY DEF IInv, RolesKnow
  <2>2. CASE k = c
    BY <1>2, <2>2 DEF IInv, Moved, RoleAdmitted
  <2>3. CASE k # c
    BY <1>2, <2>1 DEF IInv, TypeOK, Moved, RoleAdmitted
  <2> QED  BY <2>2, <2>3
<1>8. EndpointNamesUnique'
  BY <1>3 DEF IInv, EndpointNamesUnique
<1>9. ListedIsStored'
  BY <1>3 DEF IInv, ListedIsStored
<1>10. RecordedRolesHaveAccess'
  <2> SUFFICES ASSUME NEW i \in Stored, accessPoint'[endpoint[i].name] = i
               PROVE  endpoint[i].roles \subseteq policy'[endpoint[i].name]
    BY <1>3 DEF RecordedRolesHaveAccess
  <2>1. i \in Client /\ endpoint[i].name \in Name  BY <1>1, StoredType
  <2>2. endpoint[i].name # client[c].name  BY <1>1, <1>2, <2>1 DEF TypeOK, Moved
  <2> QED  BY <1>1, <2>1, <2>2 DEF IInv, TypeOK, RecordedRolesHaveAccess
<1> QED  BY <1>4, <1>5, <1>6, <1>7, <1>8, <1>9, <1>10 DEF IInv

\* Unregister keeps the invariant.
LEMMA UnregisterKeeps ==
    ASSUME IInv, NEW c \in Client, Unregister(c)
    PROVE  IInv'
<1> USE DEF Unregister, s3Vars
<1>1. TypeOK /\ client[c].pc # "new"  BY DEF IInv
<1>2. Moved(c, "done")
  BY <1>1, Moves DEF PC, AddPC
<1>3. Stored' = Stored /\ \A n : NameStored(n)' = NameStored(n)  BY SameRows
<1>4. TypeOK'
  BY <1>2 DEF IInv, TypeOK, Moved, Kept
<1>5. CallsKnow'
  <2> SUFFICES ASSUME NEW k \in Client PROVE CallKnows(k)'
    BY DEF CallsKnow
  <2>1. CallKnows(k) /\ CallKnows(c)  BY DEF IInv, CallsKnow
  <2>2. CASE k = c
    BY <1>2, <1>3, <2>1 DEF IInv, Moved, AddPC, CallKnows
  <2>3. CASE k # c
    BY <1>2, <1>3, <2>1 DEF IInv, Moved, AddPC, CallKnows
  <2> QED  BY <2>2, <2>3
<1>6. AccessPointIsLock'
  <2> SUFFICES ASSUME NEW k \in Client PROVE HoldsAccessPoint(k)'
    BY DEF AccessPointIsLock
  <2>1. HoldsAccessPoint(k) /\ HoldsAccessPoint(c)  BY DEF IInv, AccessPointIsLock
  <2>2. CASE k = c
    BY <1>2, <2>2 DEF IInv, Moved, HoldsAccessPoint, AddPC
  <2>3. CASE k # c
    BY <1>2, <1>3, <2>1, <2>3 DEF IInv, Moved, HoldsAccessPoint, Kept
  <2> QED  BY <2>2, <2>3
<1>7. RolesKnow'
  <2> SUFFICES ASSUME NEW k \in Client PROVE RoleAdmitted(k)'
    BY DEF RolesKnow
  <2>1. RoleAdmitted(k) /\ RoleAdmitted(c)  BY DEF IInv, RolesKnow
  <2>2. CASE k = c
    BY <1>2, <2>2 DEF IInv, Moved, RoleAdmitted
  <2>3. CASE k # c
    BY <1>2, <2>1 DEF IInv, Moved, RoleAdmitted
  <2> QED  BY <2>2, <2>3
<1>8. EndpointNamesUnique'
  BY <1>3 DEF IInv, EndpointNamesUnique
<1>9. ListedIsStored'
  BY <1>3 DEF IInv, ListedIsStored, CallsKnow, CallKnows, Kept
<1>10. RecordedRolesHaveAccess'
  BY <1>3 DEF IInv, RecordedRolesHaveAccess
<1> QED  BY <1>4, <1>5, <1>6, <1>7, <1>8, <1>9, <1>10 DEF IInv

\* PutAccessPointPolicy keeps the invariant.
LEMMA PutAccessPointPolicyKeeps ==
    ASSUME IInv, NEW c \in Client, PutAccessPointPolicy(c)
    PROVE  IInv'
<1> USE DEF PutAccessPointPolicy, s3Vars
<1>1. TypeOK /\ client[c].pc # "new"  BY DEF IInv
<1>2. Moved(c, "recording")
  BY <1>1, Moves DEF PC, AddPC
<1>3. Stored' = Stored /\ \A n : NameStored(n)' = NameStored(n)  BY SameRows
<1>4. TypeOK'
  BY <1>2 DEF IInv, TypeOK, Moved
<1>5. CallsKnow'
  <2> SUFFICES ASSUME NEW k \in Client PROVE CallKnows(k)'
    BY DEF CallsKnow
  <2>1. CallKnows(k) /\ CallKnows(c)  BY DEF IInv, CallsKnow
  <2>2. CASE k = c
    BY <1>2, <1>3, <2>1 DEF IInv, Moved, AddPC, CallKnows
  <2>3. CASE k # c
    BY <1>2, <1>3, <2>1 DEF IInv, Moved, AddPC, CallKnows
  <2> QED  BY <2>2, <2>3
<1>6. AccessPointIsLock'
  <2> SUFFICES ASSUME NEW k \in Client PROVE HoldsAccessPoint(k)'
    BY DEF AccessPointIsLock
  <2>1. HoldsAccessPoint(k) /\ HoldsAccessPoint(c)  BY DEF IInv, AccessPointIsLock
  <2>2. CASE k = c
    BY <1>2, <2>2 DEF IInv, Moved, HoldsAccessPoint, AddPC
  <2>3. CASE k # c
    BY <1>2, <1>3, <2>1, <2>3 DEF IInv, Moved, HoldsAccessPoint
  <2> QED  BY <2>2, <2>3
<1>7. RolesKnow'
  <2> SUFFICES ASSUME NEW k \in Client PROVE RoleAdmitted(k)'
    BY DEF RolesKnow
  <2>1. RoleAdmitted(k) /\ RoleAdmitted(c)  BY DEF IInv, RolesKnow
  <2>2. CASE k = c
    BY <1>2, <2>1 DEF IInv, TypeOK, Moved, RoleAdmitted
  <2>3. CASE k # c
    BY <1>2, <2>1, <2>3 DEF IInv, Moved, RoleAdmitted
  <2> QED  BY <2>2, <2>3
<1>8. EndpointNamesUnique'
  BY <1>3 DEF IInv, EndpointNamesUnique
<1>9. ListedIsStored'
  BY <1>3 DEF IInv, ListedIsStored
<1>10. RecordedRolesHaveAccess'
  BY <1>3 DEF IInv, RecordedRolesHaveAccess
<1> QED  BY <1>4, <1>5, <1>6, <1>7, <1>8, <1>9, <1>10 DEF IInv

\* RecordRole keeps the invariant.
LEMMA RecordRoleKeeps ==
    ASSUME IInv, NEW c \in Client, RecordRole(c)
    PROVE  IInv'
<1> USE DEF RecordRole, s3Vars
<1>1. TypeOK /\ client[c].pc # "new"  BY DEF IInv
<1>2. Moved(c, "done")
  BY <1>1, Moves DEF PC, AddPC
<1>3. /\ Stored' = Stored
      /\ endpoint'[client[c].id].name = client[c].name
      /\ endpoint'[client[c].id].roles = client[c].roles \cup {RoleOf[client[c].name]}
      /\ endpoint'[client[c].id] \in EndpointState
      /\ \A i \in Client \ {client[c].id} : endpoint'[i] = endpoint[i]
      /\ \A i \in Client : endpoint'[i].name = endpoint[i].name
  <2>1. client[c].id \in Stored /\ endpoint[client[c].id].name = client[c].name
    BY DEF IInv, CallsKnow, CallKnows
  <2>2. endpoint[client[c].id] \in EndpointState  BY <1>1, <2>1, StoredType
  <2> QED  BY <1>1, <1>2, <2>1 DEF Moved, Stored, NoEndpoint, TypeOK, EndpointState
<1>4. TypeOK'
  BY <1>2, <1>3 DEF IInv, TypeOK, Moved
<1>5. CallsKnow'
  <2> SUFFICES ASSUME NEW k \in Client PROVE CallKnows(k)'
    BY DEF CallsKnow
  <2>1. CallKnows(k) /\ CallKnows(c)  BY DEF IInv, CallsKnow
  <2>2. CASE k = c
    BY <1>2, <1>3, <2>1 DEF IInv, Moved, AddPC, CallKnows
  <2>3. CASE k # c
    BY <1>2, <1>3, <2>1 DEF IInv, Moved, AddPC, CallKnows
  <2> QED  BY <2>2, <2>3
<1>6. AccessPointIsLock'
  <2> SUFFICES ASSUME NEW k \in Client PROVE HoldsAccessPoint(k)'
    BY DEF AccessPointIsLock
  <2>1. HoldsAccessPoint(k) /\ HoldsAccessPoint(c)  BY DEF IInv, AccessPointIsLock
  <2>2. CASE k = c
    BY <1>2, <2>2 DEF IInv, Moved, HoldsAccessPoint, AddPC
  <2>3. CASE k # c
    BY <1>2, <1>3, <2>1, <2>3 DEF IInv, Moved, HoldsAccessPoint, NameStored
  <2> QED  BY <2>2, <2>3
<1>7. RolesKnow'
  <2> SUFFICES ASSUME NEW k \in Client PROVE RoleAdmitted(k)'
    BY DEF RolesKnow
  <2>1. RoleAdmitted(k) /\ RoleAdmitted(c)  BY DEF IInv, RolesKnow
  <2>2. CASE k = c
    BY <1>2, <2>2 DEF IInv, Moved, RoleAdmitted
  <2>3. CASE k # c
    BY <1>2, <2>1 DEF IInv, Moved, RoleAdmitted
  <2> QED  BY <2>2, <2>3
<1>8. EndpointNamesUnique'
  BY <1>3 DEF IInv, EndpointNamesUnique
<1>9. ListedIsStored'
  BY <1>3 DEF IInv, ListedIsStored
<1>10. RecordedRolesHaveAccess'
  BY <1>3 DEF IInv, RecordedRolesHaveAccess, RolesKnow, RoleAdmitted
<1> QED  BY <1>4, <1>5, <1>6, <1>7, <1>8, <1>9, <1>10 DEF IInv

\* Fail keeps the invariant.
LEMMA FailKeeps ==
    ASSUME IInv, NEW c \in Client, Fail(c)
    PROVE  IInv'
<1> USE DEF Fail, s3Vars
<1>1. TypeOK /\ client[c].pc # "new"  BY DEF IInv
<1>2. Moved(c, "failed")
  BY <1>1, Moves DEF PC, AddPC
<1>3. Stored' = Stored /\ \A n : NameStored(n)' = NameStored(n)  BY SameRows
<1>4. TypeOK'
  BY <1>2 DEF IInv, TypeOK, Moved
<1>5. CallsKnow'
  <2> SUFFICES ASSUME NEW k \in Client PROVE CallKnows(k)'
    BY DEF CallsKnow
  <2>1. CallKnows(k) /\ CallKnows(c)  BY DEF IInv, CallsKnow
  <2>2. CASE k = c
    BY <1>2, <1>3, <2>1 DEF IInv, Moved, AddPC, CallKnows
  <2>3. CASE k # c
    BY <1>2, <1>3, <2>1 DEF IInv, Moved, AddPC, CallKnows
  <2> QED  BY <2>2, <2>3
<1>6. AccessPointIsLock'
  <2> SUFFICES ASSUME NEW k \in Client PROVE HoldsAccessPoint(k)'
    BY DEF AccessPointIsLock
  <2>1. HoldsAccessPoint(k) /\ HoldsAccessPoint(c)  BY DEF IInv, AccessPointIsLock
  <2>2. CASE k = c
    BY <1>2, <2>2 DEF IInv, Moved, HoldsAccessPoint, AddPC
  <2>3. CASE k # c
    BY <1>2, <1>3, <2>1, <2>3 DEF IInv, Moved, HoldsAccessPoint
  <2> QED  BY <2>2, <2>3
<1>7. RolesKnow'
  <2> SUFFICES ASSUME NEW k \in Client PROVE RoleAdmitted(k)'
    BY DEF RolesKnow
  <2>1. RoleAdmitted(k) /\ RoleAdmitted(c)  BY DEF IInv, RolesKnow
  <2>2. CASE k = c
    BY <1>2, <2>2 DEF IInv, Moved, RoleAdmitted
  <2>3. CASE k # c
    BY <1>2, <2>1 DEF IInv, Moved, RoleAdmitted
  <2> QED  BY <2>2, <2>3
<1>8. EndpointNamesUnique'
  BY <1>3 DEF IInv, EndpointNamesUnique
<1>9. ListedIsStored'
  BY <1>3 DEF IInv, ListedIsStored
<1>10. RecordedRolesHaveAccess'
  BY <1>3 DEF IInv, RecordedRolesHaveAccess
<1> QED  BY <1>4, <1>5, <1>6, <1>7, <1>8, <1>9, <1>10 DEF IInv

\* BeginAdd keeps the invariant.
LEMMA BeginAddKeeps ==
    ASSUME IInv, NEW c \in Client, NEW n \in Name, NEW share \in BOOLEAN, BeginAdd(c, n, share)
    PROVE  IInv'
<1> USE DEF BeginAdd, s3Vars
<1> DEFINE new == Call("add", "creating", n, c, share, externalEndpoints)
<1>1. /\ TypeOK /\ client[c].pc = "new"
      /\ UNCHANGED <<externalEndpoints, endpoint, accessPoint, policy, delegated>>
  BY DEF IInv
<1>2. new \in CallState  BY <1>1 DEF CallState, Call, PC, AddPC, TypeOK
<1>3. /\ new.pc = "creating" /\ new.op = "add" /\ new.id = c /\ new.seen = externalEndpoints
  BY DEF Call
<1> HIDE DEF new
<1>4. /\ client' \in [Client -> CallState \cup {NewClient}]
      /\ client'[c] = new
      /\ \A k \in Client \ {c} : client'[k] = client[k]
  <2>1. client' = [client EXCEPT ![c] = new]  BY DEF new
  <2> QED  BY <1>1, <1>2, <2>1, Beginning
<1> HIDE DEF BeginAdd
<1>5. Stored' = Stored /\ \A m : NameStored(m)' = NameStored(m)  BY <1>1, SameRows
<1>6. TypeOK'
  BY <1>1, <1>4 DEF TypeOK
<1>7. CallsKnow'
  <2> SUFFICES ASSUME NEW k \in Client PROVE CallKnows(k)'
    BY DEF CallsKnow
  <2>1. CallKnows(k) /\ (client[k].pc # "new" => client[k].id \in Client)
    BY <1>1, AllBegun DEF IInv, CallsKnow
  <2>2. CASE k = c
    BY <1>1, <1>3, <1>4, <1>5, <2>2
    DEF IInv, CallKnows, AddPC, ListedIsStored, AccessPointIsLock, HoldsAccessPoint
  <2>3. CASE k # c
    BY <1>1, <1>3, <1>4, <1>5, <2>1, <2>3
    DEF IInv, CallKnows, AddPC, AccessPointIsLock, HoldsAccessPoint
  <2> QED  BY <2>2, <2>3
<1>8. AccessPointIsLock'
  <2> SUFFICES ASSUME NEW k \in Client PROVE HoldsAccessPoint(k)'
    BY DEF AccessPointIsLock
  <2>1. HoldsAccessPoint(k) /\ HoldsAccessPoint(c)  BY DEF IInv, AccessPointIsLock
  <2> QED
    BY <1>1, <1>3, <1>4, <1>5, <2>1
    DEF IInv, CallsKnow, CallKnows, HoldsAccessPoint, AddPC, ListedIsStored
<1>9. RolesKnow'
  <2> SUFFICES ASSUME NEW k \in Client PROVE RoleAdmitted(k)'
    BY DEF RolesKnow
  <2>1. CASE k = c
    BY <1>1, <1>3, <1>4, <2>1 DEF IInv, RoleAdmitted, RecordedRolesHaveAccess
  <2>2. CASE k # c
    BY <1>1, <1>4, <2>2 DEF IInv, RolesKnow, RoleAdmitted
  <2> QED  BY <2>1, <2>2
<1>10. EndpointNamesUnique' /\ ListedIsStored' /\ RecordedRolesHaveAccess'
  BY <1>1, <1>5 DEF IInv, EndpointNamesUnique, ListedIsStored, RecordedRolesHaveAccess
<1> QED  BY <1>6, <1>7, <1>8, <1>9, <1>10 DEF IInv
\* BeginRemove keeps the invariant.
LEMMA BeginRemoveKeeps ==
    ASSUME IInv, NEW c \in Client, NEW i \in Client, BeginRemove(c, i)
    PROVE  IInv'
<1> USE DEF BeginRemove, s3Vars
<1> DEFINE new == Call("remove", IF i \in externalEndpoints THEN "deleting" ELSE "skipped",
                       endpoint[i].name, i, FALSE, externalEndpoints)
<1>1. /\ TypeOK /\ client[c].pc = "new"
      /\ UNCHANGED <<externalEndpoints, endpoint, accessPoint, policy, delegated>>
  BY DEF IInv
<1>2. new \in CallState
  <2>1. endpoint[i].name \in Name  BY <1>1, StoredType
  <2> QED  BY <1>1, <2>1 DEF CallState, Call, PC, TypeOK
<1>3. /\ new.pc \in {"deleting", "skipped"} /\ new.op = "remove" /\ new.id = i
      /\ new.seen = externalEndpoints /\ new.name = endpoint[i].name /\ i \in Stored
      /\ new.pc = "deleting" => i \in externalEndpoints
  BY DEF Call
<1> HIDE DEF new
<1>4. /\ client' \in [Client -> CallState \cup {NewClient}]
      /\ client'[c] = new
      /\ \A k \in Client \ {c} : client'[k] = client[k]
  <2>1. client' = [client EXCEPT ![c] = new]  BY DEF new
  <2> QED  BY <1>1, <1>2, <2>1, Beginning
<1> HIDE DEF BeginRemove
<1>5. Stored' = Stored /\ \A m : NameStored(m)' = NameStored(m)  BY <1>1, SameRows
<1>6. TypeOK'
  BY <1>1, <1>4 DEF TypeOK
<1>7. CallsKnow'
  <2> SUFFICES ASSUME NEW k \in Client PROVE CallKnows(k)'
    BY DEF CallsKnow
  <2>1. CallKnows(k) /\ (client[k].pc # "new" => client[k].id \in Client)
    BY <1>1, AllBegun DEF IInv, CallsKnow
  <2>2. CASE k = c
    BY <1>1, <1>3, <1>4, <1>5, <2>2
    DEF IInv, CallKnows, AddPC, ListedIsStored, AccessPointIsLock, HoldsAccessPoint
  <2>3. CASE k # c
    BY <1>1, <1>3, <1>4, <1>5, <2>1, <2>3
    DEF IInv, CallKnows, AddPC, AccessPointIsLock, HoldsAccessPoint
  <2> QED  BY <2>2, <2>3
<1>8. AccessPointIsLock'
  <2> SUFFICES ASSUME NEW k \in Client PROVE HoldsAccessPoint(k)'
    BY DEF AccessPointIsLock
  <2>1. HoldsAccessPoint(k) /\ HoldsAccessPoint(c)  BY DEF IInv, AccessPointIsLock
  <2> QED
    BY <1>1, <1>3, <1>4, <1>5, <2>1
    DEF IInv, CallsKnow, CallKnows, HoldsAccessPoint, AddPC, ListedIsStored
<1>9. RolesKnow'
  <2> SUFFICES ASSUME NEW k \in Client PROVE RoleAdmitted(k)'
    BY DEF RolesKnow
  <2>1. CASE k = c
    BY <1>1, <1>3, <1>4, <2>1 DEF IInv, RoleAdmitted, RecordedRolesHaveAccess
  <2>2. CASE k # c
    BY <1>1, <1>4, <2>2 DEF IInv, RolesKnow, RoleAdmitted
  <2> QED  BY <2>1, <2>2
<1>10. EndpointNamesUnique' /\ ListedIsStored' /\ RecordedRolesHaveAccess'
  BY <1>1, <1>5 DEF IInv, EndpointNamesUnique, ListedIsStored, RecordedRolesHaveAccess
<1> QED  BY <1>6, <1>7, <1>8, <1>9, <1>10 DEF IInv
\* BeginGrant keeps the invariant.
LEMMA BeginGrantKeeps ==
    ASSUME IInv, NEW c \in Client, NEW i \in Client, BeginGrant(c, i)
    PROVE  IInv'
<1> USE DEF BeginGrant, s3Vars
<1> DEFINE pc  == IF RoleOf[endpoint[i].name] \in endpoint[i].roles THEN "done" ELSE "getting"
           new == [Call("grant", pc, endpoint[i].name, i, FALSE, {})
                     EXCEPT !.roles = endpoint[i].roles]
<1>1. /\ TypeOK /\ client[c].pc = "new"
      /\ UNCHANGED <<externalEndpoints, endpoint, accessPoint, policy, delegated>>
  BY DEF IInv
<1>2. new \in CallState
  <2>1. endpoint[i].name \in Name /\ endpoint[i].roles \subseteq Role  BY <1>1,
                                                                          StoredType
  <2> QED  BY <2>1 DEF CallState, Call, PC
<1>3. /\ new.pc \in {"getting", "done"} /\ new.op = "grant" /\ new.id = i /\ new.seen = {}
      /\ new.name = endpoint[i].name /\ new.roles = endpoint[i].roles /\ i \in Stored
  BY DEF Call
<1> HIDE DEF new
<1>4. /\ client' \in [Client -> CallState \cup {NewClient}]
      /\ client'[c] = new
      /\ \A k \in Client \ {c} : client'[k] = client[k]
  <2>1. client' = [client EXCEPT ![c] = new]  BY DEF new
  <2> QED  BY <1>1, <1>2, <2>1, Beginning
<1> HIDE DEF BeginGrant
<1>5. Stored' = Stored /\ \A m : NameStored(m)' = NameStored(m)  BY <1>1, SameRows
<1>6. TypeOK'
  BY <1>1, <1>4 DEF TypeOK
<1>7. CallsKnow'
  <2> SUFFICES ASSUME NEW k \in Client PROVE CallKnows(k)'
    BY DEF CallsKnow
  <2>1. CallKnows(k) /\ (client[k].pc # "new" => client[k].id \in Client)
    BY <1>1, AllBegun DEF IInv, CallsKnow
  <2>2. CASE k = c
    BY <1>1, <1>3, <1>4, <1>5, <2>2
    DEF IInv, CallKnows, AddPC, ListedIsStored, AccessPointIsLock, HoldsAccessPoint
  <2>3. CASE k # c
    BY <1>1, <1>3, <1>4, <1>5, <2>1, <2>3
    DEF IInv, CallKnows, AddPC, AccessPointIsLock, HoldsAccessPoint
  <2> QED  BY <2>2, <2>3
<1>8. AccessPointIsLock'
  <2> SUFFICES ASSUME NEW k \in Client PROVE HoldsAccessPoint(k)'
    BY DEF AccessPointIsLock
  <2>1. HoldsAccessPoint(k) /\ HoldsAccessPoint(c)  BY DEF IInv, AccessPointIsLock
  <2> QED
    BY <1>1, <1>3, <1>4, <1>5, <2>1
    DEF IInv, CallsKnow, CallKnows, HoldsAccessPoint, AddPC, ListedIsStored
<1>9. RolesKnow'
  <2> SUFFICES ASSUME NEW k \in Client PROVE RoleAdmitted(k)'
    BY DEF RolesKnow
  <2>1. CASE k = c
    BY <1>1, <1>3, <1>4, <2>1 DEF IInv, RoleAdmitted, RecordedRolesHaveAccess
  <2>2. CASE k # c
    BY <1>1, <1>4, <2>2 DEF IInv, RolesKnow, RoleAdmitted
  <2> QED  BY <2>1, <2>2
<1>10. EndpointNamesUnique' /\ ListedIsStored' /\ RecordedRolesHaveAccess'
  BY <1>1, <1>5 DEF IInv, EndpointNamesUnique, ListedIsStored, RecordedRolesHaveAccess
<1> QED  BY <1>6, <1>7, <1>8, <1>9, <1>10 DEF IInv

\* Every step keeps the invariant.
LEMMA InvStep == IInv /\ [Next]_vars => IInv'
<1> SUFFICES ASSUME IInv, [Next]_vars PROVE IInv'
  OBVIOUS
<1>1. ASSUME NEW c \in Client, Add(c) PROVE IInv'
  BY <1>1, BeginAddKeeps, CreateAccessPointKeeps, ConfigureBucketPolicyKeeps,
     AdmitSharedRoleKeeps, ValidateNameKeeps, StoreEndpointKeeps, RegisterKeeps
  DEF Add
<1>2. ASSUME NEW c \in Client, Remove(c) PROVE IInv'
  BY <1>2, BeginRemoveKeeps, DeleteAccessPointKeeps, UnregisterKeeps DEF Remove
<1>3. ASSUME NEW c \in Client, Grant(c) PROVE IInv'
  BY <1>3, BeginGrantKeeps, PutAccessPointPolicyKeeps, RecordRoleKeeps DEF Grant
<1>4. CASE UNCHANGED vars
  BY <1>4, SameRows
  DEF vars, IInv, TypeOK, CallsKnow, CallKnows, AccessPointIsLock, HoldsAccessPoint,
      RolesKnow,
      RoleAdmitted, EndpointNamesUnique, ListedIsStored, RecordedRolesHaveAccess
<1> QED  BY <1>1, <1>2, <1>3, <1>4, FailKeeps DEF Next

\* The invariant holds in every reachable state.
THEOREM Invariance == Spec => []IInv
BY InvInit, InvStep, PTL DEF Spec

\* Every variable always holds a value the code can give it.
THEOREM TypeCorrect == Spec => []TypeOK
<1>1. IInv => TypeOK  BY DEF IInv
<1> QED  BY <1>1, Invariance, PTL

\* externalEndpoint.ts: no two stored endpoints of a dataset have one name,
\* however many adds run together.
THEOREM NamesUnique == Spec => []EndpointNamesUnique
<1>1. IInv => EndpointNamesUnique  BY DEF IInv
<1> QED  BY <1>1, Invariance, PTL

\* Every listed id has its row, whatever list the calls write back.
THEOREM Listed == Spec => []ListedIsStored
<1>1. IInv => ListedIsStored  BY DEF IInv
<1> QED  BY <1>1, Invariance, PTL

\* Recorded roles are admitted by the access point they were granted on.
THEOREM RolesHaveAccess == Spec => []RecordedRolesHaveAccess
<1>1. IInv => RecordedRolesHaveAccess  BY DEF IInv
<1> QED  BY <1>1, Invariance, PTL

\* An endpoint is listed while the access point it was made with exists.
THEOREM ListedAlive == Spec => ListedWithAccessPoint
<1>1. IInv => [\A c \in Client :
                  client[c].pc = "registering" /\ client'[c].pc = "done"
                     => accessPoint[client[c].name] = c]_vars
  BY DEF IInv, AccessPointIsLock, HoldsAccessPoint
<1> QED  BY <1>1, Invariance, PTL DEF ListedWithAccessPoint
===============================================================================
