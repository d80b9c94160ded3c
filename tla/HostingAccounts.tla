---------------------------- MODULE HostingAccounts ----------------------------
(***************************************************************************)
(* Onboarding of hosting accounts (POST /aws-accounts): the main account's *)
(* event bus, artifacts bucket policy and encryption key policy are opened *)
(* to the account, then its row is stored (hostingAccountLifecycleService, *)
(* accountService).  Beside it, the dataset calls that admit a role to an  *)
(* access point and to the key (s3DataSetStoragePlugin): the key policy is *)
(* written by both.                                                        *)
(*                                                                         *)
(* The rule, the two policies and the access point policy are each read,   *)
(* extended and put back whole with no condition, so a put may overwrite   *)
(* what another call put since the read; "torn" records where it did.      *)
(* A read is part of the step that precedes it: that step writes another   *)
(* document, so nothing is lost by leaving no gap between the two.         *)
(***************************************************************************)
EXTENDS Integers, FiniteSets, PolicyDocuments

CONSTANTS
    Account,    \* AWS accounts that are onboarded
    Main,       \* the main account
    Caller,     \* onboarding calls; also the fresh ids of account rows
    Role,       \* roles given access to a dataset's endpoint, one call each
    RoleAccount,\* the account of a role
    Nobody,
    MaxFaults   \* bound: calls that fail half way

ASSUME HostingAssumption ==
    /\ RoleAccount \in [Role -> Account]
    /\ DOMAIN Chars = Account \cup {Main} \cup Role
    /\ Main \notin Account /\ Nobody \notin Account
    /\ MaxFaults \in Nat

VARIABLES
    busPermission,  \* accounts that may put events on the main bus
    rule,           \* accounts of the RouteHostEvents rule ({}: no such rule)
    targeted,       \* the rule has the status handler for target
    bucketPolicy,   \* policy of the artifacts bucket
    keyPolicy,      \* policy of the main encryption key
    apPolicy,       \* policy of the dataset's access point
    rows,           \* ACC# rows: [id, account]
    index,          \* AWSACC# rows: [id, account]
    call,           \* the onboarding calls
    grant,          \* the dataset calls
    torn,           \* what a put has overwritten without having read it
    faults

busVars    == <<busPermission, rule, targeted>>
policyVars == <<bucketPolicy, keyPolicy, apPolicy>>
rowVars    == <<rows, index>>
vars == <<busPermission, rule, targeted, bucketPolicy, keyPolicy, apPolicy,
          rows, index, call, grant, torn, faults>>

\* Progress of a call, and the document it read last.
NewCall  == [pc |-> "new", account |-> Nobody, seen |-> {}]
NewGrant == [pc |-> "new", seen |-> {}]

CallReads(c, pc, d) ==
    call' = [call EXCEPT ![c] = [pc |-> pc, account |-> @.account, seen |-> d]]
CallGoes(c, pc) == CallReads(c, pc, {})
GrantReads(r, pc, d) == grant' = [grant EXCEPT ![r] = [pc |-> pc, seen |-> d]]
GrantGoes(r, pc) == GrantReads(r, pc, {})

\* A put of a document that is not any more what its writer read.
Tear(document, seen, current) ==
    torn' = IF seen = current THEN torn ELSE torn \cup {document}

(***************************************************************************)
(* updateBusPermissions                                                    *)
(***************************************************************************)
\* putPermission, then describeRule
PutPermission(c, a) ==
    /\ call[c].pc = "new"
    /\ busPermission' = busPermission \cup {a}
    /\ call' = [call EXCEPT ![c] = [pc |-> "puttingRule", account |-> a, seen |-> rule]]
    /\ UNCHANGED <<rule, targeted, policyVars, rowVars, grant, torn, faults>>

\* Mutant of PutRule: an existing rule is replaced.
PutRuleAlone(c) ==
    /\ call[c].pc = "puttingRule"
    /\ rule' = {call[c].account}
    /\ Tear("rule", call[c].seen, rule)
    /\ CallGoes(c, "targeting")
    /\ UNCHANGED <<busPermission, targeted, policyVars, rowVars, grant, faults>>

\* A rule that did not exist is created for the account, one that did gets it
\* added; both are the union.
PutRule(c) ==
    /\ call[c].pc = "puttingRule"
    /\ rule' = call[c].seen \cup {call[c].account}
    /\ Tear("rule", call[c].seen, rule)
    /\ CallGoes(c, "targeting")
    /\ UNCHANGED <<busPermission, targeted, policyVars, rowVars, grant, faults>>

\* putTargets, then getBucketPolicy of updateArtifactsBucketPolicy; a bucket
\* without a policy (NoSuchBucketPolicy) counts as an empty document
PutTargets(c) ==
    /\ call[c].pc = "targeting"
    /\ targeted' = TRUE
    /\ CallReads(c, "puttingBucket", bucketPolicy)
    /\ UNCHANGED <<busPermission, rule, policyVars, rowVars, grant, torn, faults>>

(***************************************************************************)
(* updateArtifactsBucketPolicy                                             *)
(***************************************************************************)
ListStatement(a) ==
    Allow("List:environment-files", {a}, {"s3:ListBucket"}, {"bucket"}, "PrefixEnvironmentFiles")

GetStatement(a) ==
    Allow("Get:environment-files", {a}, {"s3:GetObject"}, {"bucket/environment-files"}, "none")

\* A statement is added when its Sid is missing, else the principal is added to it.
WithStatement(document, statement, a) ==
    IF ContainsStatementId(document, statement.sid)
    THEN AddPrincipalToStatement(document, statement.sid, a)
    ELSE document \cup {statement}

OpenedBucket(document, a) ==
    WithStatement(WithStatement(document, ListStatement(a), a), GetStatement(a), a)

\* putBucketPolicy, then getKeyPolicy of updateMainAccountEncryptionKeyPolicy
PutBucketPolicy(c) ==
    /\ call[c].pc = "puttingBucket"
    /\ bucketPolicy' = OpenedBucket(call[c].seen, call[c].account)
    /\ Tear("bucket", call[c].seen, bucketPolicy)
    /\ CallReads(c, "puttingKey", keyPolicy)
    /\ UNCHANGED <<busVars, keyPolicy, apPolicy, rowVars, grant, faults>>

(***************************************************************************)
(* updateMainAccountEncryptionKeyPolicy                                    *)
(***************************************************************************)
PutKeyPolicy(c) ==
    /\ call[c].pc = "puttingKey"
    /\ keyPolicy' =
         AddPrincipalToStatement(call[c].seen, "main-key-share-statement", call[c].account)
    /\ Tear("key", call[c].seen, keyPolicy)
    /\ CallGoes(c, "validating")
    /\ UNCHANGED <<busVars, bucketPolicy, apPolicy, rowVars, grant, faults>>

(***************************************************************************)
(* AccountService.createOrUpdate: the request schema admits no id, so it   *)
(* always creates.                                                         *)
(***************************************************************************)
Indexed(a) == \E i \in index : i.account = a

\* a creation of the account is under way past its validation, or died there
HalfCreated(a) ==
    \/ \E c \in Caller : call[c].account = a /\ call[c].pc \in {"storing", "indexing"}
    \/ \E i \in rows : i.account = a /\ i \notin index

\* Mutants of ValidateCreate: any account row is taken for the account's; a new
\* row is made for an account that is known.
ValidateAnyAccount(c) ==
    /\ call[c].pc = "validating"
    /\ CallGoes(c, IF index # {} THEN "refused" ELSE "storing")
    /\ UNCHANGED <<busVars, policyVars, rowVars, grant, torn, faults>>

ValidateNothing(c) ==
    /\ call[c].pc = "validating"
    /\ CallGoes(c, "storing")
    /\ UNCHANGED <<busVars, policyVars, rowVars, grant, torn, faults>>

ValidateCreate(c) ==
    /\ call[c].pc = "validating"
    /\ CallGoes(c, IF Indexed(call[c].account) THEN "refused" ELSE "storing")
    /\ torn' = IF HalfCreated(call[c].account) THEN torn \cup {"creation"} ELSE torn
    /\ UNCHANGED <<busVars, policyVars, rowVars, grant, faults>>

StoreAccount(c) ==
    /\ call[c].pc = "storing"
    /\ rows' = rows \cup {[id |-> c, account |-> call[c].account]}
    /\ CallGoes(c, "indexing")
    /\ UNCHANGED <<busVars, policyVars, index, grant, torn, faults>>

StoreAwsAccount(c) ==
    /\ call[c].pc = "indexing"
    /\ index' = index \cup {[id |-> c, account |-> call[c].account]}
    /\ CallGoes(c, "done")
    /\ UNCHANGED <<busVars, policyVars, rows, grant, torn, faults>>

\* An AWS call is refused or the API lambda reaches its limit: what was done
\* stays done.
CallFails(c) ==
    /\ call[c].pc \notin {"new", "done", "refused", "failed"}
    /\ faults < MaxFaults
    /\ faults' = faults + 1
    /\ CallGoes(c, "failed")
    /\ UNCHANGED <<busVars, policyVars, rowVars, grant, torn>>

(***************************************************************************)
(* addExternalEndpoint / addRoleToExternalEndpoint with a role: first the  *)
(* access point policy, then, when the caller names the key, its policy.   *)
(***************************************************************************)
ListBucketStatement(r) ==
    Allow("none", {r}, {"s3:ListBucket"}, {"accessPoint"}, "none")

GetPutStatement(r) ==
    Allow("none", {r}, {"s3:GetObject", "s3:PutObject"}, {"accessPoint/object"}, "none")

\* Mutant of AdmittedRole: the second insertion is lost.
AdmittedToList(document, r) ==
    InsertStatementIntoDocument(ListBucketStatement(r), document)

AdmittedRole(document, r) ==
    InsertStatementIntoDocument(GetPutStatement(r),
        InsertStatementIntoDocument(ListBucketStatement(r), document))

GetAccessPointPolicy(r) ==
    /\ grant[r].pc = "new"
    /\ GrantReads(r, "puttingAp", apPolicy)
    /\ UNCHANGED <<busVars, policyVars, rowVars, call, torn, faults>>

\* One of the two insertions updated the document.
UpdatedFor(document, r) ==
    \/ ~PolicyDocumentContainsStatement(document, ListBucketStatement(r))
    \/ ~PolicyDocumentContainsStatement(
           InsertStatementIntoDocument(ListBucketStatement(r), document), GetPutStatement(r))

\* The policy is put if it was updated; then, with a key, _configureKmsKey reads its
\* policy.
PutAccessPointPolicy(r, withKey) ==
    /\ grant[r].pc = "puttingAp"
    /\ IF UpdatedFor(grant[r].seen, r)
       THEN /\ apPolicy' = AdmittedRole(grant[r].seen, r)
            /\ Tear("accessPoint", grant[r].seen, apPolicy)
       ELSE UNCHANGED <<apPolicy, torn>>
    /\ IF withKey THEN GrantReads(r, "puttingKey", keyPolicy) ELSE GrantGoes(r, "done")
    /\ UNCHANGED <<busVars, bucketPolicy, keyPolicy, rowVars, call, faults>>

\* generateIamPolicy: what the role of an instance may do by itself.  The key, in
\* another account, is used by those whom both this and its own policy admit.
InstancePolicy(r) ==
    {Allow("DataSetReadWriteAccess", {r}, {"s3:GetObject", "s3:PutObject"},
           {"accessPoint/object"}, "none"),
     Allow("DataSetListBucket", {r}, {"s3:ListBucket"}, {"accessPoint"}, "none"),
     Allow("studyKMSAccess", {r}, {"kms:Encrypt", "kms:Decrypt", "kms:CreateGrant"}, {"*"}, "none")}

UsageStatement(a) ==
    Allow("none", {a}, {"kms:Encrypt", "kms:Decrypt"}, {"*"}, "none")

AttachStatement(a) ==
    Allow("none", {a}, {"kms:CreateGrant"}, {"*"}, "GrantIsForAWSResource")

AddedUnlessContained(document, statement) ==
    IF PolicyDocumentContainsStatement(document, statement)
    THEN document ELSE document \cup {statement}

\* _configureKmsKey admits the whole account of the role.
UsableKey(document, a) ==
    AddedUnlessContained(AddedUnlessContained(document, UsageStatement(a)), AttachStatement(a))

ConfigureKmsKey(r) ==
    /\ grant[r].pc = "puttingKey"
    /\ LET a == RoleAccount[r] IN
       IF UsableKey(grant[r].seen, a) = grant[r].seen
       THEN UNCHANGED <<keyPolicy, torn>>
       ELSE /\ keyPolicy' = UsableKey(grant[r].seen, a)
            /\ Tear("key", grant[r].seen, keyPolicy)
    /\ GrantGoes(r, "keyed")
    /\ UNCHANGED <<busVars, bucketPolicy, apPolicy, rowVars, call, faults>>

(***************************************************************************)
(* The specification                                                       *)
(***************************************************************************)
\* the stack creates the key with the main account as only principal
Init ==
    /\ busPermission = {} /\ rule = {} /\ targeted = FALSE
    /\ bucketPolicy = {} /\ apPolicy = {}
    /\ keyPolicy = {Allow("main-key-share-statement", {Main}, {"kms:*"}, {"*"}, "none")}
    /\ rows = {} /\ index = {}
    /\ call = [c \in Caller |-> NewCall]
    /\ grant = [r \in Role |-> NewGrant]
    /\ torn = {} /\ faults = 0

CallStep(c) ==
    \/ PutRule(c) \/ PutTargets(c) \/ PutBucketPolicy(c) \/ PutKeyPolicy(c)
    \/ ValidateCreate(c) \/ StoreAccount(c) \/ StoreAwsAccount(c)

GrantStep(r) ==
    \/ GetAccessPointPolicy(r)
    \/ \E withKey \in BOOLEAN : PutAccessPointPolicy(r, withKey)
    \/ ConfigureKmsKey(r)

Next ==
    \/ \E c \in Caller : \/ \E a \in Account : PutPermission(c, a)
                         \/ CallStep(c) \/ CallFails(c)
    \/ \E r \in Role : GrantStep(r)

Spec == Init /\ [][Next]_vars

(***************************************************************************)
(* Properties                                                              *)
(***************************************************************************)
Principals == Account \cup {Main} \cup Role

StatementOK(s) ==
    /\ s.effect = "Allow"
    /\ s.principals \subseteq Principals /\ s.principals # {}

RowOK(i) == i.id \in Caller /\ i.account \in Account

\* Every variable holds a value the code or the services can give it; no
\* statement ever loses its last principal.
TypeOK ==
    /\ busPermission \subseteq Account /\ rule \subseteq Account /\ targeted \in BOOLEAN
    /\ \A s \in bucketPolicy \cup keyPolicy \cup apPolicy : StatementOK(s)
    /\ \A i \in rows \cup index : RowOK(i)
    /\ DOMAIN call = Caller /\ DOMAIN grant = Role
    /\ \A c \in Caller :
         /\ call[c].account \in Account \cup {Nobody}
         /\ call[c].pc # "new" <=> call[c].account # Nobody
    /\ torn \subseteq {"rule", "bucket", "key", "accessPoint", "creation"}
    /\ faults \in 0..MaxFaults

\* What an account needs: its events are routed, and it may list and read the
\* bootstrap files and use the key, unless a put overwrote the document.
InRule(a) == "rule" \in torn \/ a \in rule

InBucketPolicy(a) ==
    "bucket" \in torn \/
        /\ Allows(bucketPolicy, a, "s3:ListBucket", "bucket")
        /\ Allows(bucketPolicy, a, "s3:GetObject", "bucket/environment-files")

InKeyPolicy(a) == "key" \in torn \/ Allows(keyPolicy, a, "kms:*", "*")

\* An account that has a row can be used: its events are accepted, routed to
\* the status handler, and it may list and read the bootstrap files and use the
\* key.  Where two calls overlapped the later put may have taken an account out
\* again, which is the only way it can be missing.
StoredIsAdmitted ==
    \A i \in rows :
        /\ i.account \in busPermission /\ targeted
        /\ InRule(i.account) /\ InBucketPolicy(i.account) /\ InKeyPolicy(i.account)

\* The main account keeps the key whatever calls overlap: a key policy without
\* it could not be repaired by anyone.
MainKeepsKey == Allows(keyPolicy, Main, "kms:*", "*")

\* Across accounts, access takes both the role's policy and the resource's, which
\* admits the role or its account.
MayUse(document, principal, r, action, resource) ==
    Allows(document, principal, action, resource) /\ Allows(InstancePolicy(r), r, action, resource)

ReadsThrough(document, r) ==
    /\ MayUse(document, r, r, "s3:ListBucket", "accessPoint")
    /\ MayUse(document, r, r, "s3:GetObject", "accessPoint/object")

\* r can use the key if it is a role of the account a.
DecryptsAs(document, a, r) ==
    /\ MayUse(document, a, r, "kms:Decrypt", "*")
    /\ MayUse(document, a, r, "kms:CreateGrant", "*")

PastAccessPoint(r) == grant[r].pc \notin {"new", "puttingAp"} /\ "accessPoint" \notin torn
PastKey(r) == grant[r].pc = "keyed" /\ "key" \notin torn

\* A role that was admitted to a dataset can list it and read it, and it can use
\* the key when the call named one, unless a put in between overwrote the
\* document.  This is what the methods say they do (dataSetService.ts:235,
\* iamHelper.ts:187), and it does not hold: see GrantedOrTakenFor.
GrantedIsAdmitted ==
    \A r \in Role :
        /\ PastAccessPoint(r) => ReadsThrough(apPolicy, r)
        /\ PastKey(r) => DecryptsAs(keyPolicy, RoleAccount[r], r)

\* Somebody is admitted whom the comparison of principals takes for the role: on the
\* access point in either direction (what is contained is not inserted, and nobody
\* is missing from a statement that contains the role), on the key in one.
ReadsInPlaceOf(document, r) ==
    \E q \in Role : (Resembles(q, r) \/ Resembles(r, q)) /\ ReadsThrough(document, q)

DecryptsInPlaceOf(document, r) ==
    \E a \in Account : Resembles(a, RoleAccount[r]) /\ DecryptsAs(document, a, r)

TakenFor(r) ==
    /\ PastAccessPoint(r) => ReadsInPlaceOf(apPolicy, r)
    /\ PastKey(r) => DecryptsInPlaceOf(keyPolicy, r)

\* After a grant that no put overlapped, the role can list, read and decrypt (r
\* resembles itself), or it is left out because of one that can: its ARN, or its
\* account's, is made of the same characters as that of the role, or of some of
\* them.  No other grant is lost, in any order and after any failure.
GrantedOrTakenFor == \A r \in Role : TakenFor(r)

Whole(document) ==
    \A r \in Role : Allows(document, r, "s3:ListBucket", "accessPoint")
                      <=> Allows(document, r, "s3:PutObject", "accessPoint/object")

\* Listing and writing through the access point are given together, even when
\* calls overlap: no role is left with half of its access.
WholeGrants == Whole(apPolicy)

\* An AWS account gets one row, unless a creation was validated while another
\* one of the account was between its validation and its second row, or had
\* died there: the table itself enforces nothing.
OneRowPerAccount ==
    "creation" \in torn \/ \A i, j \in rows : i.account = j.account => i = j

\* The answer of a call is true.  An account that it reports as stored, or refuses as
\* "found in DDB" (accountService.ts:131), has both of its rows: the row of an
\* account that another call is only about to index refuses nobody.
AnswersAreTrue ==
    \A c \in Caller :
        call[c].pc \in {"done", "refused"} =>
            \E i \in rows \cap index : i.account = call[c].account

(***************************************************************************)
(* The inductive invariant                                                 *)
(***************************************************************************)
\* The statements that occur in each document, by whom they admit.
Principled(s) == s.principals \subseteq Principals /\ s.principals # {}

Like(s, t) == s = Allow(t.sid, s.principals, t.actions, t.resources, t.condition)

BucketStatement(s) ==
    /\ Principled(s)
    /\ \/ Like(s, ListStatement(Main))
       \/ Like(s, GetStatement(Main))

MainKeyStatement(s) == s = Allow("main-key-share-statement", s.principals, {"kms:*"}, {"*"}, "none")

KeyStatement(s) ==
    \/ MainKeyStatement(s) /\ Principled(s)
    \/ \E a \in Account : s = UsageStatement(a) \/ s = AttachStatement(a)

ListFor(P) == Allow("none", P, {"s3:ListBucket"}, {"accessPoint"}, "none")
WriteFor(P) == Allow("none", P, {"s3:GetObject", "s3:PutObject"}, {"accessPoint/object"}, "none")

BucketDocument(d) == \A s \in d : BucketStatement(s)

\* An account is given the two statements about the key together.
KeyDocument(d) ==
    /\ \A s \in d : KeyStatement(s)
    /\ \E s \in d : MainKeyStatement(s) /\ Main \in s.principals
    /\ \A a \in Account : UsageStatement(a) \in d <=> AttachStatement(a) \in d

\* One statement of each kind, for the same roles.
AccessPointFor(P) == IF P = {} THEN {} ELSE {ListFor(P), WriteFor(P)}
AccessPointDocument(d) == \E P \in SUBSET Role : d = AccessPointFor(P)

\* Every document there is, the ones that calls hold included, is of its kind.
DocumentsOK ==
    /\ BucketDocument(bucketPolicy) /\ KeyDocument(keyPolicy) /\ AccessPointDocument(apPolicy)
    /\ \A c \in Caller :
         /\ call[c].pc = "puttingRule" => call[c].seen \subseteq Account
         /\ call[c].pc = "puttingBucket" => BucketDocument(call[c].seen)
         /\ call[c].pc = "puttingKey" => KeyDocument(call[c].seen)
    /\ \A r \in Role :
         /\ grant[r].pc = "puttingAp" => AccessPointDocument(grant[r].seen)
         /\ grant[r].pc = "puttingKey" => KeyDocument(grant[r].seen)

\* What a call has behind it holds for its account.
CallKnows(c) ==
    LET a  == call[c].account
        pc == call[c].pc
        past == {"validating", "storing", "indexing"}
    IN  /\ pc # "new" => a \in busPermission
        /\ pc \in past \cup {"puttingKey", "puttingBucket", "targeting"} => InRule(a)
        /\ pc \in past \cup {"puttingKey", "puttingBucket"} => targeted
        /\ pc \in past \cup {"puttingKey"} => InBucketPolicy(a)
        /\ pc \in past => InKeyPolicy(a)

CallsKnow == \A c \in Caller : CallKnows(c)

\* While nothing was overwritten, the document that a call read is no further
\* than the document that is there.
GrantKnows(r) ==
    /\ grant[r].pc = "puttingAp" /\ "accessPoint" \notin torn =>
         (ReadsInPlaceOf(grant[r].seen, r) => ReadsInPlaceOf(apPolicy, r))
    /\ grant[r].pc = "puttingKey" /\ "key" \notin torn =>
         (DecryptsInPlaceOf(grant[r].seen, r) => DecryptsInPlaceOf(keyPolicy, r))

GrantsKnow == \A r \in Role : GrantKnows(r)

\* A call that is about to store an account is the only one, and there is no row.
StoresAlone(c) ==
    call[c].pc = "storing" /\ "creation" \notin torn =>
        /\ \A i \in rows : i.account # call[c].account
        /\ \A k \in Caller :
             call[k].pc = "storing" /\ call[k].account = call[c].account => k = c

StoreAlone == \A c \in Caller : StoresAlone(c)

\* The second row is made from the first.
RowsKnow ==
    /\ index \subseteq rows
    /\ \A c \in Caller :
         call[c].pc = "indexing" => [id |-> c, account |-> call[c].account] \in rows

IInv ==
    /\ TypeOK /\ DocumentsOK
    /\ RowsKnow /\ AnswersAreTrue
    /\ CallsKnow /\ StoredIsAdmitted
    /\ GrantsKnow /\ GrantedOrTakenFor
    /\ OneRowPerAccount /\ StoreAlone
================================================================================
