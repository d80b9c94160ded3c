# A verification of solution-spark-on-aws (Service Workbench on AWS)

Service Workbench launches research environments (SageMaker notebooks) in
hosting accounts, mounts datasets (S3 prefixes behind access points) in them and
keeps a record of everything in one DynamoDB table. Its state is spread over that
table, Service Catalog, SSM automation documents, SageMaker, S3 access points and
the event bus, and every piece of code is a lambda that may be stopped between
any two of its calls. This directory holds TLA+ models of the code, the TLC
instances that check them and proofs of their main theorems.

## Reading guide

| file | what it is |
|---|---|
| `EnvironmentLifecycle.tla` | one environment: requests, automation documents, notebook, events, status handler |
| `EnvironmentLifecycleProofs.tla` | its type invariant, inductive invariant and five safety theorems |
| `EnvironmentRecord.tla` | what the table promises about an environment: the abstract specification |
| `EnvironmentRecordProofs.tla` | the proof that `EnvironmentLifecycle` implements it |
| `MCEnvironmentLifecycle.tla`, `env_*.cfg` | TLC instances of these |
| `DataSetEndpoints.tla` | the external endpoints of one dataset |
| `DataSetEndpointsProofs.tla` | its invariant and the theorems about it |
| `MCDataSetEndpoints.tla`, `ds_*.cfg` | its TLC instances |
| `PolicyDocuments.tla` | IAM policy documents and the operations of `IamHelper` on them |
| `HostingAccounts.tla`, `MCHostingAccounts.tla`, `accounts.cfg`, `grants.cfg` | onboarding of hosting accounts, and the policies of datasets |
| `HostingAccountsProofs.tla` | its inductive invariant and the theorems about it |
| `PostDeployment.tla` | the script that follows a deployment |
| `AccountHandler.tla`, `MCAccountHandler.tla`, `deployments.cfg` | the account handler, working with what the script publishes |
| `AccountHandlerProofs.tla` | the inductive invariant of script and handler and the theorems about them |
| `FiniteOrders.tla` | finite sets that are ordered have a last element, and sets of numbers a least and a largest: what several proofs need |
| `UserPool.tla` | the user pool: set-up of the first administrator and user management |
| `Authorization.tla` | static routes and permissions, and who is admitted by them |
| `UserAccess.tla`, `MCUserAccess.tla`, `identity.cfg` | people who sign in, refresh, sign out and call the routes of the user pool |
| `UserAccessProofs.tla` | its inductive invariant and the theorems about it |
| `Table.tla` | a DynamoDB table: queries by page, gets, updates |
| `Catalog.tla` | environment types, configurations, lists of environments |
| `DataSets.tla` | provisioning and importing datasets |
| `EnvironmentsPage.tla` | the browser's page that lists environments |
| `NewEnvironmentForm.tla` | the browser's form that creates one |
| `CatalogClients.tla`, `MCCatalog.tla`, `catalog.cfg` | the table with its clients |
| `CatalogProofs.tla` | the inductive invariant of the table and its clients, and the theorems about them |
| `PROJECT.json` | components, runs, mutants, the map from definitions to source lines, findings, hazards, theorems |

`tlc -config env_faults.cfg MCEnvironmentLifecycle.tla` runs one instance,
`tlapm EnvironmentLifecycleProofs.tla` checks one proof module.

A definition whose name starts with that of another one and says what went
wrong (`OutdatedAnyOperation`, `CreateOrReuseAccessPoint`) is a *mutant*: the
definition as a plausible bug would make it. No specification uses it. It stands
next to the definition it spoils, and for every property `PROJECT.json` names
the mutant that violates it.

## Inventory

| component | state it keeps | operations | what is hard about it | what makes it correct |
|---|---|---|---|---|
| **Environment lifecycle** (`environmentRoutes.ts`, `sagemakerNotebookEnvironmentLifecycleService.ts`, `environmentLifecycleHelper.ts`, `environmentService.ts`, the two SSM documents) | the `ENV#` row, its metadata rows, the automations, the notebook | launch, terminate, start, stop, connect, list | a read, several AWS calls and a write back with no condition; parallel promises; lost answers; 29 s limit | the row never promises what is not so; data is unmounted only when the environment ends |
| **Status handler** (`statusHandlerLambda.ts`, `statusHandler.ts`) | none of its own; writes the row | one execution per event | events late, repeated, reordered; crash between five writes | every reported outcome ends in the row; terminated means gone |
| **Datasets** (`dataSetService.ts`, `s3DataSetStoragePlugin.ts`, `ddbDataSetMetadataPlugin.ts`) | the dataset row with its list, endpoint rows, access points, their policies, the bucket and key policies | provision, import, add endpoint, remove endpoint, grant a role | check then act, read-modify-write of rows and policies, nothing rolled back | names unique, list and rows agree, recorded roles have access |
| **IAM policy documents** (`iamHelper.ts`) | none (pure) | contains, insert, add principal | subset comparisons, and principals compared by the characters of their ARNs | what was inserted is allowed or was taken for what is there, and nobody is taken out |
| **Hosting accounts** (`hostingAccountLifecycleService.ts`, `accountService.ts`) | `ACC#`/`AWSACC#` rows, bus permission and rule, key and bucket policies | onboard | concurrent onboarding, partial failure | a stored account is routed and has its access |
| **Account handler** (`accountHandler.ts`, `iamRoleCloneService.ts`) | shares, the cloned role, the account's status | update every account, every five minutes | an account that fails, a role and stacks that change meanwhile, repeated runs | the clone is exact; the status says whether the stack is up to date |
| **Post deployment** (`postDeployment.ts`, `serviceCatalogSetup.ts`, `cognitoSetup.ts`) | S3 templates, portfolio, products, constraints, user pool | run, re-run after a crash, by several people | half-done runs, versions numbered by what was read | a completed run leaves every type published and constrained; an administrator exists |
| **Environment types, configs, projects** | their rows | create, update, list | check then upsert, copies of the parent's attributes, lists read while they change | lists are complete; a config has its type's product |
| **Authentication** (`authenticationMiddleware.ts`, Cognito plugins, `AuthenticationContext.tsx`) | cookies, local storage, tokens, Cognito users and groups | login, refresh, logout, verify, user management | single-use codes, tabs that share storage, a dependency that is down | a code is sent with its own verifier; a client that was logged out is told so |
| **Authorization** (static permissions, CASL) | none (configuration) | route lookup, rule evaluation | order of patterns and of rules | nobody appoints themselves |
| **DynamoDB helpers** | none (builders) | get, query, update, … | indexes that do not order rows of one key, upserts | the request built is the one asked for |
| **User interface** | state of its pages, cached answers | page, filter, sort, buttons, forms | answers out of order, stale selections | a page's token belongs to its view; marks and choices are true |
| Audit | none | middleware, writers | runs around asynchronous handlers | not modelled: only the example application mounts it |
| Logging, the rest of the CDK stacks, examples, lint rules, repository tools | – | – | – | not modelled: output, declarations and build tooling |

How they interact: the API lambda calls the environment lifecycle, which calls
the dataset service for mounts and starts an automation in the hosting account.
The automation provisions the product and puts an event on the main account's
bus; SageMaker puts an event there at every change of the notebook. The bus
invokes the status handler, which writes the row and calls the dataset service to
admit the notebook's role. The account handler runs every five minutes and
prepares the accounts that the automations run in, from what the post deployment
script published. Every request passes the two middlewares first, with a token
that the pages obtained from Cognito; the pages read the table through the API
a page at a time. Shared state is what ties modules together: the key policy is
written by onboardings and by dataset grants (`HostingAccounts`), the onboarding
template by deployments and read by the account handler (`AccountHandler` extends
`PostDeployment`), the groups by the set-up, the API and other programs
(`UserAccess` extends `UserPool` and `Authorization`), the one table by every
service and page (`CatalogClients`).

## Plan

Done: `EnvironmentLifecycle` and `DataSetEndpoints` with their proofs,
`EnvironmentRecord` with the refinement and its proof, `PolicyDocuments`,
`HostingAccounts` with its proofs, `PostDeployment` and `AccountHandler` with theirs, `UserPool`,
`Authorization` and `UserAccess` with the proofs, `Table`, `Catalog`, `DataSets`,
`EnvironmentsPage` and `NewEnvironmentForm` with the proofs about `CatalogClients`.
Every safety property of a passing run is stated by a theorem.

Left, in this order:

1. An abstract specification of the endpoint list (the set of endpoints a dataset
   has), which `DataSetEndpoints` does not implement: the two findings are where it
   fails. Stated, it would say what a repair has to establish.
2. Two environments that mount one dataset (`EnvironmentLifecycle` with
   `DataSetEndpoints`), for the access points that a skipped remove leaves behind.
3. Batches, transactions, scans and the list operations of the updater, once
   an operation that uses them is modelled.

## EnvironmentLifecycle

One environment is enough: rows of different environments have different keys,
and what they share, the datasets they mount, shows up here only as an endpoint
that a remove finds unlisted (`SkipUnlistedEndpoint`).

**Granularity.** An action is the code between two awaits that touch shared
state. Reads that only fetch immutable data are merged with their use: the second
`getEnvironment` in the lifecycle service uses only the instance and product ids,
which are written once. `updateEnvironment` reads before it writes only to answer
404, so it is one step.

**State.**

| variable | in the code |
|---|---|
| `row` | `ENV#` row: `status`; `launched` = `instanceId` and `provisionedProductId` are recorded (one update writes both); `listed` = `resourceType` is still `environment`; `updatedAt` |
| `launch` | progress of `POST /environments` |
| `req` | progress of each `PUT .../terminate`, `start`, `stop`: `calling` before the AWS call, `cleaning` in `removeAccessPoints`, `abandoned` when it failed there while its promises go on, `writing` before the write back; `removed` = promises that are done |
| `handler` | executions of `StatusHandler.execute`, with their event |
| `bus` | events emitted and not consumed; an event carries operation, normalised status, time and the number of failed tries |
| `notebook` | SageMaker's `NotebookInstanceStatus` |
| `launchDoc`, `terminateDoc` | the automations; `aborted` = ended without pushing an event |
| `mounted`, `roleLinked`, `unmounted` | datasets whose access point was created and linked to the environment, admits the instance role, was deleted |
| `links` | the two `ENV#`/`INID#` rows of `addMetadata` |
| `clock`, `faults`, `copies` | time, and counters for the bounds |

**Actions.** `CreateEnvironment` … `LauncherDies` are the launch route:
`createEnvironment`'s transaction, one promise per dataset of
`getDatasetsToMount` (they go on after the first failure has rejected
`Promise.all`), the start of the document, whose answer may be lost, the catch
branch, the lambda's time limit. `ProvisionNotebook` … `TerminateDocAborts` are
the hosting account; what SageMaker does is external and follows its documented
states. `Route` is the status test of a route, `TerminateCall`, `StartCall` and
`StopCall` the AWS call of the lifecycle service, `WriteBack` its final update.
`Deliver` is the handler up to the end of its outdated test; `ApplyStatus`,
`LinkRole`, `RecordInstance`, `LinkInstance`, `LinkEnvironment` are its writes in
the order of the code; a grant whose role is already recorded on the endpoint returns
early, as in `dataSetService.ts:255`, and so cannot fail; `HandlerThrows` are its own exceptions, `HandlerFails` a
crash or the 60 s limit. A failed event is tried `MaxTries` times, as Lambda does
with asynchronous invocations.

**Assumptions about what is outside `src/`.** A state event of SageMaker carries
the `Env` tag that the Launch document puts on the product (`statusHandlerLambda`
falls back to the instance id otherwise). The start of the Terminate document
with an empty product id is refused (the document's `allowedPattern`). SageMaker
starts only a stopped notebook and stops only one in service. A termination
that is started on a product that is already being terminated, or gone, reports
nothing of its own.

### Runs

| run | instance | checks |
|---|---|---|
| `env_calls` | 2 requests, 2 handlers, 2 datasets, each event tried twice, 1 event on the bus | `NoStatusBeforeInstance`, `TerminateAckMeansStarted`, `UnmountedOnlyInTermination`, `TerminatedIsTrue`, `RolesLinkedBeforeInstance`, the refinement `ImplementsRecord` |
| `env_faults` | 1 request, 1 handler that crashes once, 1 dataset, time 0..1, each event tried twice, one event delivered twice, 1 event on the bus, fairness | `IInv` (which contains `TypeOK` and implies the safety properties), and the liveness properties `FailedLaunchIsReported`, `LaunchIsRecorded` |
| `env_connectable` | no request, 2 handlers | `CompletedIsConnectable` is violated |
| `env_settled` | no request, 2 handlers, time 0..2, 1 event on the bus | `SettledStatusIsTrue` is violated |

*Bounds.* `MaxBus` is the number of events waiting for delivery, one in both runs: an
emission simply waits while the bus is full. Two handlers can hold an event each, so
`env_calls` has any pair of events overtake each other; with one handler
(`env_faults`) an older event comes after a newer one when it is tried again or
delivered a second time.
`MaxTime` bounds the clock and `Resolution` is the granularity of an event's time
(EventBridge gives seconds, the row milliseconds); time matters only in
the comparison of an event's time with `updatedAt`, so two values give every
outcome of it. In `env_calls` the clock stands still, which
leaves the comparison false and so lets *more* events through. `MaxTries` is
Lambda's number of attempts (three in production; two already separate "tried
again" from "dropped"). `MaxCopies` bounds the duplications and `MaxFaults` the
crashes, one of each in `env_faults`. Two datasets (`env_calls`) are what it takes for a
mount or a grant to fail after another one succeeded. The
safety properties are proved for every value of these constants.

*Deadlock* is not checked: once the environment is terminated, every request
answered and every event consumed, the system really stops.

*Fairness* (`FairSpec`): an event on the bus is eventually delivered, and
an execution that Lambda started goes on, which is what the services guarantee.
Nothing is assumed of users, of SageMaker or of the documents. `env_faults` has
fewer crashes than tries; with as many crashes as tries the event is dropped and
`LaunchIsRecorded` is false, by design of asynchronous invocation.

### What the runs show

* What the row shows is safe: `TERMINATED` and disappearance from the listing mean
  that the notebook is deleted, a 204 to a terminate means that a termination was
  started, data is never unmounted otherwise, and the instance is recorded only
  when its role was admitted to all its datasets – for any interleaving of
  requests, handlers, duplicated and retried events and lost replies.
* `CompletedIsConnectable` is false: the handler writes `COMPLETED` before the
  instance id. In that window (for good, when the later calls keep failing) an
  environment that is shown as ready cannot be connected to or terminated.
* `SettledStatusIsTrue` is false: a notebook that auto-stops before the Launch event
  was applied ends as `COMPLETED` in the table, because its state events are
  skipped and the Launch event is applied whatever its age. A start request is
  then answered 204 without doing anything.

### Proofs

`EnvironmentLifecycleProofs` proves `TypeOK`, `IInv` and each of the five safety
properties for all finite or infinite sets of requests, handlers and datasets and
all values of the bounds, from `BoundsAssumption` alone.

The safety properties are not inductive: that a row is set to `TERMINATED` only
when the notebook is gone depends on the event that says so, which was emitted
long before. `IInv` adds what the actors know:

* `EventsTrue`: what an event on the bus or in a handler says was true when it was
  emitted and stays true – a document's outcome does not change, a deleted notebook
  stays deleted, a termination that was started stays started. This is why no
  delay, repetition or retry hurts.
* `HandlersKnow`, `RequestsKnow`: a handler past the outdated test, or a request past
  its AWS call, found the ids recorded, and ids are never removed.
* `DocumentsKnow`: the Launch document starts once and with every dataset mounted;
  ids are recorded only after it succeeded; a notebook is deleted only in a
  termination or in the rollback of a failed launch.
* `RowKnows`: a row that shows a termination had one.

There is one lemma per group of actors (launcher, hosting account, request,
delivery, handler), with one case per action, and `GiveBackTrue` for the retried
events, which change only their counter. TLC checks `IInv` in `env_faults`.

### EnvironmentRecord, the abstract specification

`EnvironmentRecord` says what the row promises its readers, with no request,
event, handler or document in it: a status that speaks of an instance is shown
only when the instance was recorded (`Show`); `TERMINATED` only when the instance
is gone, and then the environment leaves the listing for good; the instance is
recorded once it has all its data (`RecordInstance`) and never forgotten; data is
taken away only after a termination was started (`Remove`); a user is told that
the environment terminates only then too (`Promise`). `EnvironmentLifecycle`
implements it under the mapping of `Record`: the status is the row's, `outcome`
and `ending` come from the two documents, `gone` from the notebook, `promised`
from the answers of the terminate route. `env_calls` checks `ImplementsRecord`
with two handlers, where a status that is late may be written over a newer one.

`EnvironmentRecordProofs` proves `Spec => ImplementsRecord`. A step of the protocol
maps to one step of the record or to a stutter: that what a handler or a route
writes is allowed *now* follows from `IInv`, which says what they know. Two facts
were missing and are proved first: `Begun` (before there is a row nothing is under
way) and `AnsweredOnce` (a request has its 204 only when it has ended, so a
promise is made in the step that answers). One lemma per group of actors maps
its steps (`LauncherMaps`, `HostingAccountMaps`, `RequestMaps`, `HandlerMaps`); the
write back that answers a terminate is the one step that shows and promises at
once (`ShowAndPromise`).

## DataSetEndpoints

One dataset, any number of callers, each with one call: an add (a launch that
mounts, or the share route, which gives a role), a remove (a termination) or a
grant (the status handler). Rows are read whole and written whole, so a call
carries what it read (`seen`, `roles`), and an await separates every two actions.
`Fail` is a rejected await or a stopped lambda at any point; nothing is rolled back.

| variable | in the code |
|---|---|
| `externalEndpoints` | the list of endpoint ids in the `DATASET#` row |
| `endpoint` | the endpoint rows: `name`, `allowedRoles`; an add by client `c` creates the id `c` (ids are fresh uuids) |
| `accessPoint` | S3 access points by name, with the call that created them |
| `policy` | roles an access point's policy admits |
| `delegated` | the bucket policy's delegation statement, which is the same for every access point of the bucket |
| `client` | progress of every call |

`RoleOf` gives each endpoint name its role: a name is made from the dataset and
the environment, and the environment has one instance role. The KMS branch is left
to `HostingAccounts`, which models what the grants write as documents.

Runs: `ds_calls` (4 callers, 2 names, any mixture of calls, all may fail) checks
`IInv`, `RecordedRolesHaveAccess`, `EndpointNamesUnique`, `ListedIsStored` and the action
property `ListedWithAccessPoint`. Four callers are the fewest that give an add, its
remove, a second add of the same name and a grant. `ds_two_adds` and `ds_remove`
show that two promises of the doc comments do not hold: concurrent adds
lose one of the two ids, and a remove keeps the removed id and drops all others.
Symmetry permutes the callers; the only temporal property is an action property,
for which the reduction is sound.

*Proofs* (`DataSetEndpointsProofs`): the invariant, and from it the five properties,
for any sets of callers, names and roles, from `RoleAssumption` and
`NobodyAssumption`. The argument: names are looked up in one call and stored
in a later one, so the lookup alone protects nothing. What does is the access
point. S3 refuses to create a second one of a name, so it acts as the lock under
which the endpoint of that name is made (`AccessPointIsLock`): until the name is
stored the access point belongs to the add that created it, because only a stored
and listed endpoint's access point is ever deleted, and only the add itself lists
the id. `CallsKnow` ties a call to the row it works on, `RolesKnow` says that a
call about to record a role has put it in the policy if the access point still is
the one the endpoint was made with. There is one lemma per action (`…Keeps`),
on top of lemmas about how a step moves one client (`Moved`) and leaves the others'
facts alone.

## PolicyDocuments and HostingAccounts

`POST /aws-accounts` opens the main account to a hosting account in a fixed order
(bus permission, rule, target, artifacts bucket policy, key policy) and then stores
two rows. The rule and the policies are read, extended and put back whole. Beside
it run the dataset calls that admit a role to an access point and, with a key, to
the key: the key policy has two kinds of writers.

| variable | in the code |
|---|---|
| `busPermission`, `rule`, `targeted` | the default bus's permissions, the accounts in the pattern of `RouteHostEvents`, its target |
| `bucketPolicy`, `keyPolicy`, `apPolicy` | policy documents as sets of statements |
| `rows`, `index` | `ACC#` and `AWSACC#` rows |
| `call`, `grant` | progress of each call, with the document it has read (`seen`) |
| `torn` | the documents a put has overwritten without having read them; "creation" when a validation ran between another one's validation and its second row |

*Granularity.* A put and the read that follows it in the same call are one step;
they concern different documents. Two calls may read the same document before either
puts it. `PolicyDocuments` keeps what `IamHelper` tells apart: the subset comparison
whose `isEqual` ignores what the target has more, the two kinds of insertion (a
statement of its own, or principals merged into one that covers it), and how
principals are compared. `_comparePrincipals` (`iamHelper.ts:248`) goes through the
`"AWS"` entry of a parsed statement as through a list, and for one principal the entry
is a string. Two single ARNs are therefore compared by their characters
(`Resembles`, over the constant `Chars`), two lists by their members, and a single ARN
and a list have nothing in common. What the comparison finds contained is not
inserted, and nobody is missing from a statement that contains the principal, so
the merge adds nobody although the document counts as updated (`MissingPrincipals`).

*What the properties say.* No document is locked, so what overlapping calls overwrite
is lost: that is the code, no doc promises otherwise, and `torn` records it. A property
that excepts torn documents says nothing of such a loss; what it does say is that
nothing *else* loses an access, in any order of calls and failures. Of this kind are:
* `StoredIsAdmitted`: a stored account is in every document;
* `GrantedOrTakenFor`: an admitted role's own policy (`generateIamPolicy`) and the
  resource's both allow it to list, read and decrypt, or else they allow it to a role,
  or account, whose ARN the comparison takes for its own;
* `OneRowPerAccount`: one row per AWS account, unless two creations overlapped or one
  died between its two rows.

Three need no such exception and hold under any overlap: reading and
listing come together (`WholeGrants`), because both insertions of a call decide alike
whatever the comparison answers; the main account keeps its own key (`MainKeepsKey`),
since every put extends a version of the policy that has it; and an account that a call
reports as stored, or refuses as known already, has both of its rows, whichever calls
overlap with it or died half way (`AnswersAreTrue`).

`GrantedIsAdmitted`, that a granted role is admitted, is what the comments say
(`iamHelper.ts:187`, `dataSetService.ts:235`) and is false, with no overlap and no
failure: the run `grants` admits one role and then another one whose ARN is made of
characters of the first, which is left out although the call succeeds. On the key,
account 123456789012 is taken for contained once 111122223333 has its statement.

*Run* `accounts`: two onboarding calls for any of two accounts, two roles in the two
accounts, with and without a key, one call that fails. Two calls are what an
overlap takes, and a second onboarding of one account comes with them. The
characters (`CharsOfTwo`) let one account's ARN be taken for the other's in one
direction, and keep the two roles apart, so that statements with two principals
occur too. *Run* `grants`: one onboarding and three roles, two of which resemble each
other (`SomeChars`). That run stops at its counterexample; for roles that resemble
each other `GrantedOrTakenFor` and `WholeGrants` rest on the proofs, which are about
any `Chars`.
No fairness: these are safety properties.
*Deadlock* is not checked: when all calls have ended the system stops.

*Proofs* (`HostingAccountsProofs`): `StoredIsAdmitted`, `MainKeepsKey`,
`GrantedOrTakenFor`, `WholeGrants`, `OneRowPerAccount` and `AnswersAreTrue`, for any accounts, roles,
characters and callers and any number of failures, from `HostingAssumption` alone (every
role is of a hosting account, which the main account is not); and that
`GrantedIsAdmitted` holds when no ARN is made of characters of another one
(`GrantedIfDistinguishable`), so that the comparison is the only reason for its
failure. The documents come first. An access point's policy admits one set of roles
to both statements and a key has both statements of an account or neither
(`AccessPointDocument`, `KeyDocument`); on such documents it is known exactly what
the two insertions of a grant do (`AdmittedExactly`: the role joins the others, or
nothing changes because it is taken for one of them) and what the two additions to the
key do (`UseKey`); onboarding takes no access away and gives the one it is asked for
(`AddToKey`, `OpenBucket`). The
invariant `IInv`, which the run checks too, says so of the documents that are there
*and* of the ones that calls hold (`DocumentsOK`): that is why a put of an old
document cannot take the key from the main account, or half of its access from a
role. `CallsKnow` says what a call has
behind it, so that storing its account is right; `GrantsKnow` that a document that was
read is no further than the one that is there while nothing is torn; `StoreAlone` that
a call about to store is the only one for its account; `RowsKnow` that the second row of
an account is made from its first. A step then either marks the
document it overwrites as torn, which excuses it, or leaves all its accesses (`Grown`).

*Not kept*: `createOrUpdate` with an id is unreachable, since the request schema
admits none; the error text of a second onboarding ("provide the correct id
value", `accountService.ts:131`) cannot be followed.

## PostDeployment and AccountHandler

`PostDeployment` is the script that a person runs after a deployment:
`ServiceCatalogSetup.run` (portfolio, templates to S3, for each changed type a new
version or a product with its association and launch constraint), then the
onboarding template and the bootstrap files. It may stop between any two calls
(`Interrupted`), is run again with any content of the templates, and two people
may run it at once.

| variable | in the code |
|---|---|
| `portfolios` | how many portfolios of the name exist; the first is found |
| `templates`, `onboarding`, `bootFiles` | objects of the artifacts bucket |
| `products` | products in order of creation: type, portfolio, versions, constraint |
| `script` | each person's run: what it compared, its portfolio, the types left to do |
| `handler` | an execution of the handler: where it stands, the accounts still to come (places in the list that was fetched; the least is in hand), what it compared |
| `launchRole`, `hosting`, `onboarded`, `status` | the role in the main account, what each hosting account has (stack, role, policies, shares), the rows and their status |

`EtagIsMd5` is FALSE in the run: the artifacts bucket is encrypted with a KMS key
(`SWBStack.ts:443`), whose ETags are no MD5 of the object. The comparison of
`_getEnvTypeToUpdate` therefore always finds a difference, and every run of the
script uploads every template and adds a version, although the comment at
`serviceCatalogSetup.ts:72` says "if current template is different". It also hashes
the first file for every type (line 201). This is why a crash after the upload is
repaired by the next run; with MD5 ETags it would not be.

`AccountHandler` extends it with the execution that EventBridge starts every five
minutes: for each stored account it assumes the account's role (the only failure
the loop catches), shares documents, images and the portfolio, clones the launch
constraint role, compares the account's stack with the onboarding template and
writes `CURRENT` or `NEEDS_UPDATE`. Around it change the role (a deployment), the
account's stack (its administrator) and the template (the script).

*What the run shows* (`deployments`). A run that completed has left every type
published and constrained and the bootstrap files in place, whatever earlier runs left
half done (`PublishedAndConstrained`); versions of a product have distinct names
although two people number them from what they read (`VersionsDistinct`); once
everybody is done the newest version is the template in S3, unless two first
runs duplicated portfolio or product (`NewestIsPublished`); the clone is exact
unless the role changed under it (`CloneIsExact`). The status
converges to what the stack deserves (`StatusFollowsStack`), for as long as cloning
can succeed.
It cannot in three cases, which the property excepts by `Settled`, because they
end the execution and starve all later accounts on every run: a trust policy that
changed (it is put URL-encoded, `iamRoleCloneService.ts:111`), a customer-managed
policy (compared by ARN, so its copy is created again), or a missing portfolio.
`ERRORED` is never written: CloudFormation has no state `FAILED`.

*Bounds*: one environment type (types are done one after the other by the same
steps), two contents; roles as deployed, changed, and with a customer-managed
policy. `Parties` says who takes part, how many runs of the script there are and how
many executions fail: three runs of two people; two runs beside one account's
handler; one beside that of two accounts, with one failing execution (a handler
that throws at a policy leaves the same half-done clones in the other two). *Fairness*: the scheduler starts an
execution and Lambda runs it; CloudFormation ends an update. Nobody has to deploy.
The handler's IAM permissions are taken to be sufficient.

*Proofs* (`AccountHandlerProofs`): all properties but the liveness one, for any
deployers, types, contents, accounts, roles, custom policies and numbers of runs and
failures, from `DeploymentAssumption` (finitely many deployers; the first file is one of
a type) and `AccountAssumption` (accounts in a list, roles that have their three parts).
`PublishedAndConstrained` and `NewestIsPublished` are proved for a bucket whose ETag is
no MD5, and with MD5 ETags they are false. None of the properties is inductive. What
makes `IInv` so, which `deployments` checks:
* `Prepared`: what a script holds where it stands. Its product is of its type and in
  its portfolio, except between creation and association; and then it is the only
  script that has that product (`AssociatedOnce`), or another one's association could
  take it out of a portfolio that a finished script relies on.
* `DoneIsPublished`: a type that is no longer on a script's list is published, at any
  place of the script, not only at its end.
* `Carried`: each type has a script that has seen to the template that is in S3, or
  must still do so before it is done. An upload that replaces the template makes the
  uploading script that one; a version whose number another script took first is the
  other one's to carry. When all are done, only "has seen to it" is left.
* `WithinRuns`: numbers of versions plus the scripts that may still make one plus
  the runs left never exceed the runs, which bounds the numbers.
* `CloneGoesOn`: after each call of the clone the part it concerns is equal, as long
  as the source role has not changed; the account in hand stays the same until then.

A lemma per action says what it does to the script and the products (`…Effect`),
one per part of the invariant that all actions keep it (`…Kept`), separately for the
script that moved and for the others. The lists of accounts and versions are ordered by
what `FiniteOrders` proves: nonempty finite sets of numbers have a least and a largest.

## UserPool, Authorization and UserAccess

`UserPool` is Cognito's pool with its two writers: `CognitoSetup`, which stops
anywhere and is run again, and the operations of `UserManagementService`, called by
other programs or on a console (`DirectStep`, which never makes anyone an
administrator). `Authorization` holds the two tables of the application, route to
operations and role to permissions, in full, and the evaluation of a request by
the two middlewares. `UserAccess` adds people: tabs that share a browser's storage
and cookies, sign-in attempts (one number stands for state, verifier and code),
refresh tokens (`sessions`), access tokens, and the routes of the pool.

An access token is verified offline, with the groups it was issued with, until it
expires: old tokens act on a pool that has changed since. The login page sends no
cookies with its requests, so its logout revokes nothing; clients of the API that
keep cookies are another case of the run (`Cases`).

*What the run shows* (`identity`). Nobody but the root user gets into Admin, by any
sequence of requests with old or new tokens, half-done set-ups and removals
(`AdminsAreAppointed`); of two tabs that overwrite each other's state and verifier,
none sends a code with the other's (`ExchangePaired`); a client whose session was
revoked is not told any more that it is logged in, although a refresh under way sets
its cookie again (`LoggedOutStaysOut`); the set-up ends from wherever it stopped
(`SetupEnds`).

*Proofs* (`UserAccessProofs`): the first three, for any users, groups, tabs, tokens and
bounds, from `UserPoolAssumption` and `CasesAssumption` (a tab is a user's).
`AdminsAreAppointed` rests on `OnlyResearcherByRoute`: in the whole table of routes,
putting a user into a group is secured for the group Researcher only, and a request
that is not secured is refused with any token; the form names Researcher, and the
script the root user. `IInv`, which the run checks, adds for the other two that state
and verifier are stored and removed together (`StoredTogether`), and what a tab found
out (`Consistent`): sessions it saw revoked stay revoked, and a token under way was
made for a session that it had not seen revoked.

*Bounds*: two people or two tabs, two attempts, three tokens, one failure of Cognito
or of the script, one operation of another program. *Fairness*: whoever deploys runs
the script until it ends. *Met on the way and true of the code*: `POST /roles`
is refused to everybody, since no role may create a Role; `POST
/datasets/:id/share` too, since the map names `/datasets/share`; the form for a new
user adds the role and reports success even when creating the user failed; a
logout that was answered 503 goes on to clear the cookies and to answer again.

## Table, Catalog, DataSets and the pages

`Table` is a DynamoDB table as the request builders use it: a query by partition key,
with an index or without, with one condition on its sort key, in either order, by
pages with a start key; a get; an update that creates the row if there is none,
assigns the defined attributes and sets `createdAt` only if the row has none.
Rows of equal sort key come in an order of their own, and the start key names
the row. A page is a set of rows with the key of its last one: in which order a page
shows its rows is left out, and which rows are on it is not (`After` counts the ones
before a row).

`Catalog` is the services on it: types, configurations (which copy the product of
their type), environments as lists show them, and a client that reads any list to
its end (`lister`). `writer` is one request between its read and its write.
`DataSets` adds provisioning and importing. `EnvironmentsPage` is the page of the
browser: what it asks for, answers that arrive in any order or never, saved tokens,
the ids and statuses that an answer shows, the selected row as it was shown, marks of the buttons, calls under way.
`NewEnvironmentForm` is the form, with lists that were fetched at some time.

*Assumptions about libraries*: useSWR keeps the last answer to each URL, shows it at
once and asks again; React runs the effects of a rendering before it handles the
next discrete event, so an event and the effects after it are one step.

*What the run shows* (`catalog`).
* `ListedOnce`: reading a list to its end shows every row that was there, once, while
  rows are created and updated in the same millisecond, because updates leave the
  indexed attributes alone; they *do* send a new `createdAt`, which only the Updater
  drops (the mutant). Lists by status are excepted.
* `OwnEnvironmentsOnly`: a Researcher sees environments of their own whatever filter
  and sort the request has.
* `ConfigOfParent`: a configuration has its type's product, or none if reading the
  type failed with anything but "not found" (`environmentTypeConfigService.ts:121`
  swallows it).
* `OneDataSetPerName`: names are unique unless two calls of one name overlapped
  between look-up and store; nothing in the table prevents that.
* `TokensOfView`: the page never uses a token of another sort, filter or size.
* `SpinnerMeansRequest`: no button stays marked without a call.
* `ConfigOfType`: what the form can submit is a configuration of the chosen type.

*Bounds*: three rows, pages of one, two and the default number of rows, two
milliseconds, one failing read; `focus` picks the list, page or form a
behaviour is about, since they share only the table; the page itself has the sizes one
and two (`View`, also in the proofs); one change of view, one reload,
three pages, two calls of buttons, two rows while buttons are used, two environments
whose status changes. A
list of three rows in pages of one or two has a full page, a last page and an empty
one. No fairness: these are safety properties. *Deadlock* is not checked: a
behaviour ends with the list it reads.

*Proofs* (`CatalogProofs`): all seven properties, for any rows, labels, products,
persons, page sizes, clocks, numbers of requests and reloads, from the assumptions on
the constants: identifiers, labels and persons are numbers, since the indexes sort by
them, and "undefined" is none of the values. `ListsShowAllOnce` and `SpinnersMean` are
about any number of steps between two pages or two answers; none of the seven is
inductive. What makes `IInv` so, which `catalog` checks:
* `ListGoesOn`: while a list is read, every row that was shown is still found and does not
  follow the token, and every row that was there and was not shown is still found and does.
  This needs that a page is an initial part of what is left (`PageIsAPrefix`, from the
  order of the positions in an index and `FiniteOrders`), that a row keeps its position,
  and that the condition of the query is about an attribute that no update assigns.
* `WriterKnows`: between its read and its write, a request still finds the row, or the
  product, that it read; so an update never creates a row that lacks the attributes of
  its kind (`CatalogTypeOK` has them for every row).
* `TokensCarryViews`: not only the saved tokens but those of every kept answer, and
  the one that the last rendering had, belong to the view they are kept under: an effect
  that runs late saves the token of what is shown.
* `FormKnows`: configurations that the form has fetched are there and of the type they were
  fetched for, however old the lists are.
* `NamesHeld`: a call that found its name free is the only one that may have a row of it,
  unless the name was looked up twice at once.

The clients share the table, and what they need to know of each other's steps is one
fact, `Evolves`: rows stay, with their identifier, kind, type, product, name, owner and
time of creation; only labels and statuses change. It is proved once for each operation of
the table, and every client's part of the invariant is shown to survive any step
that `Evolves` and leaves that client alone.

*Met on the way and true of the code*: confirming the page size it already has on page
one makes the page forget the next token and, as the token does not change, never
save it again; clicking a number whose token was forgotten shows another
page's rows under that number; a failed connect leaves its button marked for good;
the end of a start re-enables terminate while a terminate is under way; the page
offers connect for `AVAILABLE` and `STARTED` too, which the route refuses; an
administrator's list without filter reads the oldest rows first and sorts only
within the page, although `environmentService.ts:268` says "Newest environment appear
first"; provisioning puts an object into the bucket before the name is checked, and a
refused name leaves it there.

## Checked only by TLC

The liveness properties (`FailedLaunchIsReported`, `LaunchIsRecorded`,
`StatusFollowsStack`, `SetupEnds`): proofs of liveness under
fairness are beyond the installed provers. All other properties of passing runs are
proved. The five violated properties are counterexamples by nature.

## Not modelled

Audit (only the example application mounts it) and logging; projects, which the
code only reads; scans, batches, transactions, deletes, revisions and list
operations of the DynamoDB helpers, which the modelled operations do not use, except
for the transaction of `createEnvironment`, one step of its model; `updateUser` and
the listing of users; the connection service, which keeps no state; pages of the
browser that only show what they fetched; object operations of datasets, which throw
"not implemented"; the content of parameters, messages and logs; the CDK
stacks but for the time limits, schedules, roles, keys and indexes that the
models take from them; examples and repository tools.
