------------------------- MODULE EnvironmentLifecycle -------------------------
(***************************************************************************)
(* One research environment: its DynamoDB row, the API requests that act   *)
(* on it (environmentRoutes.ts and the SageMaker lifecycle service), the   *)
(* two SSM automation documents, the notebook itself, the event bus and    *)
(* the status handler that folds events back into the row.                 *)
(*                                                                         *)
(* Environments share only the datasets they mount (DataSetEndpoints), so  *)
(* one environment is enough.  Every await of the code is a point where    *)
(* other actors run: each action below is the code between two awaits that *)
(* touch shared state.  A request reads the row twice (in the route and    *)
(* again in the lifecycle service) and then calls AWS; the second read     *)
(* only uses the instance and product ids, which once written never        *)
(* change, so it is merged with the call that uses it.                     *)
(***************************************************************************)
EXTENDS Integers, FiniteSets

CONSTANTS
    Req,          \* API requests on the environment (each is made once)
    Handler,      \* concurrent executions of the status handler
    Dataset,      \* the datasets the environment mounts
    MaxTime,      \* bound: the clock stops there
    MaxTries,     \* attempts the event source makes with one event
    MaxFaults,    \* bound: handler executions that crash or time out
    MaxCopies,    \* bound: events delivered more than once
    MaxBus,       \* bound: events on the bus when a new one is emitted
    Resolution    \* an event's time is truncated to a multiple of this

ASSUME BoundsAssumption ==
    /\ MaxTime \in Nat /\ MaxTries \in Nat \ {0}
    /\ MaxFaults \in Nat /\ MaxCopies \in Nat /\ MaxBus \in Nat /\ Resolution \in Nat \ {0}

VARIABLES
    row,          \* the ENV# row: status, ids recorded, listed, updatedAt
    launch,       \* the POST /environments request that created the row
    req,          \* the other API requests
    handler,      \* the status handler executions
    bus,          \* events emitted and not yet consumed
    notebook,     \* the SageMaker notebook instance
    launchDoc,    \* the Launch automation
    terminateDoc, \* the Terminate automation
    mounted,      \* datasets whose access point is created and linked to the row
    roleLinked,   \* datasets whose access point admits the instance role
    unmounted,    \* datasets whose access point was deleted
    links,        \* which of the two ENV#/INID# metadata rows exist
    clock, faults, copies

rowVars  == <<row, links>>
awsVars  == <<notebook, launchDoc, terminateDoc>>
apVars   == <<mounted, roleLinked, unmounted>>
bounds   == <<clock, faults, copies>>
vars == <<row, launch, req, handler, bus, notebook, launchDoc, terminateDoc,
          mounted, roleLinked, unmounted, links, clock, faults, copies>>

(***************************************************************************)
(* Statuses, events                                                        *)
(***************************************************************************)
Status == {"PENDING", "COMPLETED", "STARTING", "STOPPING", "STOPPED",
           "TERMINATING", "TERMINATED", "FAILED", "TERMINATING_FAILED",
           "STARTING_FAILED", "STOPPING_FAILED"}

\* What the two documents and SageMaker put on the bus, as statusHandlerLambda
\* normalises it ("State": the event has no Operation).
EventsOf(op, statuses) ==
    [op : {op}, status : statuses, time : 0..MaxTime, tries : 0..(MaxTries - 1)]

Event ==
    EventsOf("Launch", {"COMPLETED", "FAILED"})
    \cup EventsOf("Terminate", {"TERMINATED", "TERMINATING_FAILED"})
    \cup EventsOf("State", {"PENDING", "COMPLETED", "STOPPING", "STOPPED",
                           "FAILED", "TERMINATING", "TERMINATED"})

Emitted(op, status) ==
    [op |-> op, status |-> status,
     time |-> clock - (clock % Resolution), tries |-> 0]

Emit(op, status) ==
    /\ Cardinality(bus) < MaxBus
    /\ bus' = bus \cup {Emitted(op, status)}

NoEvent == [op |-> "none", status |-> "none", time |-> 0, tries |-> 0]

\* sagemaker NotebookInstanceStatus -> environment status
Normalised == [Pending |-> "PENDING", InService |-> "COMPLETED",
               Stopping |-> "STOPPING", Stopped |-> "STOPPED",
               Failed |-> "FAILED", Deleting |-> "TERMINATING",
               Deleted |-> "TERMINATED"]

\* Mutant of RowWith: the row is replaced, not updated.
RowReplaced(status) ==
    [status |-> status, launched |-> FALSE, listed |-> TRUE, updatedAt |-> clock]

\* updateEnvironment with a new status: an upsert of the row that stamps updatedAt
RowWith(status) ==
    [status |-> status, launched |-> row.launched, listed |-> row.listed,
     updatedAt |-> clock]

(***************************************************************************)
(* POST /environments: createEnvironment, then lifecycle.launch            *)
(***************************************************************************)
\* createEnvironment puts the row and its metadata in one transaction.
CreateEnvironment ==
    /\ launch = "idle"
    /\ row' = [row EXCEPT !.status = "PENDING", !.listed = TRUE, !.updatedAt = clock]
    /\ launch' = "mounting"
    /\ UNCHANGED <<req, handler, bus, awsVars, apVars, links, bounds>>

\* getDatasetsToMount runs one promise per dataset; Promise.all rejects on the
\* first failure and does not stop the others, which go on after it.
AddDataSetEndpoint(d) ==
    /\ launch \in {"mounting", "failing", "failed"}
    /\ d \notin mounted
    /\ mounted' = mounted \cup {d}
    /\ UNCHANGED <<rowVars, launch, req, handler, bus, awsVars, roleLinked, unmounted, bounds>>

LaunchStepFails ==
    /\ launch = "mounting"
    /\ launch' = "failing"
    /\ UNCHANGED <<rowVars, req, handler, bus, awsVars, apVars, bounds>>

\* Mutant of ExecuteLaunchDocument: the promises of getDatasetsToMount are not awaited.
ExecuteLaunchDocumentUnawaited(next) ==
    /\ launch = "mounting"
    /\ launchDoc' = "running"
    /\ launch' = next
    /\ UNCHANGED <<rowVars, req, handler, bus, notebook, terminateDoc, apVars, bounds>>

\* helper.launch -> executeSSMDocument, once every dataset is mounted; its
\* answer can be lost, and then the route takes the catch branch although the
\* document runs.
ExecuteLaunchDocument(next) ==
    /\ launch = "mounting"
    /\ mounted = Dataset
    /\ launchDoc' = "running"
    /\ launch' = next
    /\ UNCHANGED <<rowVars, req, handler, bus, notebook, terminateDoc, apVars, bounds>>

LaunchAnswered  == ExecuteLaunchDocument("done")
LaunchReplyLost == ExecuteLaunchDocument("failing")

\* the route's catch branch
RecordLaunchFailure ==
    /\ launch = "failing"
    /\ row' = RowWith("FAILED")
    /\ launch' = "failed"
    /\ UNCHANGED <<req, handler, bus, awsVars, apVars, links, bounds>>

\* the API lambda is stopped at its 29 second limit
LauncherDies ==
    /\ launch \in {"mounting", "failing"}
    /\ launch' = "dead"
    /\ UNCHANGED <<rowVars, req, handler, bus, awsVars, apVars, bounds>>

(***************************************************************************)
(* The hosting account: Launch document, notebook, Terminate document      *)
(***************************************************************************)
NotebookMoves(from, to) ==
    /\ notebook \in from
    /\ notebook' = to
    /\ Emit("State", Normalised[to])
    /\ UNCHANGED <<rowVars, launch, req, handler, launchDoc, terminateDoc, apVars, bounds>>

ProvisionNotebook ==
    /\ launchDoc \in {"running", "aborted"}
    /\ NotebookMoves({"none"}, "Pending")

NotebookInService == NotebookMoves({"Pending"}, "InService")
NotebookFails     == NotebookMoves({"Pending"}, "Failed")
AutoStop          == NotebookMoves({"InService"}, "Stopping")
NotebookStopped   == NotebookMoves({"Stopping"}, "Stopped")

\* the stack is deleted by the Terminate document, or rolled back
DeleteNotebook ==
    /\ terminateDoc \in {"running", "aborted"} \/ launchDoc = "failed"
    /\ NotebookMoves({"Stopped", "Failed"}, "Deleting")

NotebookDeleted == NotebookMoves({"Deleting"}, "Deleted")

LaunchDocEnds(outcome) ==
    /\ launchDoc = "running"
    /\ launchDoc' = outcome
    /\ UNCHANGED <<rowVars, launch, req, handler, notebook, terminateDoc, apVars, bounds>>

\* PushMetadataToEventBridge
ProvisioningSucceeds ==
    /\ notebook \in {"InService", "Stopping", "Stopped"}
    /\ LaunchDocEnds("succeeded")
    /\ Emit("Launch", "COMPLETED")

\* PushFailureStatusToEventBridge
ProvisioningFails ==
    /\ LaunchDocEnds("failed")
    /\ Emit("Launch", "FAILED")

\* a step fails or WaitForProvisioning times out: the document ends, and
\* nothing is pushed
LaunchDocAborts ==
    /\ LaunchDocEnds("aborted")
    /\ UNCHANGED bus

TerminateDocEnds(outcome) ==
    /\ terminateDoc = "running"
    /\ terminateDoc' = outcome
    /\ UNCHANGED <<rowVars, launch, req, handler, notebook, launchDoc, apVars, bounds>>

\* Mutant of TerminationSucceeds: the document has no WaitForTerminating step.
TerminationNotAwaited ==
    /\ TerminateDocEnds("succeeded")
    /\ Emit("Terminate", "TERMINATED")

TerminationSucceeds ==
    /\ notebook = "Deleted"
    /\ TerminateDocEnds("succeeded")
    /\ Emit("Terminate", "TERMINATED")

TerminationFails ==
    /\ TerminateDocEnds("failed")
    /\ Emit("Terminate", "TERMINATING_FAILED")

TerminateDocAborts ==
    /\ TerminateDocEnds("aborted")
    /\ UNCHANGED bus

(***************************************************************************)
(* PUT /environments/:id/{terminate,start,stop}                            *)
(***************************************************************************)
Op == {"terminate", "start", "stop"}

NewRequest == [op |-> "none", pc |-> "new", reply |-> "none", removed |-> {}]

\* Mutant of RouteAnswer: a pending environment is answered as if it were ending.
RouteAnswerPendingEnds(op, status) ==
    CASE op = "terminate" /\ status \in {"PENDING", "TERMINATING", "TERMINATED"} -> "204"
      [] op = "terminate" /\ status = "TERMINATING_FAILED" -> "409"
      [] OTHER -> "call"

\* What the route does with the status it read: an answer, or the call of the
\* lifecycle service.
RouteAnswer(op, status) ==
    CASE op = "terminate" /\ status \in {"TERMINATING", "TERMINATED"} -> "204"
      [] op = "terminate" /\ status = "TERMINATING_FAILED" -> "409"
      [] op = "start" /\ status = "STOPPING" -> "409"
      [] op = "start" /\ status \in {"STARTING", "PENDING", "COMPLETED"} -> "204"
      [] op = "stop" /\ status \in {"PENDING", "STARTING"} -> "409"
      [] op = "stop" /\ status \in {"STOPPING", "STOPPED"} -> "204"
      [] OTHER -> "call"

Route(r, op) ==
    /\ req[r].pc = "new"
    /\ row.status # "NO_ROW"
    /\ req' = [req EXCEPT ![r] =
         IF RouteAnswer(op, row.status) = "call"
         THEN [op |-> op, pc |-> "calling", reply |-> "none", removed |-> {}]
         ELSE [op |-> op, pc |-> "replied", reply |-> RouteAnswer(op, row.status),
               removed |-> {}]]
    /\ UNCHANGED <<rowVars, launch, handler, bus, awsVars, apVars, bounds>>

\* Mutant of TerminateCall: the access points are deleted before the document starts.
TerminateCallAfterCleanup(r) ==
    /\ req[r].op = "terminate" /\ req[r].pc = "calling"
    /\ row.launched
    /\ req' = [req EXCEPT ![r].pc = "cleaning"]
    /\ UNCHANGED <<rowVars, launch, handler, bus, awsVars, apVars, bounds>>

\* lifecycle.terminate up to startAutomationExecution.  The document refuses an
\* empty ProvisionedProductId, so the call fails until the ids are recorded.  A
\* second document on a product that is being (or is) terminated ends at once
\* with nothing pushed, and is left out.
TerminateCall(r) ==
    /\ req[r].op = "terminate" /\ req[r].pc = "calling"
    /\ row.launched
    /\ terminateDoc' = IF terminateDoc \in {"running", "succeeded"}
                       THEN terminateDoc ELSE "running"
    /\ req' = [req EXCEPT ![r].pc = "cleaning"]
    /\ UNCHANGED <<rowVars, launch, handler, bus, notebook, launchDoc, apVars, bounds>>

\* removeAccessPoints: one promise per endpoint; those of a request that failed
\* go on.  Deleting an access point that is gone already fails.
RemoveAccessPoint(r, d) ==
    /\ req[r].pc \in {"cleaning", "abandoned"}
    /\ d \in mounted \ unmounted
    /\ unmounted' = unmounted \cup {d}
    /\ req' = IF req[r].pc = "cleaning"
              THEN [req EXCEPT ![r].removed = @ \cup {d}] ELSE req
    /\ UNCHANGED <<rowVars, launch, handler, bus, awsVars, mounted, roleLinked, bounds>>

\* An endpoint that its dataset does not list is passed over.  Which endpoints a
\* dataset lists depends on the other environments that mount it, whose calls
\* overwrite the list (see DataSetEndpoints), so any may be missing.
SkipUnlistedEndpoint(r, d) ==
    /\ req[r].pc = "cleaning"
    /\ d \in mounted \ req[r].removed
    /\ req' = [req EXCEPT ![r].removed = @ \cup {d}]
    /\ UNCHANGED <<rowVars, launch, handler, bus, awsVars, apVars, bounds>>

CleanupDone(r) ==
    /\ req[r].pc = "cleaning"
    /\ req[r].removed = mounted
    /\ req' = [req EXCEPT ![r] = [@ EXCEPT !.pc = "writing", !.removed = {}]]
    /\ UNCHANGED <<rowVars, launch, handler, bus, awsVars, apVars, bounds>>

\* startNotebookInstance and stopNotebookInstance need the notebook in the
\* state SageMaker demands; anything else throws (RequestFails).
NotebookCall(r, op, from, to) ==
    /\ req[r].op = op /\ req[r].pc = "calling"
    /\ row.launched
    /\ notebook = from
    /\ notebook' = to
    /\ Emit("State", Normalised[to])
    /\ req' = [req EXCEPT ![r].pc = "writing"]
    /\ UNCHANGED <<rowVars, launch, handler, launchDoc, terminateDoc, apVars, bounds>>

StartCall(r) == NotebookCall(r, "start", "Stopped", "Pending")
StopCall(r)  == NotebookCall(r, "stop", "InService", "Stopping")

InProgress == [terminate |-> "TERMINATING", start |-> "STARTING", stop |-> "STOPPING"]

\* the updateEnvironment at the end of terminate, start and stop
WriteBack(r) ==
    /\ req[r].pc = "writing"
    /\ row' = RowWith(InProgress[req[r].op])
    /\ req' = [req EXCEPT ![r] = [@ EXCEPT !.pc = "replied", !.reply = "204"]]
    /\ UNCHANGED <<launch, handler, bus, awsVars, apVars, links, bounds>>

\* an await rejects, or the API lambda is stopped at its limit
RequestFails(r) ==
    /\ req[r].pc \in {"calling", "cleaning", "writing"}
    /\ req' = [req EXCEPT ![r] =
         [@ EXCEPT !.reply = "5xx", !.removed = {},
                   !.pc = IF req[r].pc = "cleaning" THEN "abandoned" ELSE "replied"]]
    /\ UNCHANGED <<rowVars, launch, handler, bus, awsVars, apVars, bounds>>

(***************************************************************************)
(* StatusHandler.execute                                                   *)
(***************************************************************************)
\* Mutants of Outdated: the instanceId test is dropped; Launch gets no exception.
OutdatedWithoutInstanceTest(e) ==
    /\ e.op # "Launch"
    /\ row.updatedAt > e.time \/ row.status = e.status

OutdatedAnyOperation(e) ==
    row.updatedAt > e.time \/ row.status = e.status \/ ~row.launched

Outdated(e) ==
    /\ e.op # "Launch"
    /\ row.updatedAt > e.time \/ row.status = e.status \/ ~row.launched

\* the row after the handler's first updateEnvironment
RowAfter(e) ==
    IF e.status = "TERMINATED"
    THEN [RowWith(e.status) EXCEPT !.listed = FALSE]
    ELSE RowWith(e.status)

\* The event source may keep a copy of what it delivers.  The handler reads the
\* row and either skips the event or goes on to write, in a later step.
Deliver(h, e, kept) ==
    /\ handler[h].pc = "idle"
    /\ e \in bus
    /\ kept => copies < MaxCopies
    /\ copies' = IF kept THEN copies + 1 ELSE copies
    /\ bus' = IF kept THEN bus ELSE bus \ {e}
    /\ IF Outdated(e)
       THEN handler' = handler
       ELSE handler' = [handler EXCEPT ![h] = [pc |-> "applying", ev |-> e]]
    /\ UNCHANGED <<rowVars, launch, req, awsVars, apVars, clock, faults>>

Idle == [pc |-> "idle", ev |-> NoEvent]

ApplyStatus(h) ==
    /\ handler[h].pc = "applying"
    /\ row' = RowAfter(handler[h].ev)
    /\ handler' = [handler EXCEPT ![h] =
         IF handler[h].ev.op = "Launch" THEN [@ EXCEPT !.pc = "linking"] ELSE Idle]
    /\ UNCHANGED <<launch, req, bus, awsVars, apVars, links, bounds>>

\* addRoleToAccessPoint: one promise per endpoint of the environment, which ends at
\* once where the role is recorded already.  A failed provisioning has no record
\* outputs, so the handler throws before it.
LinkRole(h, d) ==
    /\ handler[h].pc = "linking" /\ handler[h].ev.status = "COMPLETED"
    /\ d \in mounted \ (roleLinked \cup unmounted)
    /\ roleLinked' = roleLinked \cup {d}
    /\ UNCHANGED <<rowVars, launch, req, handler, bus, awsVars, mounted, unmounted, bounds>>

\* Mutant of RecordInstance: addRoleToAccessPoint is not awaited.
RecordInstanceUnawaited(h) ==
    /\ handler[h].pc = "linking" /\ handler[h].ev.status = "COMPLETED"
    /\ row' = [row EXCEPT !.launched = TRUE, !.updatedAt = clock]
    /\ handler' = [handler EXCEPT ![h].pc = "envToInstance"]
    /\ UNCHANGED <<launch, req, bus, awsVars, apVars, links, bounds>>

\* the updateEnvironment that records both ids, after every role is linked
RecordInstance(h) ==
    /\ handler[h].pc = "linking" /\ handler[h].ev.status = "COMPLETED"
    /\ mounted \subseteq roleLinked
    /\ row' = [row EXCEPT !.launched = TRUE, !.updatedAt = clock]
    /\ handler' = [handler EXCEPT ![h].pc = "envToInstance"]
    /\ UNCHANGED <<launch, req, bus, awsVars, apVars, links, bounds>>

\* the two addMetadata calls
LinkInstance(h) ==
    /\ handler[h].pc = "envToInstance"
    /\ links' = links \cup {"ENV->INID"}
    /\ handler' = [handler EXCEPT ![h].pc = "instanceToEnv"]
    /\ UNCHANGED <<row, launch, req, bus, awsVars, apVars, bounds>>

LinkEnvironment(h) ==
    /\ handler[h].pc = "instanceToEnv"
    /\ links' = links \cup {"INID->ENV"}
    /\ handler' = [handler EXCEPT ![h] = Idle]
    /\ UNCHANGED <<row, launch, req, bus, awsVars, apVars, bounds>>

\* Mutant of GiveBack: the error is swallowed, so there is no other try.
GiveBackNever(h) ==
    /\ bus' = bus
    /\ handler' = [handler EXCEPT ![h] = Idle]

\* Lambda makes MaxTries attempts with an event and then drops it.
GiveBack(h) ==
    /\ bus' = IF handler[h].ev.tries + 1 < MaxTries
              THEN bus \cup {[handler[h].ev EXCEPT !.tries = @ + 1]}
              ELSE bus
    /\ handler' = [handler EXCEPT ![h] = Idle]

HandlerFails(h) ==
    /\ handler[h].pc # "idle"
    /\ faults < MaxFaults
    /\ faults' = faults + 1
    /\ GiveBack(h)
    /\ UNCHANGED <<rowVars, launch, req, awsVars, apVars, clock, copies>>

\* the handler throws on its own: no outputs in the record of a failed
\* provisioning, or an access point deleted before it admitted the role
HandlerThrows(h) ==
    /\ handler[h].pc = "linking"
    /\ handler[h].ev.status = "FAILED" \/ (mounted \cap unmounted) \ roleLinked # {}
    /\ GiveBack(h)
    /\ UNCHANGED <<rowVars, launch, req, awsVars, apVars, bounds>>

Tick ==
    /\ clock < MaxTime
    /\ clock' = clock + 1
    /\ UNCHANGED <<rowVars, launch, req, handler, bus, awsVars, apVars, faults, copies>>

(***************************************************************************)
(* The specification                                                       *)
(***************************************************************************)
Init ==
    /\ row = [status |-> "NO_ROW", launched |-> FALSE, listed |-> FALSE, updatedAt |-> 0]
    /\ launch = "idle"
    /\ req = [r \in Req |-> NewRequest]
    /\ handler = [h \in Handler |-> Idle]
    /\ bus = {}
    /\ notebook = "none" /\ launchDoc = "none" /\ terminateDoc = "none"
    /\ mounted = {} /\ roleLinked = {} /\ unmounted = {}
    /\ links = {}
    /\ clock = 0 /\ faults = 0 /\ copies = 0

Launcher ==
    \/ CreateEnvironment \/ LaunchStepFails \/ LaunchAnswered \/ LaunchReplyLost
    \/ RecordLaunchFailure \/ LauncherDies
    \/ \E d \in Dataset : AddDataSetEndpoint(d)

HostingAccount ==
    \/ ProvisionNotebook \/ NotebookInService \/ NotebookFails
    \/ AutoStop \/ NotebookStopped \/ DeleteNotebook \/ NotebookDeleted
    \/ ProvisioningSucceeds \/ ProvisioningFails \/ LaunchDocAborts
    \/ TerminationSucceeds \/ TerminationFails \/ TerminateDocAborts

Request(r) ==
    \/ \E op \in Op : Route(r, op)
    \/ TerminateCall(r) \/ StartCall(r) \/ StopCall(r)
    \/ \E d \in Dataset : RemoveAccessPoint(r, d) \/ SkipUnlistedEndpoint(r, d)
    \/ CleanupDone(r) \/ WriteBack(r) \/ RequestFails(r)

HandlerStep(h) ==
    \/ ApplyStatus(h)
    \/ \E d \in Dataset : LinkRole(h, d)
    \/ RecordInstance(h) \/ LinkInstance(h) \/ LinkEnvironment(h)
    \/ HandlerThrows(h)

Delivery == \E h \in Handler, e \in bus : \E kept \in BOOLEAN : Deliver(h, e, kept)

Next ==
    \/ Launcher
    \/ HostingAccount
    \/ \E r \in Req : Request(r)
    \/ Delivery
    \/ \E h \in Handler : HandlerStep(h) \/ HandlerFails(h)
    \/ Tick

Spec == Init /\ [][Next]_vars

\* Lambda runs the executions it started, and the event source delivers what is
\* on the bus.  Nothing is assumed of users, of SageMaker or of the documents.
FairSpec ==
    /\ Spec
    /\ WF_vars(Delivery)
    /\ \A h \in Handler : WF_vars(HandlerStep(h))
(***************************************************************************)
(* Properties                                                              *)
(***************************************************************************)
DocState == {"none", "running", "succeeded", "failed", "aborted"}

RowState == [status : Status \cup {"NO_ROW"}, launched : BOOLEAN, listed : BOOLEAN,
             updatedAt : 0..MaxTime]

RequestState ==
    [op : Op, pc : {"calling", "cleaning", "abandoned", "writing", "replied"},
     reply : {"none", "204", "409", "5xx"}, removed : SUBSET Dataset]

HandlerState ==
    [pc : {"idle", "applying", "linking", "envToInstance", "instanceToEnv"},
     ev : Event \cup {NoEvent}]

\* Every variable holds a value the code or the services can give it.
TypeOK ==
    /\ row \in RowState
    /\ launch \in {"idle", "mounting", "failing", "failed", "done", "dead"}
    /\ req \in [Req -> RequestState \cup {NewRequest}]
    /\ handler \in [Handler -> HandlerState]
    /\ \A h \in Handler : handler[h].pc # "idle" => handler[h].ev \in Event
    /\ bus \subseteq Event
    /\ notebook \in {"none"} \cup DOMAIN Normalised
    /\ launchDoc \in DocState /\ terminateDoc \in DocState
    /\ mounted \subseteq Dataset /\ roleLinked \subseteq Dataset /\ unmounted \subseteq Dataset
    /\ links \subseteq {"ENV->INID", "INID->ENV"}
    /\ clock \in 0..MaxTime /\ faults \in 0..MaxFaults /\ copies \in 0..MaxCopies

\* A row shows a status that only a running or ending notebook has only after
\* the Launch event recorded the instance and product ids: without them a start,
\* a stop or a terminate of the environment could not reach the notebook.  It
\* rests on the instanceId test of the status handler and on the requests
\* failing before they write.
NoStatusBeforeInstance ==
    row.status \in {"STARTING", "STOPPING", "STOPPED", "TERMINATING", "TERMINATED",
                    "TERMINATING_FAILED"}
        => row.launched

\* An environment is shown as TERMINATED, or drops out of the listing, only when
\* its notebook is gone: nothing that still costs money disappears from view,
\* whatever the order, delay, repetition or retry of events.
TerminatedIsTrue ==
    row.status = "TERMINATED" \/ (launch # "idle" /\ ~row.listed)
        => notebook = "Deleted"

\* A user who is answered 204 to a terminate request finds that a Terminate
\* document was started, by this request or by another.
TerminateAckMeansStarted ==
    \A r \in Req : req[r].op = "terminate" /\ req[r].reply = "204"
                      => terminateDoc # "none"

\* Once the ids are recorded, and the environment can be connected to, the
\* instance role has been admitted to every dataset the environment mounts.
RolesLinkedBeforeInstance == row.launched => roleLinked = Dataset

\* The access points of an environment are deleted only when its termination
\* was started: no request takes the data from under a notebook that stays.
UnmountedOnlyInTermination == unmounted # {} => terminateDoc # "none"

\* The row of a launch whose document reported a failure ends as FAILED and
\* stays so: no late event and no retry of one changes it.
FailedLaunchIsReported == launchDoc = "failed" ~> [](row.status = "FAILED")

\* A launch whose document reported success gets its ids recorded, although the
\* handler may crash (less often than the event is tried) between any two steps.
LaunchIsRecorded == launchDoc = "succeeded" ~> row.launched

\* What environmentRoutes.ts says when it refuses a connection: wait until the
\* environment is COMPLETED.  It reads instanceId from the same row.
CompletedIsConnectable == row.status = "COMPLETED" => row.launched

\* The launch was answered, nothing is under way and nothing is on the bus.
Quiet ==
    /\ launch = "done"
    /\ \A r \in Req : req[r].pc \in {"new", "replied"}
    /\ \A h \in Handler : handler[h].pc = "idle"
    /\ bus = {}

\* When all events are consumed the row of a launched environment shows what
\* the last event of its notebook said.
SettledStatusIsTrue ==
    Quiet /\ row.launched /\ notebook \in {"InService", "Stopped", "Deleted"}
        => row.status = Normalised[notebook]

(***************************************************************************)
(* The record that readers see, and what they do not: which of events,     *)
(* requests and documents moved it.                                        *)
(***************************************************************************)
Record == INSTANCE EnvironmentRecord WITH
    shown    <- row.status,
    listed   <- row.listed,
    usable   <- row.launched,
    outcome  <- IF launchDoc \in {"none", "running"} THEN "pending" ELSE launchDoc,
    ending   <- terminateDoc # "none",
    gone     <- notebook = "Deleted",
    admitted <- roleLinked,
    removed  <- unmounted,
    promised <- \E r \in Req : req[r].op = "terminate" /\ req[r].reply = "204"

\* The requests, documents and handlers together keep what EnvironmentRecord
\* promises: each step is one of its steps or changes nothing readers rely on.
\* In particular an instance once recorded is never forgotten and an environment
\* once out of the listing never comes back, whatever is delivered late or twice.
ImplementsRecord == Record!Spec

(***************************************************************************)
(* The inductive invariant: why the safety properties above hold.          *)
(***************************************************************************)
\* What an event says of the world holds from its emission on.
EventTrue(e) ==
    /\ e.op = "Launch" =>
         launchDoc = (IF e.status = "COMPLETED" THEN "succeeded" ELSE "failed")
    /\ e.status = "TERMINATED" => notebook = "Deleted"
    /\ e.status \in {"TERMINATING", "TERMINATED", "TERMINATING_FAILED"} =>
         terminateDoc # "none" \/ launchDoc = "failed"

EventsTrue ==
    /\ \A e \in bus : EventTrue(e)
    /\ \A h \in Handler : handler[h].pc # "idle" => EventTrue(handler[h].ev)

\* Past its test, the handler of anything but a Launch event knows the ids are
\* recorded; only the handler of a Launch event goes further.
HandlersKnow ==
    \A h \in Handler :
        /\ handler[h].pc = "applying" => handler[h].ev.op = "Launch" \/ row.launched
        /\ handler[h].pc \in {"linking", "envToInstance", "instanceToEnv"}
              => handler[h].ev.op = "Launch"

\* A request past its AWS call found the ids recorded, and one that terminates
\* has started the document.
RequestsKnow ==
    \A r \in Req :
        /\ req[r].pc \in {"cleaning", "abandoned"} =>
             req[r].op = "terminate" /\ row.launched /\ terminateDoc # "none"
        /\ req[r].pc = "writing" =>
             /\ req[r].op \in Op /\ row.launched
             /\ req[r].op = "terminate" => terminateDoc # "none"

DocumentsKnow ==
    /\ launch \in {"idle", "mounting"} => launchDoc = "none"
    /\ launchDoc # "none" => mounted = Dataset
    /\ row.launched => launchDoc = "succeeded"
    /\ notebook \in {"Deleting", "Deleted"} => terminateDoc # "none" \/ launchDoc = "failed"

RowKnows ==
    row.status \in {"TERMINATING", "TERMINATED", "TERMINATING_FAILED"} => terminateDoc # "none"

\* The safety properties of the environment and what they rest on: the events
\* in flight are true, and the handlers and requests past their tests have
\* what they tested for, because no step takes it back.
IInv ==
    /\ TypeOK
    /\ EventsTrue /\ HandlersKnow /\ RequestsKnow /\ DocumentsKnow /\ RowKnows
    /\ NoStatusBeforeInstance /\ TerminatedIsTrue /\ TerminateAckMeansStarted
    /\ RolesLinkedBeforeInstance /\ UnmountedOnlyInTermination

===============================================================================
