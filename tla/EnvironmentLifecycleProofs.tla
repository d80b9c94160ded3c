--------------------- MODULE EnvironmentLifecycleProofs ---------------------
(***************************************************************************)
(* Proofs about EnvironmentLifecycle for every number of requests,         *)
(* handlers and datasets and every value of the bounds.                    *)
(***************************************************************************)
EXTENDS EnvironmentLifecycle, TLAPS

\* An emitted event is an event: truncating the time keeps it in range, and
\* its first try is within the tries.
LEMMA EmissionTime ==
    ASSUME TypeOK
    PROVE  /\ clock - (clock % Resolution) \in 0..MaxTime
           /\ 0 \in 0..(MaxTries - 1)
<1> DEFINE m == clock % Resolution
<1>1. clock \in 0..MaxTime  BY DEF TypeOK
<1>2. Resolution \in Nat \ {0} /\ MaxTries \in Nat \ {0} /\ MaxTime \in Nat
  BY BoundsAssumption
<1>3. m \in 0..(Resolution - 1)  BY <1>1, <1>2
<1>4. m <= clock  BY <1>1, <1>2
<1> HIDE DEF m
<1>5. clock - m \in 0..MaxTime  BY <1>1, <1>2, <1>3, <1>4
<1> QED  BY <1>2, <1>5 DEF m

\* The initial state is well typed.
LEMMA TypeInit == Init => TypeOK
BY BoundsAssumption DEF Init, TypeOK, Idle, DocState, Normalised,
   RowState, RequestState, NewRequest, HandlerState

\* The launch request keeps the types.
LEMMA LauncherType == TypeOK /\ Launcher => TypeOK'
<1> SUFFICES ASSUME TypeOK, Launcher PROVE TypeOK'
  OBVIOUS
<1> USE EmissionTime DEF TypeOK, RowState, rowVars, awsVars, apVars, bounds
<1>1. CASE CreateEnvironment
  BY <1>1 DEF CreateEnvironment, Status
<1>2. CASE LaunchStepFails
  BY <1>2 DEF LaunchStepFails
<1>3. CASE LaunchAnswered
  BY <1>3 DEF LaunchAnswered, ExecuteLaunchDocument, DocState
<1>4. CASE LaunchReplyLost
  BY <1>4 DEF LaunchReplyLost, ExecuteLaunchDocument, DocState
<1>5. CASE RecordLaunchFailure
  BY <1>5 DEF RecordLaunchFailure, RowWith, Status
<1>6. CASE LauncherDies
  BY <1>6 DEF LauncherDies
<1>7. ASSUME NEW d \in Dataset, AddDataSetEndpoint(d) PROVE TypeOK'
  BY <1>7 DEF AddDataSetEndpoint
<1> QED  BY <1>1, <1>2, <1>3, <1>4, <1>5, <1>6, <1>7 DEF Launcher

\* The hosting account keeps the types.
LEMMA HostingAccountType == TypeOK /\ HostingAccount => TypeOK'
<1> SUFFICES ASSUME TypeOK, HostingAccount PROVE TypeOK'
  OBVIOUS
<1> USE EmissionTime DEF TypeOK, rowVars, awsVars, apVars, bounds
<1>1. CASE ProvisionNotebook
  BY <1>1
  DEF ProvisionNotebook, NotebookMoves, Emit, Emitted, Event, EventsOf, Normalised
<1>2. CASE NotebookInService
  BY <1>2
  DEF NotebookInService, NotebookMoves, Emit, Emitted, Event, EventsOf, Normalised
<1>3. CASE NotebookFails
  BY <1>3 DEF NotebookFails, NotebookMoves, Emit, Emitted, Event, EventsOf, Normalised
<1>4. CASE AutoStop
  BY <1>4 DEF AutoStop, NotebookMoves, Emit, Emitted, Event, EventsOf, Normalised
<1>5. CASE NotebookStopped
  BY <1>5 DEF NotebookStopped, NotebookMoves, Emit, Emitted, Event, EventsOf, Normalised
<1>6. CASE DeleteNotebook
  BY <1>6 DEF DeleteNotebook, NotebookMoves, Emit, Emitted, Event, EventsOf, Normalised
<1>7. CASE NotebookDeleted
  BY <1>7 DEF NotebookDeleted, NotebookMoves, Emit, Emitted, Event, EventsOf, Normalised
<1>8. CASE ProvisioningSucceeds
  BY <1>8
  DEF ProvisioningSucceeds, LaunchDocEnds, Emit, Emitted, Event, EventsOf, DocState
<1>9. CASE ProvisioningFails
  BY <1>9 DEF ProvisioningFails, LaunchDocEnds, Emit, Emitted, Event, EventsOf, DocState
<1>10. CASE LaunchDocAborts
  BY <1>10 DEF LaunchDocAborts, LaunchDocEnds, Emit, Emitted, Event, EventsOf, DocState
<1>11. CASE TerminationSucceeds
  BY <1>11
  DEF TerminationSucceeds, TerminateDocEnds, Emit, Emitted, Event, EventsOf, DocState
<1>12. CASE TerminationFails
  BY <1>12
  DEF TerminationFails, TerminateDocEnds, Emit, Emitted, Event, EventsOf, DocState
<1>13. CASE TerminateDocAborts
  BY <1>13
  DEF TerminateDocAborts, TerminateDocEnds, Emit, Emitted, Event, EventsOf, DocState
<1> QED  BY <1>1, <1>2, <1>3, <1>4, <1>5, <1>6, <1>7, <1>8, <1>9, <1>10, <1>11, <1>12,
            <1>13 DEF HostingAccount

\* What a request is after its step is a request state; the rest of the step is
\* typed field by field.
LEMMA RequestType ==
    ASSUME NEW r \in Req
    PROVE  TypeOK /\ Request(r) => TypeOK'
<1> SUFFICES ASSUME TypeOK, Request(r) PROVE TypeOK'
  OBVIOUS
<1> USE DEF TypeOK, rowVars, awsVars, apVars, bounds
<1>0. req[r] \in RequestState \/ req[r].pc = "new"
  BY DEF NewRequest
<1>1. ASSUME NEW op \in Op, Route(r, op) PROVE TypeOK'
  <2> DEFINE new == IF RouteAnswer(op, row.status) = "call"
                   THEN [op |-> op, pc |-> "calling", reply |-> "none", removed |-> {}]
                   ELSE [op |-> op, pc |-> "replied",
                         reply |-> RouteAnswer(op, row.status), removed |-> {}]
  <2>1. new \in RequestState
    BY <1>0, <1>1 DEF Route, RouteAnswer, RequestState, Op
  <2>2. req' = [req EXCEPT ![r] = new]
    BY <1>1 DEF Route, RouteAnswer
  <2> HIDE DEF new
  <2> QED  BY <1>1, <2>1, <2>2 DEF Route
<1>2. ASSUME NEW d \in Dataset, RemoveAccessPoint(r, d) PROVE TypeOK'
  <2> DEFINE new == [req[r] EXCEPT !.removed = @ \cup {d}]
  <2>1. new \in RequestState
    BY <1>0, <1>2 DEF RemoveAccessPoint, RequestState, Op
  <2>2. req' = [req EXCEPT ![r] = new] \/ req' = req
    BY <1>2 DEF RemoveAccessPoint
  <2> HIDE DEF new
  <2> QED  BY <1>2, <2>1, <2>2 DEF RemoveAccessPoint
<1>9. ASSUME NEW d \in Dataset, SkipUnlistedEndpoint(r, d) PROVE TypeOK'
  <2> DEFINE new == [req[r] EXCEPT !.removed = @ \cup {d}]
  <2>1. new \in RequestState
    BY <1>0, <1>9 DEF SkipUnlistedEndpoint, RequestState, Op
  <2>2. req' = [req EXCEPT ![r] = new]
    BY <1>9 DEF SkipUnlistedEndpoint
  <2> HIDE DEF new
  <2> QED  BY <1>9, <2>1, <2>2 DEF SkipUnlistedEndpoint
<1>3. CASE TerminateCall(r)
  <2> DEFINE new == [req[r] EXCEPT !.pc = "cleaning"]
  <2>1. new \in RequestState
    BY <1>0, <1>3 DEF TerminateCall, RequestState, Op
  <2>2. req' = [req EXCEPT ![r] = new]
    BY <1>3 DEF TerminateCall
  <2> HIDE DEF new
  <2> QED  BY <1>3, <2>1, <2>2 DEF TerminateCall, DocState
<1>4. CASE StartCall(r)
  <2> DEFINE new == [req[r] EXCEPT !.pc = "writing"]
  <2>1. new \in RequestState
    BY <1>0, <1>4 DEF StartCall, NotebookCall, RequestState, Op
  <2>2. req' = [req EXCEPT ![r] = new]
    BY <1>4 DEF StartCall, NotebookCall
  <2>3. bus' \subseteq Event /\ notebook' \in DOMAIN Normalised
    BY <1>4, EmissionTime
    DEF StartCall, NotebookCall, Emit, Emitted, Event, EventsOf, Normalised
  <2> HIDE DEF new
  <2> QED  BY <1>4, <2>1, <2>2, <2>3 DEF StartCall, NotebookCall
<1>5. CASE StopCall(r)
  <2> DEFINE new == [req[r] EXCEPT !.pc = "writing"]
  <2>1. new \in RequestState
    BY <1>0, <1>5 DEF StopCall, NotebookCall, RequestState, Op
  <2>2. req' = [req EXCEPT ![r] = new]
    BY <1>5 DEF StopCall, NotebookCall
  <2>3. bus' \subseteq Event /\ notebook' \in DOMAIN Normalised
    BY <1>5, EmissionTime
    DEF StopCall, NotebookCall, Emit, Emitted, Event, EventsOf, Normalised
  <2> HIDE DEF new
  <2> QED  BY <1>5, <2>1, <2>2, <2>3 DEF StopCall, NotebookCall
<1>6. CASE CleanupDone(r)
  <2> DEFINE new == [req[r] EXCEPT !.pc = "writing", !.removed = {}]
  <2>1. new \in RequestState
    BY <1>0, <1>6 DEF CleanupDone, RequestState, Op
  <2>2. req' = [req EXCEPT ![r] = new]
    BY <1>6 DEF CleanupDone
  <2> HIDE DEF new
  <2> QED  BY <1>6, <2>1, <2>2 DEF CleanupDone
<1>7. CASE WriteBack(r)
  <2> DEFINE new == [req[r] EXCEPT !.pc = "replied", !.reply = "204"]
  <2>1. new \in RequestState
    BY <1>0, <1>7 DEF WriteBack, RequestState, Op
  <2>2. req' = [req EXCEPT ![r] = new]
    BY <1>7 DEF WriteBack
  <2>3. row' \in RowState
    BY <1>0, <1>7 DEF WriteBack, RowWith, RowState, RequestState, InProgress, Status, Op
  <2> HIDE DEF new
  <2> QED  BY <1>7, <2>1, <2>2, <2>3 DEF WriteBack
<1>8. CASE RequestFails(r)
  <2> DEFINE new == [req[r] EXCEPT !.reply = "5xx", !.removed = {},
                            !.pc = IF req[r].pc = "cleaning"
                                   THEN "abandoned" ELSE "replied"]
  <2>1. new \in RequestState
    BY <1>0, <1>8 DEF RequestFails, RequestState, Op
  <2>2. req' = [req EXCEPT ![r] = new]
    BY <1>8 DEF RequestFails
  <2> HIDE DEF new
  <2> QED  BY <1>8, <2>1, <2>2 DEF RequestFails
<1> QED  BY <1>1, <1>2, <1>3, <1>4, <1>5, <1>6, <1>7, <1>8, <1>9 DEF Request

\* An event given back for another try is an event.
LEMMA GiveBackType ==
    ASSUME TypeOK, NEW h \in Handler, handler[h].pc # "idle", GiveBack(h)
    PROVE  bus' \subseteq Event
<1> DEFINE ev == handler[h].ev
<1>1. ev \in Event /\ bus \subseteq Event  BY DEF TypeOK
<1>2. CASE ev.tries + 1 < MaxTries
  <2>1. [ev EXCEPT !.tries = ev.tries + 1] \in Event
    BY <1>1, <1>2, BoundsAssumption DEF Event, EventsOf
  <2> QED  BY <1>1, <1>2, <2>1 DEF GiveBack
<1>3. CASE ~(ev.tries + 1 < MaxTries)
  BY <1>1, <1>3 DEF GiveBack
<1> QED  BY <1>2, <1>3

\* The status handler keeps the types, when it crashes as well.
LEMMA HandlerType ==
    ASSUME NEW h \in Handler
    PROVE  TypeOK /\ (HandlerStep(h) \/ HandlerFails(h)) => TypeOK'
<1> SUFFICES ASSUME TypeOK, HandlerStep(h) \/ HandlerFails(h) PROVE TypeOK'
  OBVIOUS
<1> USE BoundsAssumption DEF TypeOK, HandlerState, rowVars, awsVars, apVars, bounds
<1>1. CASE ApplyStatus(h)
  <2>1. handler[h].ev.status \in Status
    BY <1>1 DEF ApplyStatus, Event, EventsOf, Status
  <2>2. row' \in RowState
    BY <1>1, <2>1 DEF ApplyStatus, RowAfter, RowWith, RowState
  <2> QED  BY <1>1, <2>2 DEF ApplyStatus, Idle
<1>2. ASSUME NEW d \in Dataset, LinkRole(h, d) PROVE TypeOK'
  BY <1>2 DEF LinkRole
<1>3. CASE RecordInstance(h)
  BY <1>3 DEF RecordInstance, RowState
<1>4. CASE LinkInstance(h)
  BY <1>4 DEF LinkInstance
<1>5. CASE LinkEnvironment(h)
  BY <1>5 DEF LinkEnvironment, Idle
<1>6. CASE HandlerThrows(h)
  <2>1. bus' \subseteq Event  BY <1>6, GiveBackType DEF HandlerThrows
  <2> QED  BY <1>6, <2>1 DEF HandlerThrows, GiveBack, Idle
<1>7. CASE HandlerFails(h)
  <2>1. bus' \subseteq Event  BY <1>7, GiveBackType DEF HandlerFails
  <2> QED  BY <1>7, <2>1 DEF HandlerFails, GiveBack, Idle
<1> QED  BY <1>1, <1>2, <1>3, <1>4, <1>5, <1>6, <1>7 DEF HandlerStep

\* Delivering an event keeps the types.
LEMMA DeliveryType == TypeOK /\ Delivery => TypeOK'
<1> SUFFICES ASSUME TypeOK,
                    NEW h \in Handler, NEW e \in bus, NEW kept \in BOOLEAN,
                    Deliver(h, e, kept)
             PROVE  TypeOK'
  BY DEF Delivery
<1> QED
  BY BoundsAssumption
  DEF Deliver, TypeOK, HandlerState, rowVars, awsVars, apVars, bounds

\* Every step keeps the types.
LEMMA TypeStep == TypeOK /\ [Next]_vars => TypeOK'
<1> SUFFICES ASSUME TypeOK, [Next]_vars PROVE TypeOK'
  OBVIOUS
<1>1. CASE Tick
  BY <1>1, BoundsAssumption DEF Tick, TypeOK, rowVars, awsVars, apVars
<1>2. CASE UNCHANGED vars
  BY <1>2 DEF vars, TypeOK
<1> QED
  BY <1>1, <1>2, LauncherType, HostingAccountType, RequestType, HandlerType,
     DeliveryType DEF Next

\* Every reachable state is well typed.
THEOREM TypeCorrect == Spec => []TypeOK
BY TypeInit, TypeStep, PTL DEF Spec

(***************************************************************************)
(* The inductive invariant.  Safe is IInv without the types.               *)
(***************************************************************************)
Safe ==
    /\ EventsTrue /\ HandlersKnow /\ RequestsKnow /\ DocumentsKnow /\ RowKnows
    /\ NoStatusBeforeInstance /\ TerminatedIsTrue /\ TerminateAckMeansStarted
    /\ RolesLinkedBeforeInstance /\ UnmountedOnlyInTermination

\* The initial state is safe: there is no row, no event, no request.
LEMMA SafeInit == Init => Safe
BY DEF Init, Safe, EventsTrue, HandlersKnow, RequestsKnow, DocumentsKnow, RowKnows,
   Idle,
       NewRequest, NoStatusBeforeInstance, TerminatedIsTrue, TerminateAckMeansStarted,
       RolesLinkedBeforeInstance, UnmountedOnlyInTermination

\* The launch request keeps the invariant: it starts the document once, with
\* every dataset mounted.
LEMMA LauncherSafe ==
    ASSUME TypeOK, Safe, Launcher
    PROVE  Safe'
<1> USE DEF Safe, TypeOK, rowVars, awsVars, apVars, bounds
<1> USE DEF EventsTrue, EventTrue, HandlersKnow, RequestsKnow, DocumentsKnow,
           RowKnows, NoStatusBeforeInstance, TerminatedIsTrue, TerminateAckMeansStarted,
           RolesLinkedBeforeInstance, UnmountedOnlyInTermination
<1>1. CASE CreateEnvironment
  BY <1>1 DEF CreateEnvironment
<1>2. CASE LaunchStepFails
  BY <1>2 DEF LaunchStepFails
<1>3. CASE LaunchAnswered
  BY <1>3 DEF LaunchAnswered, ExecuteLaunchDocument
<1>4. CASE LaunchReplyLost
  BY <1>4 DEF LaunchReplyLost, ExecuteLaunchDocument
<1>5. CASE RecordLaunchFailure
  BY <1>5 DEF RecordLaunchFailure, RowWith
<1>6. CASE LauncherDies
  BY <1>6 DEF LauncherDies
<1>7. ASSUME NEW d \in Dataset, AddDataSetEndpoint(d) PROVE Safe'
  BY <1>7 DEF AddDataSetEndpoint
<1> QED  BY <1>1, <1>2, <1>3, <1>4, <1>5, <1>6, <1>7 DEF Launcher

\* The hosting account keeps the invariant: what it emits is true when emitted.
LEMMA HostingAccountSafe ==
    ASSUME TypeOK, Safe, HostingAccount
    PROVE  Safe'
<1> USE DEF Safe, TypeOK, rowVars, awsVars, apVars, bounds
<1> USE DEF EventsTrue, EventTrue, HandlersKnow, RequestsKnow, DocumentsKnow,
           RowKnows, NoStatusBeforeInstance, TerminatedIsTrue, TerminateAckMeansStarted,
           RolesLinkedBeforeInstance, UnmountedOnlyInTermination
<1>1. CASE ProvisionNotebook
  BY <1>1 DEF ProvisionNotebook, NotebookMoves, Emit, Emitted, Normalised
<1>2. CASE NotebookInService
  BY <1>2 DEF NotebookInService, NotebookMoves, Emit, Emitted, Normalised
<1>3. CASE NotebookFails
  BY <1>3 DEF NotebookFails, NotebookMoves, Emit, Emitted, Normalised
<1>4. CASE AutoStop
  BY <1>4 DEF AutoStop, NotebookMoves, Emit, Emitted, Normalised
<1>5. CASE NotebookStopped
  BY <1>5 DEF NotebookStopped, NotebookMoves, Emit, Emitted, Normalised
<1>6. CASE DeleteNotebook
  BY <1>6 DEF DeleteNotebook, NotebookMoves, Emit, Emitted, Normalised
<1>7. CASE NotebookDeleted
  BY <1>7 DEF NotebookDeleted, NotebookMoves, Emit, Emitted, Normalised
<1>8. CASE ProvisioningSucceeds
  BY <1>8 DEF ProvisioningSucceeds, LaunchDocEnds, Emit, Emitted
<1>9. CASE ProvisioningFails
  BY <1>9 DEF ProvisioningFails, LaunchDocEnds, Emit, Emitted
<1>10. CASE LaunchDocAborts
  BY <1>10 DEF LaunchDocAborts, LaunchDocEnds, Emit, Emitted
<1>11. CASE TerminationSucceeds
  BY <1>11 DEF TerminationSucceeds, TerminateDocEnds, Emit, Emitted
<1>12. CASE TerminationFails
  BY <1>12 DEF TerminationFails, TerminateDocEnds, Emit, Emitted
<1>13. CASE TerminateDocAborts
  BY <1>13 DEF TerminateDocAborts, TerminateDocEnds, Emit, Emitted
<1> QED  BY <1>1, <1>2, <1>3, <1>4, <1>5, <1>6, <1>7, <1>8, <1>9, <1>10, <1>11, <1>12,
            <1>13 DEF HostingAccount

\* The requests keep the invariant: they write only after an AWS call that
\* needed the recorded ids.
LEMMA RequestSafe ==
    ASSUME TypeOK, Safe, NEW r \in Req, Request(r)
    PROVE  Safe'
<1> USE DEF Safe, TypeOK, rowVars, awsVars, apVars, bounds
<1> USE DEF EventsTrue, EventTrue, HandlersKnow, RequestsKnow, DocumentsKnow,
           RowKnows, NoStatusBeforeInstance, TerminatedIsTrue, TerminateAckMeansStarted,
           RolesLinkedBeforeInstance, UnmountedOnlyInTermination
<1>1. ASSUME NEW op \in Op, Route(r, op) PROVE Safe'
  BY <1>1 DEF Route, RouteAnswer, Op
<1>2. ASSUME NEW d \in Dataset, RemoveAccessPoint(r, d) PROVE Safe'
  BY <1>2 DEF RemoveAccessPoint
<1>9. ASSUME NEW d \in Dataset, SkipUnlistedEndpoint(r, d) PROVE Safe'
  BY <1>9 DEF SkipUnlistedEndpoint
<1>3. CASE TerminateCall(r)
  BY <1>3 DEF TerminateCall
<1>4. CASE StartCall(r)
  <2> USE <1>4 DEF StartCall, NotebookCall
  <2>1. EventsTrue'  BY DEF Emit, Emitted, Normalised
  <2>2. req' = [req EXCEPT ![r].pc = "writing"] /\ req[r] \in RequestState
    BY DEF NewRequest
  <2>3. RequestsKnow'  BY <2>2 DEF RequestState
  <2>4. TerminateAckMeansStarted'  BY <2>2 DEF RequestState
  <2> QED  BY <2>1, <2>3, <2>4
<1>5. CASE StopCall(r)
  <2> USE <1>5 DEF StopCall, NotebookCall
  <2>1. EventsTrue'  BY DEF Emit, Emitted, Normalised
  <2>2. req' = [req EXCEPT ![r].pc = "writing"] /\ req[r] \in RequestState
    BY DEF NewRequest
  <2>3. RequestsKnow'  BY <2>2 DEF RequestState
  <2>4. TerminateAckMeansStarted'  BY <2>2 DEF RequestState
  <2> QED  BY <2>1, <2>3, <2>4
<1>6. CASE CleanupDone(r)
  <2> USE <1>6 DEF CleanupDone
  <2>1. req[r] \in RequestState
    BY DEF NewRequest
  <2>2. RequestsKnow'  BY <2>1 DEF RequestState, Op
  <2>3. TerminateAckMeansStarted'  BY <2>1 DEF RequestState
  <2> QED  BY <2>2, <2>3
<1>7. CASE WriteBack(r)
  BY <1>7 DEF WriteBack, RowWith, InProgress, Op
<1>8. CASE RequestFails(r)
  BY <1>8 DEF RequestFails
<1> QED  BY <1>1, <1>2, <1>3, <1>4, <1>5, <1>6, <1>7, <1>8, <1>9 DEF Request

\* An event given back says what it said before.
LEMMA GiveBackTrue ==
    ASSUME TypeOK, Safe, NEW h \in Handler, handler[h].pc # "idle", GiveBack(h),
           UNCHANGED <<row, notebook, launchDoc, terminateDoc>>
    PROVE  EventsTrue' /\ HandlersKnow'
<1> DEFINE ev == handler[h].ev
<1>1. ev \in Event /\ EventTrue(ev)
  BY DEF TypeOK, Safe, EventsTrue
<1>2. PICK again : /\ bus' \subseteq bus \cup {again}
                   /\ again.op = ev.op /\ again.status = ev.status
  <2>1. [ev EXCEPT !.tries = @ + 1].op = ev.op /\ [ev EXCEPT !.tries = @ + 1].status = ev.status
    BY <1>1 DEF Event, EventsOf
  <2> QED  BY <2>1 DEF GiveBack
<1>3. EventTrue(again)
  BY <1>1, <1>2 DEF EventTrue
<1>5. \A g \in Handler : handler'[g] = handler[g] \/ handler'[g].pc = "idle"
  BY DEF GiveBack, Idle, TypeOK
<1>6. EventsTrue'
  BY <1>2, <1>3, <1>5 DEF Safe, EventsTrue, EventTrue
<1>7. HandlersKnow'
  BY <1>5 DEF Safe, HandlersKnow
<1> QED  BY <1>6, <1>7

\* The status handler keeps the invariant: it writes what an event said, and
\* an event in flight is still true.
LEMMA HandlerSafe ==
    ASSUME TypeOK, Safe, NEW h \in Handler, HandlerStep(h) \/ HandlerFails(h)
    PROVE  Safe'
<1> USE DEF Safe, TypeOK, rowVars, awsVars, apVars, bounds
<1> USE DEF EventsTrue, EventTrue, HandlersKnow, RequestsKnow, DocumentsKnow,
           RowKnows, NoStatusBeforeInstance, TerminatedIsTrue, TerminateAckMeansStarted,
           RolesLinkedBeforeInstance, UnmountedOnlyInTermination
<1>1. CASE ApplyStatus(h)
  <2> DEFINE ev == handler[h].ev
  <2> USE <1>1 DEF ApplyStatus, Idle
  <2>1. ev \in Event /\ EventTrue(ev) /\ handler[h].pc = "applying"
    OBVIOUS
  <2>2. ev.op = "Launch" => ev.status \in {"COMPLETED", "FAILED"}
    BY <2>1 DEF Event, EventsOf
  <2>3. row'.status = ev.status /\ row'.launched = row.launched
    BY DEF RowAfter, RowWith
  <2>4. HandlersKnow' /\ EventsTrue'  BY <2>3
  <2>5. RequestsKnow' /\ DocumentsKnow'  BY <2>3
  <2>6. RowKnows' /\ NoStatusBeforeInstance'  BY <2>1, <2>2, <2>3
  <2>7. TerminatedIsTrue'  BY <2>1 DEF RowAfter, RowWith
  <2> QED  BY <2>3, <2>4, <2>5, <2>6, <2>7
<1>2. ASSUME NEW d \in Dataset, LinkRole(h, d) PROVE Safe'
  BY <1>2 DEF LinkRole
<1>3. CASE RecordInstance(h)
  <2> USE <1>3 DEF RecordInstance
  <2>1. handler[h].ev.op = "Launch" /\ launchDoc = "succeeded"
    OBVIOUS
  <2>2. row'.status = row.status /\ row'.launched /\ row'.listed = row.listed
    BY DEF RowState
  <2>3. HandlersKnow' /\ EventsTrue'  BY <2>2
  <2>4. DocumentsKnow' /\ RolesLinkedBeforeInstance'  BY <2>1, <2>2
  <2>5. RowKnows' /\ NoStatusBeforeInstance' /\ TerminatedIsTrue'  BY <2>2
  <2> QED  BY <2>2, <2>3, <2>4, <2>5
<1>4. CASE LinkInstance(h)
  BY <1>4 DEF LinkInstance
<1>5. CASE LinkEnvironment(h)
  BY <1>5 DEF LinkEnvironment, Idle
<1>6. CASE HandlerThrows(h)
  <2> USE <1>6 DEF HandlerThrows
  <2>1. EventsTrue' /\ HandlersKnow'  BY GiveBackTrue
  <2> QED  BY <2>1
<1>7. CASE HandlerFails(h)
  <2> USE <1>7 DEF HandlerFails
  <2>1. EventsTrue' /\ HandlersKnow'  BY GiveBackTrue
  <2> QED  BY <2>1
<1> QED  BY <1>1, <1>2, <1>3, <1>4, <1>5, <1>6, <1>7 DEF HandlerStep

\* The test the handler makes on delivery gives it what it must know to write.
LEMMA DeliverySafe ==
    ASSUME TypeOK, Safe, Delivery
    PROVE  Safe'
<1> USE DEF Safe, TypeOK, rowVars, awsVars, apVars, bounds
<1> USE DEF EventsTrue, EventTrue, HandlersKnow, RequestsKnow, DocumentsKnow,
           RowKnows, NoStatusBeforeInstance, TerminatedIsTrue, TerminateAckMeansStarted,
           RolesLinkedBeforeInstance, UnmountedOnlyInTermination
<1>1. ASSUME NEW h \in Handler, NEW e \in bus, NEW kept \in BOOLEAN, Deliver(h, e, kept) PROVE Safe'
  BY <1>1 DEF Deliver, Outdated
<1> QED  BY <1>1 DEF Delivery

\* Every step keeps the invariant.
LEMMA SafeStep == TypeOK /\ Safe /\ [Next]_vars => Safe'
<1> SUFFICES ASSUME TypeOK, Safe, [Next]_vars PROVE Safe'
  OBVIOUS
<1>1. CASE Tick \/ UNCHANGED vars
  BY <1>1
  DEF Tick, vars, rowVars, awsVars, apVars, Safe, EventsTrue, EventTrue, HandlersKnow,
     RequestsKnow, DocumentsKnow, RowKnows, NoStatusBeforeInstance, TerminatedIsTrue,
     TerminateAckMeansStarted, RolesLinkedBeforeInstance, UnmountedOnlyInTermination
<1> QED
  BY <1>1, LauncherSafe, HostingAccountSafe, RequestSafe, HandlerSafe, DeliverySafe
  DEF Next

\* Every reachable state satisfies the inductive invariant: what an event says
\* stays true, and what a handler or a request tested is not taken back.
THEOREM Invariance == Spec => []IInv
<1>1. IInv <=> TypeOK /\ Safe  BY DEF IInv, Safe
<1> QED  BY <1>1, TypeInit, TypeStep, SafeInit, SafeStep, PTL DEF Spec

\* A status that only a launched environment can have is shown only after the
\* status handler recorded the instance and product ids.
THEOREM InstanceFirst == Spec => []NoStatusBeforeInstance
BY Invariance, PTL DEF IInv

\* TERMINATED, and leaving the listing, mean that the notebook is gone, for any
\* order, repetition and retry of the events.
THEOREM TerminatedTrue == Spec => []TerminatedIsTrue
BY Invariance, PTL DEF IInv

\* A terminate request answered with 204 has a Terminate document behind it.
THEOREM AckedTerminateStarted == Spec => []TerminateAckMeansStarted
BY Invariance, PTL DEF IInv

\* The ids are recorded only when the instance role has access to every dataset.
THEOREM RolesFirst == Spec => []RolesLinkedBeforeInstance
BY Invariance, PTL DEF IInv

\* No access point is deleted before the termination was started.
THEOREM UnmountedInTermination == Spec => []UnmountedOnlyInTermination
BY Invariance, PTL DEF IInv
=============================================================================
