------------------------ MODULE EnvironmentRecordProofs ------------------------
(***************************************************************************)
(* EnvironmentLifecycle implements EnvironmentRecord, for every number of  *)
(* requests, handlers and datasets: each of its steps, from a state that   *)
(* satisfies IInv, is a step of the record or leaves it alone.             *)
(***************************************************************************)
EXTENDS EnvironmentLifecycleProofs

\* The abstract variables, for the steps of the proof that name them.
Outcome == IF launchDoc \in {"none", "running"} THEN "pending" ELSE launchDoc
Promised == \E r \in Req : req[r].op = "terminate" /\ req[r].reply = "204"

\* Before the environment is created there is no row and nothing happens; from
\* then on there is a row.
Begun ==
    /\ launch # "idle" => row.status # "NO_ROW"
    /\ launch = "idle" =>
         /\ row.status = "NO_ROW" /\ ~row.launched /\ launchDoc = "none" /\ notebook = "none"
         /\ terminateDoc = "none" /\ bus = {}
         /\ \A h \in Handler : handler[h].pc = "idle"
         /\ \A r \in Req : req[r].pc = "new"

\* The initial state has not begun.
LEMMA BegunInit == Init => Begun
BY DEF Init, Begun, Idle, NewRequest

\* Creation makes the row; what the launch does after it needs a launch.
LEMMA LauncherBegun ==
    ASSUME TypeOK, Begun, Launcher
    PROVE  Begun'
<1> USE DEF Begun, rowVars, awsVars, apVars, bounds
<1>1. CASE CreateEnvironment
  BY <1>1 DEF CreateEnvironment, TypeOK, RowState
<1>2. CASE RecordLaunchFailure
  BY <1>2 DEF RecordLaunchFailure, RowWith
<1>3. CASE LaunchStepFails \/ LaunchAnswered \/ LaunchReplyLost \/ LauncherDies
  BY <1>3
  DEF LaunchStepFails, LaunchAnswered, LaunchReplyLost, ExecuteLaunchDocument, LauncherDies
<1>4. ASSUME NEW d \in Dataset, AddDataSetEndpoint(d) PROVE Begun'
  BY <1>4 DEF AddDataSetEndpoint
<1> QED  BY <1>1, <1>2, <1>3, <1>4 DEF Launcher

\* A document or a notebook that moves was started by a launch.
LEMMA HostingAccountBegun ==
    ASSUME TypeOK, Begun, HostingAccount
    PROVE  Begun'
<1>1. launch # "idle" /\ UNCHANGED <<launch, row>>
  <2> USE DEF Begun, rowVars, awsVars, apVars, bounds
  <2>1. CASE \/ ProvisionNotebook \/ NotebookInService \/ NotebookFails \/ AutoStop
             \/ NotebookStopped \/ DeleteNotebook \/ NotebookDeleted
    BY <2>1
    DEF ProvisionNotebook, NotebookInService, NotebookFails, AutoStop, NotebookStopped,
        DeleteNotebook, NotebookDeleted, NotebookMoves
  <2>2. CASE ProvisioningSucceeds \/ ProvisioningFails \/ LaunchDocAborts
    BY <2>2 DEF ProvisioningSucceeds, ProvisioningFails, LaunchDocAborts, LaunchDocEnds
  <2>3. CASE TerminationSucceeds \/ TerminationFails \/ TerminateDocAborts
    BY <2>3 DEF TerminationSucceeds, TerminationFails, TerminateDocAborts, TerminateDocEnds
  <2> QED  BY <2>1, <2>2, <2>3 DEF HostingAccount
<1> QED  BY <1>1 DEF Begun

\* A request finds the row it was made for.
LEMMA RequestBegun ==
    ASSUME TypeOK, IInv, Begun, NEW r \in Req, Request(r)
    PROVE  Begun'
<1>1. launch # "idle" /\ launch' = launch
  <2> USE DEF Begun, rowVars, awsVars, apVars, bounds
  <2>1. ASSUME NEW op \in Op, Route(r, op) PROVE launch # "idle" /\ launch' = launch
    BY <2>1 DEF Route
  <2>2. CASE TerminateCall(r) \/ StartCall(r) \/ StopCall(r)
    BY <2>2 DEF TerminateCall, StartCall, StopCall, NotebookCall
  <2>3. ASSUME NEW d \in Dataset, RemoveAccessPoint(r, d) \/ SkipUnlistedEndpoint(r, d)
        PROVE  launch # "idle" /\ launch' = launch
    BY <2>3 DEF RemoveAccessPoint, SkipUnlistedEndpoint
  <2>4. CASE CleanupDone(r) \/ WriteBack(r) \/ RequestFails(r)
    BY <2>4 DEF CleanupDone, WriteBack, RequestFails
  <2> QED  BY <2>1, <2>2, <2>3, <2>4 DEF Request
<1>2. row' = row \/ row'.status \in Status
  <2>1. CASE WriteBack(r)
    BY <2>1 DEF WriteBack, RowWith, InProgress, Status, IInv, RequestsKnow, Op
  <2>2. CASE TerminateCall(r) \/ StartCall(r) \/ StopCall(r)
    BY <2>2 DEF TerminateCall, StartCall, StopCall, NotebookCall, rowVars
  <2>3. CASE CleanupDone(r) \/ RequestFails(r)
    BY <2>3 DEF CleanupDone, RequestFails, rowVars
  <2>4. ASSUME NEW op \in Op, Route(r, op) PROVE row' = row
    BY <2>4 DEF Route, rowVars
  <2>5. ASSUME NEW d \in Dataset, RemoveAccessPoint(r, d) \/ SkipUnlistedEndpoint(r, d)
        PROVE  row' = row
    BY <2>5 DEF RemoveAccessPoint, SkipUnlistedEndpoint, rowVars
  <2> QED  BY <2>1, <2>2, <2>3, <2>4, <2>5 DEF Request
<1> QED  BY <1>1, <1>2 DEF Begun, Status

\* A handler has an event, and events have a launch.
LEMMA HandlerBegun ==
    ASSUME TypeOK, Begun, NEW h \in Handler, HandlerStep(h) \/ HandlerFails(h)
    PROVE  Begun'
<1>1. launch # "idle" /\ launch' = launch
  <2> USE DEF Begun, rowVars, awsVars, apVars, bounds
  <2>1. ASSUME NEW d \in Dataset, LinkRole(h, d) PROVE launch # "idle" /\ launch' = launch
    BY <2>1 DEF LinkRole
  <2>2. CASE \/ ApplyStatus(h) \/ RecordInstance(h) \/ LinkInstance(h) \/ LinkEnvironment(h)
             \/ HandlerThrows(h) \/ HandlerFails(h)
    BY <2>2
    DEF ApplyStatus, RecordInstance, LinkInstance, LinkEnvironment, HandlerThrows, HandlerFails
  <2> QED  BY <2>1, <2>2 DEF HandlerStep
<1>2. row'.status = row.status \/ row'.status \in Status
  <2>1. CASE ApplyStatus(h)
    BY <2>1
    DEF ApplyStatus, RowAfter, RowWith, TypeOK, HandlerState, Event, EventsOf, Status
  <2>2. CASE RecordInstance(h)
    BY <2>2 DEF RecordInstance, TypeOK, RowState
  <2>3. CASE LinkInstance(h) \/ LinkEnvironment(h) \/ HandlerThrows(h) \/ HandlerFails(h)
    BY <2>3 DEF LinkInstance, LinkEnvironment, HandlerThrows, HandlerFails, rowVars
  <2>4. ASSUME NEW d \in Dataset, LinkRole(h, d) PROVE row' = row
    BY <2>4 DEF LinkRole, rowVars
  <2> QED  BY <2>1, <2>2, <2>3, <2>4 DEF HandlerStep
<1> QED  BY <1>1, <1>2 DEF Begun, Status

\* Every step keeps the order of things.
LEMMA BegunStep == IInv /\ Begun /\ [Next]_vars => Begun'
<1> SUFFICES ASSUME IInv, Begun, [Next]_vars PROVE Begun'
  OBVIOUS
<1>1. TypeOK  BY DEF IInv
<1>2. CASE Delivery
  BY <1>2 DEF Delivery, Deliver, Begun, rowVars, awsVars, apVars
<1>3. CASE Tick \/ UNCHANGED vars
  BY <1>3 DEF Tick, vars, Begun, rowVars, awsVars, apVars
<1> QED
  BY <1>1, <1>2, <1>3, LauncherBegun, HostingAccountBegun, RequestBegun, HandlerBegun DEF Next

(***************************************************************************)
(* A request is answered once.                                             *)
(***************************************************************************)
AnsweredOnce == \A r \in Req : req[r].reply = "204" => req[r].pc = "replied"

\* What a request is after a step of its own: a request state, or what it was.
LEMMA AnsweredRequest ==
    ASSUME TypeOK, AnsweredOnce, NEW r \in Req, Request(r)
    PROVE  AnsweredOnce'
<1> USE DEF AnsweredOnce, TypeOK
<1>1. ASSUME NEW op \in Op, Route(r, op) PROVE AnsweredOnce'
  BY <1>1 DEF Route
<1>2. CASE TerminateCall(r)
  BY <1>2 DEF TerminateCall, RequestState, NewRequest
<1>3. CASE StartCall(r) \/ StopCall(r)
  BY <1>3 DEF StartCall, StopCall, NotebookCall, RequestState, NewRequest
<1>4. ASSUME NEW d \in Dataset, RemoveAccessPoint(r, d) \/ SkipUnlistedEndpoint(r, d)
      PROVE  AnsweredOnce'
  BY <1>4 DEF RemoveAccessPoint, SkipUnlistedEndpoint, RequestState, NewRequest
<1>5. CASE CleanupDone(r)
  BY <1>5 DEF CleanupDone, RequestState, NewRequest
<1>6. CASE WriteBack(r)
  BY <1>6 DEF WriteBack, RequestState, NewRequest
<1>7. CASE RequestFails(r)
  BY <1>7 DEF RequestFails, RequestState, NewRequest
<1> QED  BY <1>1, <1>2, <1>3, <1>4, <1>5, <1>6, <1>7 DEF Request

\* Nobody but a request touches its answer.
LEMMA AnsweredStep == TypeOK /\ AnsweredOnce /\ [Next]_vars => AnsweredOnce'
<1> SUFFICES ASSUME TypeOK, AnsweredOnce, [Next]_vars PROVE AnsweredOnce'
  OBVIOUS
<1>1. ASSUME Launcher \/ HostingAccount \/ Delivery \/ Tick \/ UNCHANGED vars PROVE req' = req
  <2>1. CASE Launcher
    BY <2>1
    DEF Launcher, CreateEnvironment, LaunchStepFails, LaunchAnswered, LaunchReplyLost,
        ExecuteLaunchDocument, RecordLaunchFailure, LauncherDies, AddDataSetEndpoint
  <2>2. CASE HostingAccount
    BY <2>2
    DEF HostingAccount, ProvisionNotebook, NotebookInService, NotebookFails, AutoStop,
        NotebookStopped, DeleteNotebook, NotebookDeleted, NotebookMoves,
        ProvisioningSucceeds, ProvisioningFails, LaunchDocAborts, LaunchDocEnds,
        TerminationSucceeds, TerminationFails, TerminateDocAborts, TerminateDocEnds
  <2>3. CASE Delivery \/ Tick \/ UNCHANGED vars
    BY <2>3 DEF Delivery, Deliver, Tick, vars
  <2> QED  BY <1>1, <2>1, <2>2, <2>3
<1>2. ASSUME NEW h \in Handler, HandlerStep(h) \/ HandlerFails(h) PROVE req' = req
  BY <1>2
  DEF HandlerStep, ApplyStatus, LinkRole, RecordInstance, LinkInstance, LinkEnvironment,
      HandlerThrows, HandlerFails
<1> QED  BY <1>1, <1>2, AnsweredRequest DEF Next, AnsweredOnce

(***************************************************************************)
(* Initial states and steps map to those of the record.                    *)
(***************************************************************************)
\* Nothing is shown, promised or begun at first.
LEMMA InitMaps == Init => Record!Init
BY DEF Init, NewRequest, Record!Init, Record!NoRow

\* A request that is answered otherwise than 204 to a terminate promises nothing new.
LEMMA PromisedSame ==
    ASSUME TypeOK, NEW r \in Req, req' = [req EXCEPT ![r] = req'[r]],
           req[r].reply # "204", req'[r].reply # "204" \/ req'[r].op # "terminate"
    PROVE  Promised' = Promised
<1>1. ASSUME NEW q \in Req, q # r PROVE req'[q] = req[q]
  BY <1>1 DEF TypeOK
<1> QED  BY <1>1 DEF Promised

\* The launch creates the row, mounts the data, starts the document and may show
\* that it failed.
LEMMA LauncherMaps ==
    ASSUME IInv, Begun, Launcher
    PROVE  [Record!Next]_(Record!vars)
<1> USE DEF Begun, rowVars, awsVars, apVars, bounds, Record!vars, Record!record,
            Record!world, Record!data
<1>1. CASE CreateEnvironment
  <2>1. Record!Create
    BY <1>1 DEF CreateEnvironment, Record!Create, Record!NoRow, IInv, TypeOK, RowState
  <2> QED  BY <2>1 DEF Record!Next
<1>2. CASE RecordLaunchFailure
  <2>1. Record!Show("FAILED")
    BY <1>2
    DEF RecordLaunchFailure, RowWith, Record!Show, Record!NoRow, Record!ReachedStatus,
        Record!EndingStatus, IInv, TypeOK, RowState
  <2>2. "FAILED" \in Record!ShownStatus
    BY DEF Record!ShownStatus
  <2> QED  BY <2>1, <2>2 DEF Record!Next
<1>3. CASE LaunchStepFails \/ LauncherDies
  BY <1>3 DEF LaunchStepFails, LauncherDies
<1>4. CASE LaunchAnswered \/ LaunchReplyLost
  BY <1>4 DEF LaunchAnswered, LaunchReplyLost, ExecuteLaunchDocument, IInv, DocumentsKnow
<1>5. ASSUME NEW d \in Dataset, AddDataSetEndpoint(d) PROVE [Record!Next]_(Record!vars)
  <2>1. Record!Mount(d)
    BY <1>5 DEF AddDataSetEndpoint, Record!Mount, Record!NoRow
  <2> QED  BY <2>1 DEF Record!Next
<1> QED  BY <1>1, <1>2, <1>3, <1>4, <1>5 DEF Launcher

\* The hosting account decides the outcome and deletes the instance; everything
\* else it does, readers only learn of from an event.
LEMMA HostingAccountMaps ==
    ASSUME IInv, Begun, HostingAccount
    PROVE  [Record!Next]_(Record!vars)
<1> USE DEF Begun, rowVars, awsVars, apVars, bounds, Record!vars, Record!record,
            Record!world, Record!data
<1>1. CASE \/ ProvisionNotebook \/ NotebookInService \/ NotebookFails \/ AutoStop
           \/ NotebookStopped \/ DeleteNotebook
  BY <1>1
  DEF ProvisionNotebook, NotebookInService, NotebookFails, AutoStop, NotebookStopped,
      DeleteNotebook, NotebookMoves
<1>2. CASE NotebookDeleted
  <2>1. Record!Delete
    BY <1>2
    DEF NotebookDeleted, NotebookMoves, Record!Delete, IInv, DocumentsKnow
  <2> QED  BY <2>1 DEF Record!Next
<1>3. ASSUME NEW result \in {"succeeded", "failed", "aborted"}, LaunchDocEnds(result)
      PROVE  [Record!Next]_(Record!vars)
  <2>1. Record!Provisioned(result)
    BY <1>3 DEF LaunchDocEnds, Record!Provisioned, Record!NoRow, IInv, DocumentsKnow
  <2> QED  BY <2>1 DEF Record!Next, Record!Outcomes
<1>4. CASE ProvisioningSucceeds \/ ProvisioningFails \/ LaunchDocAborts
  BY <1>3, <1>4 DEF ProvisioningSucceeds, ProvisioningFails, LaunchDocAborts
<1>5. CASE TerminationSucceeds \/ TerminationFails \/ TerminateDocAborts
  BY <1>5 DEF TerminationSucceeds, TerminationFails, TerminateDocAborts, TerminateDocEnds
<1> QED  BY <1>1, <1>2, <1>4, <1>5 DEF HostingAccount

\* A request starts the termination, takes data away, and shows what it did.
LEMMA RequestMaps ==
    ASSUME IInv, Begun, AnsweredOnce, NEW r \in Req, Request(r)
    PROVE  [Record!Next]_(Record!vars)
<1> USE DEF rowVars, awsVars, apVars, bounds, Record!vars, Record!record,
            Record!world, Record!data
<1>0. TypeOK /\ req[r] \in RequestState \cup {NewRequest}
  BY DEF IInv, TypeOK
<1>1. ASSUME NEW op \in Op, Route(r, op) PROVE [Record!Next]_(Record!vars)
  <2>1. UNCHANGED <<row, launchDoc, terminateDoc, notebook, mounted, roleLinked, unmounted>>
    BY <1>1 DEF Route
  <2>2. CASE op = "terminate" /\ RouteAnswer(op, row.status) = "204"
    <3>1. terminateDoc # "none"
      BY <2>2 DEF RouteAnswer, IInv, RowKnows
    <3>2. req'[r].op = "terminate" /\ req'[r].reply = "204"
      BY <1>0, <1>1, <2>2 DEF Route, TypeOK
    <3>3. Record!Promise
      BY <2>1, <3>1, <3>2 DEF Record!Promise
    <3> QED  BY <3>3 DEF Record!Next
  <2>3. CASE ~(op = "terminate" /\ RouteAnswer(op, row.status) = "204")
    <3>1. Promised' = Promised
      BY <1>0, <1>1, <2>3, PromisedSame DEF Route, TypeOK, RouteAnswer, AnsweredOnce
    <3> QED  BY <2>1, <3>1 DEF Promised
  <2> QED  BY <2>2, <2>3
<1>2. CASE TerminateCall(r)
  <2>1. Promised' = Promised
    BY <1>0, <1>2, PromisedSame
    DEF TerminateCall, TypeOK, AnsweredOnce, RequestState, NewRequest
  <2>2. CASE terminateDoc = "none"
    <3>1. Record!StartEnding
      BY <1>2, <2>1, <2>2 DEF TerminateCall, Record!StartEnding, Promised
    <3> QED  BY <3>1 DEF Record!Next
  <2>3. CASE terminateDoc # "none"
    BY <1>2, <2>1, <2>3 DEF TerminateCall, Promised
  <2> QED  BY <2>2, <2>3
<1>3. CASE StartCall(r) \/ StopCall(r)
  <2>1. Promised' = Promised
    BY <1>0, <1>3, PromisedSame
    DEF StartCall, StopCall, NotebookCall, TypeOK, AnsweredOnce, RequestState, NewRequest
  <2> QED  BY <1>3, <2>1 DEF StartCall, StopCall, NotebookCall, Promised
<1>4. ASSUME NEW d \in Dataset, RemoveAccessPoint(r, d) PROVE [Record!Next]_(Record!vars)
  <2>1. Promised' = Promised
    BY <1>0, <1>4, PromisedSame
    DEF RemoveAccessPoint, TypeOK, AnsweredOnce, RequestState, NewRequest, Promised
  <2>2. Record!Remove(d)
    BY <1>4, <2>1 DEF RemoveAccessPoint, Record!Remove, Promised, IInv, RequestsKnow
  <2> QED  BY <2>2 DEF Record!Next
<1>5. ASSUME NEW d \in Dataset, SkipUnlistedEndpoint(r, d) PROVE [Record!Next]_(Record!vars)
  <2>1. Promised' = Promised
    BY <1>0, <1>5, PromisedSame
    DEF SkipUnlistedEndpoint, TypeOK, AnsweredOnce, RequestState, NewRequest
  <2> QED  BY <1>5, <2>1 DEF SkipUnlistedEndpoint, Promised
<1>6. CASE CleanupDone(r) \/ RequestFails(r)
  <2>1. ASSUME CleanupDone(r) PROVE Promised' = Promised
    BY <1>0, <2>1, PromisedSame
    DEF CleanupDone, TypeOK, AnsweredOnce, RequestState, NewRequest
  <2>2. ASSUME RequestFails(r) PROVE Promised' = Promised
    BY <1>0, <2>2, PromisedSame
    DEF RequestFails, TypeOK, AnsweredOnce, RequestState, NewRequest
  <2>3. Promised' = Promised
    BY <1>6, <2>1, <2>2
  <2> QED  BY <1>6, <2>3 DEF CleanupDone, RequestFails, Promised
<1>7. CASE WriteBack(r)
  <2>1. /\ req[r].op \in Op /\ row.launched /\ row \in RowState
        /\ req[r].op = "terminate" => terminateDoc # "none"
    BY <1>7, <1>0 DEF WriteBack, IInv, RequestsKnow, TypeOK
  <2>2. /\ row' = RowWith(InProgress[req[r].op]) /\ row.status # "NO_ROW"
        /\ UNCHANGED <<launchDoc, terminateDoc, notebook, mounted, roleLinked, unmounted>>
    BY <1>7 DEF WriteBack, Begun
  <2>3. CASE req[r].op = "terminate"
    <3>1. req'[r].op = "terminate" /\ req'[r].reply = "204"
      BY <1>0, <1>7, <2>3 DEF WriteBack, TypeOK, RequestState, NewRequest
    <3>2. Record!ShowAndPromise("TERMINATING")
      BY <2>1, <2>2, <2>3, <3>1
      DEF RowWith, InProgress, Record!ShowAndPromise, Record!NoRow
    <3>3. "TERMINATING" \in Record!ShownStatus
      BY DEF Record!ShownStatus, Record!ReachedStatus, Record!EndingStatus
    <3> QED  BY <3>2, <3>3 DEF Record!Next
  <2>4. CASE req[r].op # "terminate"
    <3>1. Promised' = Promised
      BY <1>0, <1>7, <2>4, PromisedSame
      DEF WriteBack, TypeOK, AnsweredOnce, RequestState, NewRequest
    <3>2. PICK status \in {"STARTING", "STOPPING"} : status = InProgress[req[r].op]
      BY <2>1, <2>4 DEF InProgress, Op
    <3>3. Record!Show(status)
      BY <2>1, <2>2, <3>1, <3>2
      DEF RowWith, Record!Show, Record!NoRow, Record!ReachedStatus, Record!EndingStatus,
          Promised, RowState
    <3>4. status \in Record!ShownStatus
      BY DEF Record!ShownStatus, Record!ReachedStatus
    <3> QED  BY <3>3, <3>4 DEF Record!Next
  <2> QED  BY <2>3, <2>4
<1> QED  BY <1>1, <1>2, <1>3, <1>4, <1>5, <1>6, <1>7 DEF Request

\* The status handler shows what its event says, admits the instance and records it.
LEMMA HandlerMaps ==
    ASSUME IInv, Begun, NEW h \in Handler, HandlerStep(h) \/ HandlerFails(h)
    PROVE  [Record!Next]_(Record!vars)
<1> USE DEF rowVars, awsVars, apVars, bounds, Record!vars, Record!record,
            Record!world, Record!data
<1>0. TypeOK  BY DEF IInv
<1>1. CASE ApplyStatus(h)
  <2> DEFINE ev == handler[h].ev
  <2>1. /\ ev \in Event /\ EventTrue(ev) /\ row \in RowState /\ row.status # "NO_ROW"
        /\ ev.op = "Launch" \/ row.launched
    BY <1>0, <1>1 DEF ApplyStatus, IInv, TypeOK, EventsTrue, HandlersKnow, Begun
  <2>2. ev.op = "Launch" => ev.status \in {"COMPLETED", "FAILED"}
    BY <2>1 DEF Event, EventsOf
  <2>3. /\ row' = RowAfter(ev)
        /\ UNCHANGED <<launchDoc, terminateDoc, notebook, mounted, roleLinked, unmounted, req>>
    BY <1>1 DEF ApplyStatus
  <2>4. ev.status \in Record!EndingStatus => terminateDoc # "none"
    BY <2>1, <2>2 DEF EventTrue, Record!EndingStatus, IInv, DocumentsKnow
  <2>5. Record!Show(ev.status)
    BY <2>1, <2>2, <2>3, <2>4
    DEF RowAfter, RowWith, Record!Show, Record!NoRow, Record!ReachedStatus,
        Record!EndingStatus, EventTrue, RowState
  <2>6. ev.status \in Record!ShownStatus
    BY <2>1 DEF Event, EventsOf, Record!ShownStatus, Record!ReachedStatus, Record!EndingStatus
  <2> QED  BY <2>5, <2>6 DEF Record!Next
<1>2. ASSUME NEW d \in Dataset, LinkRole(h, d) PROVE [Record!Next]_(Record!vars)
  <2>1. launchDoc = "succeeded"
    BY <1>2 DEF LinkRole, IInv, EventsTrue, EventTrue, HandlersKnow
  <2>2. Record!Admit(d)
    BY <1>2, <2>1 DEF LinkRole, Record!Admit
  <2> QED  BY <2>2 DEF Record!Next
<1>3. CASE RecordInstance(h)
  <2>1. launchDoc = "succeeded"
    BY <1>3 DEF RecordInstance, IInv, EventsTrue, EventTrue, HandlersKnow
  <2>2. roleLinked = Dataset
    BY <1>0, <1>3, <2>1 DEF RecordInstance, IInv, DocumentsKnow, TypeOK
  <2>3. Record!RecordInstance
    BY <1>0, <1>3, <2>1, <2>2
    DEF RecordInstance, Record!RecordInstance, Record!NoRow, Begun, TypeOK, RowState
  <2> QED  BY <2>3 DEF Record!Next
<1>4. CASE LinkInstance(h) \/ LinkEnvironment(h) \/ HandlerThrows(h) \/ HandlerFails(h)
  BY <1>4 DEF LinkInstance, LinkEnvironment, HandlerThrows, HandlerFails
<1> QED  BY <1>1, <1>2, <1>3, <1>4 DEF HandlerStep

\* Every step of the system is a step of the record or leaves it alone.
LEMMA StepMaps ==
    IInv /\ Begun /\ AnsweredOnce /\ [Next]_vars => [Record!Next]_(Record!vars)
<1> SUFFICES ASSUME IInv, Begun, AnsweredOnce, [Next]_vars
             PROVE  [Record!Next]_(Record!vars)
  OBVIOUS
<1>1. CASE Delivery \/ Tick \/ UNCHANGED vars
  BY <1>1
  DEF Delivery, Deliver, Tick, vars, rowVars, awsVars, apVars, Record!vars, Record!record,
      Record!world, Record!data
<1> QED
  BY <1>1, LauncherMaps, HostingAccountMaps, RequestMaps, HandlerMaps DEF Next

\* The environment lifecycle implements the record: whatever the interleaving of
\* requests, documents, events and crashes, readers see a record that keeps its
\* promises step by step.
THEOREM Refinement == Spec => ImplementsRecord
<1>1. Init => AnsweredOnce
  BY DEF Init, AnsweredOnce, NewRequest
<1>2. Spec => [](IInv /\ Begun /\ AnsweredOnce)
  <2>1. IInv => TypeOK  BY DEF IInv
  <2>2. Spec => []IInv  BY Invariance
  <2>3. Init => Begun /\ AnsweredOnce  BY <1>1, BegunInit
  <2>4. IInv /\ Begun /\ AnsweredOnce /\ [Next]_vars => Begun' /\ AnsweredOnce'
    BY <2>1, BegunStep, AnsweredStep
  <2> QED  BY <2>2, <2>3, <2>4, PTL DEF Spec
<1> QED  BY <1>2, InitMaps, StepMaps, PTL DEF Spec, ImplementsRecord, Record!Spec
================================================================================
