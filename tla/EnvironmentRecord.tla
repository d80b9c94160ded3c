--------------------------- MODULE EnvironmentRecord ---------------------------
(***************************************************************************)
(* What the record of an environment promises its readers, whatever the    *)
(* messages, requests and failures behind it: the abstract specification   *)
(* that EnvironmentLifecycle implements.                                   *)
(***************************************************************************)
CONSTANT Dataset     \* the datasets the environment asks for

VARIABLES
    shown,      \* the status readers see, NoRow before there is one
    listed,     \* the environment is in the listing
    usable,     \* its instance is recorded: it can be connected to, stopped, terminated
    outcome,    \* of the provisioning: pending, succeeded, failed or aborted
    ending,     \* its termination was started
    gone,       \* its instance is deleted
    mounted,    \* datasets made accessible for it
    admitted,   \* datasets that admit its instance
    removed,    \* datasets taken away again
    promised    \* a user was told that it terminates

record == <<shown, listed, usable>>
world  == <<outcome, ending, gone>>
data   == <<mounted, admitted, removed>>
vars   == <<record, world, data, promised>>

NoRow == "NO_ROW"
Outcomes == {"succeeded", "failed", "aborted"}
EndingStatus == {"TERMINATING", "TERMINATED", "TERMINATING_FAILED"}
\* statuses that only an instance that can be reached may have
ReachedStatus == EndingStatus \cup {"STARTING", "STOPPING", "STOPPED"}
ShownStatus == ReachedStatus \cup
    {"PENDING", "COMPLETED", "FAILED", "STARTING_FAILED", "STOPPING_FAILED"}

Init ==
    /\ shown = NoRow /\ listed = FALSE /\ usable = FALSE
    /\ outcome = "pending" /\ ending = FALSE /\ gone = FALSE
    /\ mounted = {} /\ admitted = {} /\ removed = {} /\ promised = FALSE

Create ==
    /\ shown = NoRow
    /\ shown' = "PENDING" /\ listed' = TRUE
    /\ UNCHANGED <<usable, world, data, promised>>

\* A status is shown when what it says of the instance is so; the last one
\* takes the environment out of the listing, for good.
Show(status) ==
    /\ shown # NoRow
    /\ status \in ReachedStatus => usable
    /\ status \in EndingStatus => ending
    /\ status = "TERMINATED" => gone
    /\ shown' = status
    /\ listed' = (listed /\ status # "TERMINATED")
    /\ UNCHANGED <<usable, world, data, promised>>

\* The instance is recorded once it has all its data, and never forgotten.
RecordInstance ==
    /\ shown # NoRow
    /\ outcome = "succeeded" /\ admitted = Dataset
    /\ usable' = TRUE
    /\ UNCHANGED <<shown, listed, world, data, promised>>

Mount(d) ==
    /\ shown # NoRow
    /\ mounted' = mounted \cup {d}
    /\ UNCHANGED <<record, world, admitted, removed, promised>>

Provisioned(result) ==
    /\ shown # NoRow
    /\ outcome = "pending" /\ mounted = Dataset
    /\ outcome' = result
    /\ UNCHANGED <<record, ending, gone, data, promised>>

Admit(d) ==
    /\ outcome = "succeeded" /\ d \notin removed
    /\ admitted' = admitted \cup {d}
    /\ UNCHANGED <<record, world, mounted, removed, promised>>

StartEnding ==
    /\ usable
    /\ ending' = TRUE
    /\ UNCHANGED <<record, outcome, gone, data, promised>>

Promise ==
    /\ ending
    /\ promised' = TRUE
    /\ UNCHANGED <<record, world, data>>

\* the answer to a request that itself showed the status
ShowAndPromise(status) ==
    /\ usable /\ ending /\ shown # NoRow
    /\ status = "TERMINATING"
    /\ shown' = status /\ promised' = TRUE
    /\ UNCHANGED <<listed, usable, world, data>>

Remove(d) ==
    /\ ending /\ d \in mounted
    /\ removed' = removed \cup {d}
    /\ UNCHANGED <<record, world, mounted, admitted, promised>>

Delete ==
    /\ ending \/ outcome = "failed"
    /\ gone' = TRUE
    /\ UNCHANGED <<record, outcome, ending, data, promised>>

Next ==
    \/ Create \/ RecordInstance \/ StartEnding \/ Promise \/ Delete
    \/ \E status \in ShownStatus : Show(status) \/ ShowAndPromise(status)
    \/ \E result \in Outcomes : Provisioned(result)
    \/ \E d \in Dataset : Mount(d) \/ Admit(d) \/ Remove(d)

Spec == Init /\ [][Next]_vars
================================================================================
