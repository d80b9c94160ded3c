---------------------------- MODULE CatalogClients ----------------------------
(***************************************************************************)
(* The catalog with its clients: one that reads lists through the API, the *)
(* page that lists environments, the form that creates one, and the calls  *)
(* that make datasets.                                                     *)
(***************************************************************************)
EXTENDS EnvironmentsPage, NewEnvironmentForm, DataSets

vars == <<catalogVars, pageVars, formVars, dataSetVars>>

Init == CatalogInit /\ PageInit /\ FormInit /\ DataSetInit

Next ==
    \/ CatalogNext /\ UNCHANGED <<pageVars, formVars, dataSetVars>>
    \/ PageNext /\ UNCHANGED <<catalogVars, formVars, dataSetVars>>
    \/ focus = "form" /\ FormStep /\ UNCHANGED <<catalogVars, pageVars, dataSetVars>>
    \/ focus = "form" /\ (\E id \in Id : Submitted(id)) /\ UNCHANGED <<focus, pageVars, dataSetVars>>
    \/ focus = "dataset" /\ DataSetStep /\ UNCHANGED <<pageVars, formVars>>

Spec == Init /\ [][Next]_vars

\* Every row and every state of the clients is well formed.
TypeOK == CatalogTypeOK /\ PageTypeOK /\ FormTypeOK /\ DataSetTypeOK

\* The inductive invariant: what the services, the reader of a list, the page, the
\* form and the calls know stays true while rows are created and updated.
IInv ==
    /\ TypeOK
    /\ WriterKnows /\ ConfigOfParent
    /\ ListGoesOn
    /\ TokensCarryViews /\ ButtonsHaveRows /\ SpinnerMeansRequest
    /\ FormKnows
    /\ NamesHeld /\ OneDataSetPerName
================================================================================
