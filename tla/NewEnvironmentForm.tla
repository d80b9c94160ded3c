-------------------------- MODULE NewEnvironmentForm --------------------------
(***************************************************************************)
(* The form that creates an environment                                    *)
(* (swb-ui/src/pages/environments/new.tsx): a type is chosen from the list *)
(* of types, a configuration from the list of that type's configurations,  *)
(* and the environment is created from both.  The lists are answers of     *)
(* useSWR, as old as they may be.                                          *)
(***************************************************************************)
EXTENDS Catalog

VARIABLE
    form   \* formData, the answers the form shows, and whether it is being submitted

formVars == <<form>>

Nothing == 0

EmptyForm ==
    [types |-> {}, configs |-> [type \in Id |-> {}], filled |-> FALSE,
     type |-> Nothing, config |-> Nothing, pc |-> "editing"]

\* the first page of a list, which is all that the form asks for
FirstRows(q) == Page(table, q).items

Approved == 1   \* a value of a type's label, which stands for its status here

\* useEnvironmentType: types that are not approved are not shown
TypesAnswered ==
    form' = [form EXCEPT !.types =
        {row.id : row \in {r \in FirstRows(ListEnvironmentTypes(0)) : r.label = Approved}}]

\* useEnvTypeConfigs: asked for when a type is chosen
ConfigsAnswered(type) ==
    /\ form.type = type /\ type # Nothing
    /\ form' = [form EXCEPT !.configs[type] =
                  {row.id : row \in FirstRows(ListEnvironmentTypeConfigs(type, 0))}]

\* Mutant of OnSelectEnvType: the configuration stays chosen.
OnSelectEnvTypeKeepingConfig(type) ==
    /\ form.pc = "editing" /\ type \in form.types
    /\ form' = [form EXCEPT !.type = type]

\* onSelectEnvType: the configuration has to be chosen again
OnSelectEnvType(type) ==
    /\ form.pc = "editing" /\ type \in form.types
    /\ form' = [form EXCEPT !.type = type, !.config = Nothing]

OnSelectEnvTypeConfig(config) ==
    /\ form.pc = "editing" /\ form.type # Nothing /\ config \in form.configs[form.type]
    /\ form' = [form EXCEPT !.config = config]

\* name, project and description, which follow rules of their own
FillIn ==
    /\ form.pc = "editing"
    /\ \E filled \in BOOLEAN : form' = [form EXCEPT !.filled = filled]

\* validationRules, checked again whenever formData changes
CanSubmit == form.filled /\ form.type # Nothing /\ form.config # Nothing

SubmitForm ==
    /\ form.pc = "editing" /\ CanSubmit
    /\ form' = [form EXCEPT !.pc = "submitting"]

\* the request was refused or failed
SubmitFails ==
    /\ form.pc = "submitting"
    /\ form' = [form EXCEPT !.pc = "editing"]

\* createEnvironment, for the type and configuration that were sent
Submitted(id) ==
    /\ form.pc = "submitting"
    /\ CreateEnvironment(id, 1, 1)
    /\ form' = EmptyForm

FormInit == form = EmptyForm

FormStep ==
    \/ TypesAnswered \/ FillIn \/ SubmitForm \/ SubmitFails
    \/ \E type \in Id : OnSelectEnvType(type) \/ ConfigsAnswered(type)
    \/ \E config \in Id : OnSelectEnvTypeConfig(config)

(***************************************************************************)
(* Properties                                                              *)
(***************************************************************************)
FormTypeOK ==
    /\ DOMAIN form = {"types", "configs", "filled", "type", "config", "pc"}
    /\ form.types \subseteq Id /\ form.pc \in {"editing", "submitting"}
    /\ form.type \in Id \cup {Nothing} /\ form.config \in Id \cup {Nothing}

\* The lists of configurations that the form has may be old, but what they have is
\* true for good: a configuration stays one of its type.
FormKnows ==
    /\ DOMAIN form.configs = Id
    /\ \A type \in Id : \A config \in form.configs[type] :
          \E row \in OfKind("envTypeConfig") : row.id = config /\ row.parent = type
    /\ form.config # Nothing =>
          \E row \in OfKind("envTypeConfig") : row.id = form.config /\ row.parent = form.type

\* What can be submitted can be created: the chosen configuration is one of the
\* chosen type's, however old the lists are and however often the choice changed.
ConfigOfType ==
    CanSubmit => \E row \in OfKind("envTypeConfig") : row.id = form.config /\ row.parent = form.type
================================================================================
