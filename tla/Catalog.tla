-------------------------------- MODULE Catalog --------------------------------
(***************************************************************************)
(* Environment types, their configurations, and the lists that are read a  *)
(* page at a time while rows are created and updated                       *)
(* (environmentTypeService.ts, environmentTypeConfigService.ts,            *)
(* environmentService.ts).                                                 *)
(***************************************************************************)
EXTENDS Table

CONSTANTS
    Id,          \* identifiers of rows; a new one is any that is not used
    Label,       \* values of the attributes that may be updated
    Product,     \* Service Catalog products
    Person,      \* user ids; a number each, since indexes sort by them
    PageSize,    \* page sizes that are asked for
    FewIds,      \* bound: rows made while the buttons are used; environments whose status changes
    MaxNow,      \* bound: the clock
    MaxFaults    \* bound: reads that fail

NoProduct == "no product"

ASSUME CatalogAssumption ==
    /\ Id \subseteq Nat /\ FewIds \subseteq Id /\ Label \subseteq Nat /\ Person \subseteq Nat
    /\ PageSize \subseteq Nat /\ MaxNow \in Nat \ {0} /\ MaxFaults \in Nat
    /\ Undefined \notin Product \cup {NoProduct}

VARIABLES
    table,    \* rows
    now,      \* the time, in milliseconds
    writer,   \* a request that has read and not yet written
    lister,   \* a client that reads a list to its end
    faults,
    focus     \* bound: the list, or the page of the browser, that this behaviour uses

catalogVars == <<table, now, writer, lister, faults, focus>>

Idle == [pc |-> "idle"]

Key(kind, id) == [kind |-> kind, id |-> id]
OfKind(kind) == {row \in table : row.kind = kind}
IsFree(id) == \A row \in table : row.id # id

Write(key, item) == table' = UpdateItem(table, key, item, now)

(***************************************************************************)
(* EnvironmentTypeService                                                  *)
(***************************************************************************)
CreateEnvironmentType(id, product, label) ==
    /\ IsFree(id)
    /\ Write(Key("envType", id), [createdAt |-> now, product |-> product, label |-> label])
    /\ UNCHANGED <<now, writer, lister, faults>>

\* Mutant of AttributesAllowedToUpdate: the product may be updated as well.
AttributesAllowedOfAll(kind) == {"label", "product"}

\* description, name, status of a type; description, name of a configuration
AttributesAllowedToUpdate(kind) == {"label"}

\* Mutant of UpdateReads: the row does not have to be there.
UpdateReadsNothing(kind, id, values) ==
    /\ writer = Idle
    /\ DOMAIN values \subseteq AttributesAllowedToUpdate(kind)
    /\ writer' = [pc |-> "updating", key |-> Key(kind, id), values |-> values]
    /\ UNCHANGED <<table, now, lister, faults>>

\* updateEnvironmentType, updateEnvironmentTypeConfig: other attributes are refused,
\* and a row that is not found is not updated
UpdateReads(kind, id, values) ==
    /\ writer = Idle
    /\ DOMAIN values \subseteq AttributesAllowedToUpdate(kind)
    /\ Exists(table, Key(kind, id))
    /\ writer' = [pc |-> "updating", key |-> Key(kind, id), values |-> values]
    /\ UNCHANGED <<table, now, lister, faults>>

\* The update sends a createdAt of its own, which the Updater drops.
UpdateWrites ==
    /\ writer.pc = "updating"
    /\ Write(writer.key, [a \in DOMAIN writer.values \cup {"createdAt"} |->
                            IF a = "createdAt" THEN now ELSE writer.values[a]])
    /\ writer' = Idle
    /\ UNCHANGED <<now, lister, faults>>

UpdateEnvironmentType(id, values) == UpdateReads("envType", id, values)

UpdateEnvironmentTypeConfig(id, label) == UpdateReads("envTypeConfig", id, [label |-> label])

(***************************************************************************)
(* EnvironmentTypeConfigService.createNewEnvironmentTypeConfig             *)
(***************************************************************************)
CreateConfigReads(parent) ==
    /\ writer = Idle
    /\ Exists(table, Key("envType", parent))
    /\ writer' = [pc |-> "creating", parent |-> parent,
                  product |-> GetItem(table, Key("envType", parent)).product]
    /\ UNCHANGED <<table, now, lister, faults>>

\* Only "not found" stops the request: after another error it goes on without a product.
CreateConfigReadFails(parent) ==
    /\ writer = Idle
    /\ faults < MaxFaults
    /\ faults' = faults + 1
    /\ writer' = [pc |-> "creating", parent |-> parent, product |-> NoProduct]
    /\ UNCHANGED <<table, now, lister>>

CreateConfigWrites(id, label) ==
    /\ writer.pc = "creating"
    /\ IsFree(id)
    /\ Write(Key("envTypeConfig", id),
             [createdAt |-> now, product |-> writer.product, parent |-> writer.parent,
              label |-> label])
    /\ writer' = Idle
    /\ UNCHANGED <<now, lister, faults>>

(***************************************************************************)
(* Environments: their rows, as far as lists show them.                    *)
(***************************************************************************)
CreateEnvironment(id, person, label) ==
    /\ IsFree(id)
    /\ Write(Key("environment", id),
             [createdAt |-> now, owner |-> person, name |-> label, status |-> 1,
              instanceId |-> Undefined])
    /\ UNCHANGED <<now, writer, lister, faults>>

\* updateEnvironment, for a status handler's event
UpdateEnvironment(id, status) ==
    /\ Exists(table, Key("environment", id))
    /\ Write(Key("environment", id), [status |-> status])
    /\ UNCHANGED <<now, writer, lister, faults>>

(***************************************************************************)
(* The lists.  A page of zero rows means the default size.                 *)
(***************************************************************************)
Limit(size) == IF size > 0 THEN size ELSE 50

ListEnvironmentTypes(size) ==
    [QueryParams("getResourceByCreatedAt", "kind", "envType") EXCEPT !.limit = Limit(size)]

ListEnvironmentTypeConfigs(parent, size) ==
    [QueryParams(Undefined, "kind", "envTypeConfig") EXCEPT
        !.sortKey = "sk", !.condition = Begins(parent), !.limit = Limit(size)]

\* _setFilter, _setRangeFilter, _setSort
SetFilter(q, index, value) ==
    [q EXCEPT !.index = index, !.sortKey = SortAttribute(index), !.condition = Eq(value)]
SetRangeFilter(q, index, low, high) ==
    [q EXCEPT !.index = index, !.sortKey = SortAttribute(index), !.condition = Between(low, high)]
SetSort(q, index, forward) ==
    [q EXCEPT !.index = index, !.sortKey = SortAttribute(index), !.forward = forward]

Environments(size) ==
    [QueryParams("getResourceByCreatedAt", "kind", "environment") EXCEPT !.limit = Limit(size)]

\* Mutant of NonAdminQuery: what the request asks for comes first.
NonAdminQueryAsAsked(q, person, index, label) ==
    IF index = "getResourceByName" THEN SetFilter(q, index, label)
    ELSE SetFilter(q, "getResourceByOwner", person)

\* A filter or sort of somebody who is not an Admin is left aside.
NonAdminQuery(q, person, index, label) == SetFilter(q, "getResourceByOwner", person)

\* the queries listEnvironments makes; asked with a filter and a sort it throws
AdminQueries(q) ==
    {q}
    \cup {SetFilter(q, "getResourceByStatus", status) : status \in 1..2}
    \cup {SetFilter(q, "getResourceByName", label) : label \in Label}
    \cup {SetFilter(q, "getResourceByOwner", person) : person \in Person}
    \cup {SetRangeFilter(q, "getResourceByCreatedAt", 1, high) : high \in 1..MaxNow}
    \cup {SetSort(q, index, forward) :
            index \in {"getResourceByStatus", "getResourceByName", "getResourceByCreatedAt",
                       "getResourceByOwner"},
            forward \in BOOLEAN}

NobodysList == [pc |-> "idle"]

\* person: who may see the rows only if they own them; 0 for a list without owners
\* there: ids the list had to show when it began; seen: those it showed; again: on two pages
Reads(person, q) ==
    lister' = [pc |-> "reading", person |-> person, query |-> q, token |-> NoKey,
               there |-> {row.id : row \in {r \in table : Satisfies(r, Query(q))}},
               seen |-> {}, again |-> {}]

BeginTypes(size) ==
    lister = NobodysList /\ Reads(0, ListEnvironmentTypes(size)) /\ UNCHANGED <<table, now, writer, faults>>

BeginConfigs(parent, size) ==
    lister = NobodysList /\ Reads(0, ListEnvironmentTypeConfigs(parent, size))
    /\ UNCHANGED <<table, now, writer, faults>>

BeginEnvironments(size) ==
    /\ lister = NobodysList
    /\ \/ \E q \in AdminQueries(Environments(size)) : Reads(0, q)
       \/ \E person \in Person, index \in {"getResourceByName", "getResourceByStatus"}, label \in Label :
            Reads(person, NonAdminQuery(Environments(size), person, index, label))
    /\ UNCHANGED <<table, now, writer, faults>>

ReadPage ==
    /\ lister.pc = "reading"
    /\ LET page == Page(table, AddPaginationToken(lister.token, lister.query))
           shown == {row.id : row \in page.items}
       IN  lister' = [lister EXCEPT
         !.seen = lister.seen \cup shown,
         !.again = lister.again \cup (lister.seen \cap shown),
         !.token = GetPaginationToken(page),
         !.pc = IF GetPaginationToken(page) = NoKey THEN "read" ELSE "reading"]
    /\ UNCHANGED <<table, now, writer, faults>>

Tick ==
    /\ now < MaxNow
    /\ now' = now + 1
    /\ UNCHANGED <<table, writer, lister, faults>>

CatalogInit ==
    /\ table = {} /\ now = 1 /\ writer = Idle /\ lister = NobodysList /\ faults = 0
    /\ focus \in {"envType", "envTypeConfig", "environment", "page", "buttons", "form", "dataset"}

TypeStep ==
    \/ \E id \in Id, product \in Product, label \in Label : CreateEnvironmentType(id, product, label)
    \/ \E id \in Id, values \in [{"label"} -> Label] \cup [{"product"} -> Product] :
          UpdateEnvironmentType(id, values)
    \/ UpdateWrites
    \/ focus = "envType" /\ \E size \in PageSize : BeginTypes(size)

ConfigStep ==
    \/ \E parent \in Id : CreateConfigReads(parent) \/ CreateConfigReadFails(parent)
    \/ \E id \in Id, label \in Label : CreateConfigWrites(id, label)
    \/ \E id \in Id, label \in Label : UpdateEnvironmentTypeConfig(id, label)
    \/ \E parent \in Id, size \in PageSize : BeginConfigs(parent, size)

EnvironmentStep ==
    \/ \E id \in Id, person \in Person, label \in Label : CreateEnvironment(id, person, label)
    \/ \E id \in FewIds : UpdateEnvironment(id, 2)
    \/ \E size \in PageSize : BeginEnvironments(size)

FormRows ==
    \/ \E id \in Id, product \in Product : CreateEnvironmentType(id, product, 1)
    \/ \E parent \in Id : CreateConfigReads(parent)
    \/ \E id \in Id : CreateConfigWrites(id, 1)

\* bound: a behaviour ends with the list it reads; the rows that the browser shows
\* are made by one person, and change their status only while the buttons are used
CatalogNext ==
    /\ lister.pc # "read"
    /\ \/ focus \in {"envType", "envTypeConfig"} /\ TypeStep
       \/ focus = "envTypeConfig" /\ ConfigStep
       \/ focus = "environment" /\ EnvironmentStep
       \/ focus = "form" /\ FormRows
       \/ focus = "page" /\ \E id \in Id : CreateEnvironment(id, 1, 1)
       \/ focus = "buttons" /\ \E id \in FewIds : 
          CreateEnvironment(id, 1, 1) \/ UpdateEnvironment(id, 1) \/ UpdateEnvironment(id, 2)
       \/ ReadPage
       \/ focus \in {"envType", "envTypeConfig", "environment"} /\ Tick
    /\ UNCHANGED focus

(***************************************************************************)
(* Properties                                                              *)
(***************************************************************************)
Attributes(kind) ==
    CASE kind = "envType" -> {"kind", "id", "createdAt", "product", "label"}
      [] kind = "envTypeConfig" -> {"kind", "id", "createdAt", "product", "label", "parent"}
      [] kind = "dataset" -> {"kind", "id", "createdAt", "name", "path"}
      [] kind = "environment" -> {"kind", "id", "createdAt", "owner", "name", "status"}

RowOK(row) ==
    /\ row.kind \in {"envType", "envTypeConfig", "environment", "dataset"}
    /\ DOMAIN row = Attributes(row.kind)
    /\ row.id \in Id /\ row.createdAt \in 1..now
    /\ "product" \in DOMAIN row => row.product \in Product \cup {NoProduct}
    /\ \A a \in DOMAIN row \cap {"parent", "owner", "name", "status"} : row[a] \in Nat

\* Every row has all attributes of its kind: an update, which creates a row that is
\* not there, is never sent for one.
CatalogTypeOK ==
    /\ IsFiniteSet(table) /\ \A row \in table : RowOK(row)
    /\ \A r, s \in table : r.id = s.id => r = s
    /\ now \in 1..MaxNow /\ faults \in 0..MaxFaults
    /\ writer.pc \in {"idle", "updating", "creating"} /\ lister.pc \in {"idle", "reading", "read"}
    /\ lister.pc # "idle" =>
          DOMAIN lister = {"pc", "person", "query", "token", "there", "seen", "again"}

\* Whoever reads a list page by page sees every row that was there at the beginning,
\* and no row twice, while rows are created and updated, in the same millisecond
\* too.  A list by status is excepted: environments change their status.
ListedOnce ==
    lister.pc = "read" /\ lister.query.sortKey # "status" =>
        /\ lister.again = {}
        /\ lister.there \subseteq lister.seen

\* Somebody who is not an Admin is shown environments of their own only, whatever
\* filter and sort the request has.
OwnEnvironmentsOnly ==
    lister.pc # "idle" =>
        \A row \in table :
            row.id \in lister.seen /\ lister.person # 0 => row.owner = lister.person

\* A configuration has the product of its environment type, now and not only when
\* it was made, or none if the type could not be read.
ConfigOfParent ==
    \A row \in OfKind("envTypeConfig") :
        \/ row.product = NoProduct /\ faults > 0
        \/ \E parent \in OfKind("envType") :
              parent.id = row.parent /\ parent.product = row.product

(***************************************************************************)
(* The inductive invariant                                                 *)
(***************************************************************************)
\* A request that has read still finds what it read: rows are never taken out, and
\* the product of a type stays.
WriterKnows ==
    /\ writer.pc = "idle" => writer = Idle
    /\ writer.pc = "updating" =>
          /\ writer.key.kind \in {"envType", "envTypeConfig"}
          /\ Exists(table, writer.key)
          /\ DOMAIN writer.values \subseteq {"label"}
    /\ writer.pc = "creating" =>
          /\ writer.parent \in Id
          /\ \/ writer.product = NoProduct /\ faults > 0
             \/ \E parent \in OfKind("envType") :
                   parent.id = writer.parent /\ parent.product = writer.product

\* The queries of the lists: rows of one kind, in the order of an index they are in, and a
\* condition on the attribute that orders them or on the beginning of sk.
ListQuery(q) ==
    /\ DOMAIN q = {"index", "key", "value", "sortKey", "condition", "start", "limit", "forward"}
    /\ q.value \in {"envType", "envTypeConfig", "environment"}
    /\ SortAttribute(q.index) \in Attributes(q.value)
    /\ q.key = "kind" /\ q.start = NoKey /\ q.limit \in Nat /\ q.forward \in BOOLEAN
    /\ \/ /\ q.condition = NoCondition
          /\ \/ q.index = "getResourceByCreatedAt"
             \/ q.index \in Index /\ q.sortKey = SortAttribute(q.index)
       \/ /\ q.index \in Index /\ q.sortKey = SortAttribute(q.index)
          /\ q.condition.op \in {"=", "BETWEEN"}
       \/ q.index = Undefined /\ q.sortKey = "sk" /\ q.condition.op = "begins_with"

\* How far a list has been read: what was shown is still found and does not follow the
\* token, and what is still to be shown does.
ListGoesOn ==
    /\ lister.pc = "idle" => lister = NobodysList
    /\ lister.pc # "idle" =>
          /\ ListQuery(lister.query)
          /\ lister.token = NoKey \/ lister.token \in Nat \X Nat
          /\ lister.person # 0 =>
                lister.query.index = "getResourceByOwner" /\ lister.query.condition = Eq(lister.person)
    /\ lister.pc # "idle" /\ lister.query.sortKey # "status" =>
          LET q == lister.query
              found == Found(table, q)
              rest == Found(table, AddPaginationToken(lister.token, q))
          IN
          /\ lister.again = {}
          /\ \A id \in lister.seen : \E row \in found :
                /\ row.id = id
                /\ lister.pc = "reading" =>
                      /\ lister.token # NoKey
                      /\ ~Follows(Position(row, q.index), lister.token, q.forward)
          /\ \A id \in lister.there :
                \/ id \in lister.seen
                \/ lister.pc = "reading" /\ \E row \in rest : row.id = id
================================================================================
