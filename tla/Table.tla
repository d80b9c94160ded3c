--------------------------------- MODULE Table ---------------------------------
(***************************************************************************)
(* The DynamoDB table as the services use it: what the request builders    *)
(* (query.ts, updater.ts, dynamoDBService.ts) ask for, and what DynamoDB   *)
(* answers.  A row is a function from the attributes it has to values; the *)
(* attribute id stands for the identifier in its keys, which is random.    *)
(***************************************************************************)
EXTENDS Integers, FiniteSets

CONSTANT Undefined   \* what JavaScript calls undefined: no attribute, no index

Index == {"getResourceByCreatedAt", "getResourceByStatus", "getResourceByName",
          "getResourceByDependency", "getResourceByOwner", "getResourceByType"}

ASSUME TableAssumption == Undefined \notin Index \cup Nat

NoKey == <<>>

(***************************************************************************)
(* DynamoDBService.query: its parameters.                                  *)
(***************************************************************************)
NoCondition == [op |-> "none", values |-> <<>>]
Eq(value) == [op |-> "=", values |-> <<value>>]
Between(low, high) == [op |-> "BETWEEN", values |-> <<low, high>>]
Begins(value) == [op |-> "begins_with", values |-> <<value>>]

\* params of a query on an index; the other fields are added with EXCEPT
QueryParams(index, key, value) ==
    [index |-> index, key |-> key, value |-> value, sortKey |-> Undefined,
     condition |-> NoCondition, start |-> NoKey, limit |-> 0, forward |-> TRUE]

(***************************************************************************)
(* Query.  Conditions are joined by AND; their values have placeholders    *)
(* named after the attributes.                                             *)
(***************************************************************************)
NewQuery == [expression |-> {}, values |-> [placeholder \in {} |-> Undefined]]

\* A placeholder is an attribute and a number, 0 for none; a later value of a
\* placeholder replaces an earlier one.
WithValue(query, placeholder, value) ==
    [expression |-> query.expression,
     values |-> [p \in DOMAIN query.values \cup {placeholder} |->
                   IF p = placeholder THEN value ELSE query.values[p]]]

SetCondition(query, attribute, op) ==
    [expression |-> query.expression \cup {[attribute |-> attribute, op |-> op]},
     values |-> query.values]

InternalExpression(query, attribute, op, value) ==
    WithValue(SetCondition(query, attribute, op), <<attribute, 0>>, value)

BetweenExpression(query, attribute, values) ==
    WithValue(WithValue(SetCondition(query, attribute, "BETWEEN"),
                        <<attribute, 1>>, values[1]),
              <<attribute, 2>>, values[2])

\* the query that DynamoDBService.query builds
Query(params) ==
    LET keyed == InternalExpression(NewQuery, params.key, "=", params.value)
    IN  CASE params.condition.op = "none" -> keyed
          [] params.condition.op = "BETWEEN" ->
                BetweenExpression(keyed, params.sortKey, params.condition.values)
          [] params.condition.op \in {"=", "begins_with"} ->
                InternalExpression(keyed, params.sortKey, params.condition.op,
                                   params.condition.values[1])

\* the sort attribute of an index; the table itself is sorted by sk, which is the
\* identifier of a row among those with one partition key
SortAttribute(index) ==
    CASE index = "getResourceByCreatedAt" -> "createdAt"
      [] index = "getResourceByStatus" -> "status"
      [] index = "getResourceByName" -> "name"
      [] index = "getResourceByDependency" -> "dependency"
      [] index = "getResourceByOwner" -> "owner"
      [] index = "getResourceByType" -> "type"
      [] index = Undefined -> "id"

\* A condition of KeyConditionExpression.  The only key that begins with something is
\* the sk of a configuration, which begins with its type.
ConditionMet(row, query, c) ==
    LET attribute == IF c.op = "begins_with" THEN "parent" ELSE c.attribute
    IN  /\ attribute \in DOMAIN row
        /\ row[attribute] \in
             IF c.op = "BETWEEN"
             THEN query.values[<<c.attribute, 1>>] .. query.values[<<c.attribute, 2>>]
             ELSE {query.values[<<c.attribute, 0>>]}

Satisfies(row, query) == \A c \in query.expression : ConditionMet(row, query, c)

\* where a row stands in an index: rows with equal sort keys stand in a fixed order
Position(row, index) == <<row[SortAttribute(index)], row.id>>

Before(p, q) == p[1] < q[1] \/ (p[1] = q[1] /\ p[2] < q[2])
Follows(p, q, forward) == IF forward THEN Before(q, p) ELSE Before(p, q)

\* the rows that have the index's attribute, meet the conditions and follow the start
Found(table, q) ==
    LET query == Query(q) IN
    {row \in table : /\ SortAttribute(q.index) \in DOMAIN row
                     /\ Satisfies(row, query)
                     /\ q.start = NoKey \/ Follows(Position(row, q.index), q.start, q.forward)}

\* row r stands after row s
After(r, s, q) == Follows(Position(r, q.index), Position(s, q.index), q.forward)

\* Query.execute: at most limit rows if there is a limit, and the position of the last
\* one when the limit was reached
Page(table, q) ==
    LET found == Found(table, q)
        full == q.limit # 0 /\ q.limit <= Cardinality(found)
        items == {r \in found : full => Cardinality({s \in found : After(r, s, q)}) < q.limit}
        last == CHOOSE r \in items : \A s \in items : ~After(s, r, q)
    IN  [items |-> items, lastKey |-> IF full THEN Position(last, q.index) ELSE NoKey]

(***************************************************************************)
(* paginationHelper.ts: the token is the key, encoded                      *)
(***************************************************************************)
AddPaginationToken(token, q) == IF token = NoKey THEN q ELSE [q EXCEPT !.start = token]

GetPaginationToken(page) == page.lastKey

(***************************************************************************)
(* DynamoDBService.update and Updater: an unconditional UpdateItem, which  *)
(* creates the row when there is none.                                     *)
(***************************************************************************)
Defined(item) == {a \in DOMAIN item : item[a] # Undefined}

\* Mutant of Assigned: createdAt is an attribute like any other.
AssignedAll(item) == Defined(item) \ {"kind", "id"}

\* Updater.item: keys and timestamps are not assigned
Assigned(item) == Defined(item) \ {"kind", "id", "createdAt"}

\* #createdAt = if_not_exists(#createdAt, :createdAt), when anything is assigned
Timestamps(item) == IF Assigned(item) = {} THEN {} ELSE {"createdAt"}

\* toParams: all assignments are one SET
Updated(row, item, now) ==
    [a \in Assigned(item) \cup DOMAIN row \cup Timestamps(item) |->
       IF a \in Assigned(item) THEN item[a] ELSE IF a \in DOMAIN row THEN row[a] ELSE now]

Rows(table, key) == {row \in table : row.kind = key.kind /\ row.id = key.id}

UpdateItem(table, key, item, now) ==
    (table \ Rows(table, key))
    \cup {Updated(IF Rows(table, key) = {} THEN key ELSE CHOOSE row \in Rows(table, key) : TRUE,
                  item, now)}

\* DynamoDBService.get and Getter
Exists(table, key) == Rows(table, key) # {}
GetItem(table, key) == CHOOSE row \in Rows(table, key) : TRUE
================================================================================
