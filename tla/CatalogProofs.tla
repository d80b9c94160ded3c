------------------------------ MODULE CatalogProofs ------------------------------
(***************************************************************************)
(* Proofs about the table and its clients, for any rows, page sizes,       *)
(* persons, calls and numbers of failures.                                 *)
(*                                                                         *)
(* First what a query and an update of the table do; then how the table    *)
(* evolves, which is all that its clients need to know of each other; then *)
(* the clients one after the other.                                        *)
(***************************************************************************)
EXTENDS CatalogClients, FiniteOrders

(***************************************************************************)
(* What a query asks for                                                   *)
(***************************************************************************)
\* The condition of a query on a row, without its placeholders.
Meets(row, q) ==
    /\ "kind" \in DOMAIN row /\ row["kind"] = q.value
    /\ q.condition.op = "=" =>
          q.sortKey \in DOMAIN row /\ row[q.sortKey] = q.condition.values[1]
    /\ q.condition.op = "BETWEEN" =>
          /\ q.sortKey \in DOMAIN row
          /\ row[q.sortKey] \in q.condition.values[1] .. q.condition.values[2]
    /\ q.condition.op = "begins_with" =>
          "parent" \in DOMAIN row /\ row["parent"] = q.condition.values[1]

\* The query that is built has that condition: its two placeholders are not the same.
LEMMA Meaning ==
    ASSUME NEW q, q.key = "kind", q.condition.op \in {"none", "=", "BETWEEN", "begins_with"},
           q.condition.op # "none" => q.sortKey # "kind",
           NEW row
    PROVE  Satisfies(row, Query(q)) <=> Meets(row, q)
<1> DEFINE k == InternalExpression(NewQuery, q.key, "=", q.value)
<1>1. /\ k.expression = {[attribute |-> "kind", op |-> "="]}
      /\ DOMAIN k.values = {<<"kind", 0>>} /\ k.values[<<"kind", 0>>] = q.value
  BY DEF InternalExpression, WithValue, SetCondition, NewQuery
<1> HIDE DEF k
<1> DEFINE kind == [attribute |-> "kind", op |-> "="]
<1>2. ASSUME NEW e, e.values[<<"kind", 0>>] = q.value
      PROVE  ConditionMet(row, e, kind) <=> "kind" \in DOMAIN row /\ row["kind"] = q.value
  BY <1>2 DEF ConditionMet
<1>3. CASE q.condition.op = "none"
  <2>1. Query(q) = k  BY <1>3 DEF Query, k
  <2>2. Satisfies(row, k) <=> ConditionMet(row, k, kind)  BY <1>1 DEF Satisfies
  <2> QED  BY <1>1, <1>2, <1>3, <2>1, <2>2 DEF Meets
<1>4. CASE q.condition.op \in {"=", "begins_with"}
  <2> PICK a, v : a = q.sortKey /\ v = q.condition.values[1]  OBVIOUS
  <2> PICK op : op = q.condition.op  OBVIOUS
  <2> DEFINE e == InternalExpression(k, a, op, v)
             c == [attribute |-> a, op |-> op]
  <2>1. Query(q) = e  BY <1>4 DEF Query, k
  <2>2. /\ e.expression = k.expression \cup {c}
        /\ \A p \in DOMAIN k.values \cup {<<a, 0>>} :
              e.values[p] = IF p = <<a, 0>> THEN v ELSE k.values[p]
    BY DEF InternalExpression, WithValue, SetCondition
  <2>3. a # "kind"  BY <1>4
  <2>4. e.values[<<"kind", 0>>] = q.value /\ e.values[<<a, 0>>] = v
    BY <1>1, <2>2, <2>3
  <2> HIDE DEF e
  <2>5. Satisfies(row, e) <=> ConditionMet(row, e, kind) /\ ConditionMet(row, e, c)
    <3>1. e.expression = {kind, c}  BY <1>1, <2>2
    <3> QED  BY <3>1 DEF Satisfies
  <2>6. ConditionMet(row, e, c) <=>
          LET attribute == IF op = "begins_with" THEN "parent" ELSE a
          IN  attribute \in DOMAIN row /\ row[attribute] = v
    BY <1>4, <2>4 DEF ConditionMet
  <2> QED  BY <1>2, <1>4, <2>1, <2>4, <2>5, <2>6 DEF Meets
<1>5. CASE q.condition.op = "BETWEEN"
  <2> PICK a, v : a = q.sortKey /\ v = q.condition.values  OBVIOUS
  <2> DEFINE e == BetweenExpression(k, a, v)
             c == [attribute |-> a, op |-> "BETWEEN"]
  <2>1. Query(q) = e  BY <1>5 DEF Query, k
  <2>2. /\ e.expression = k.expression \cup {c}
        /\ \A p \in DOMAIN k.values \cup {<<a, 1>>, <<a, 2>>} :
              e.values[p] = IF p = <<a, 2>> THEN v[2] ELSE IF p = <<a, 1>> THEN v[1] ELSE k.values[p]
    BY DEF BetweenExpression, WithValue, SetCondition
  <2>3. a # "kind"  BY <1>5
  <2>4. /\ e.values[<<"kind", 0>>] = q.value
        /\ e.values[<<a, 1>>] = v[1] /\ e.values[<<a, 2>>] = v[2]
    BY <1>1, <2>2, <2>3
  <2> HIDE DEF e
  <2>5. Satisfies(row, e) <=> ConditionMet(row, e, kind) /\ ConditionMet(row, e, c)
    <3>1. e.expression = {kind, c}  BY <1>1, <2>2
    <3> QED  BY <3>1 DEF Satisfies
  <2>6. ConditionMet(row, e, c) <=> a \in DOMAIN row /\ row[a] \in v[1] .. v[2]
    BY <2>4 DEF ConditionMet
  <2> QED  BY <1>2, <1>5, <2>1, <2>4, <2>5, <2>6 DEF Meets
<1> QED  BY <1>3, <1>4, <1>5

(***************************************************************************)
(* Where rows stand, and what a page shows                                 *)
(***************************************************************************)
\* The indexes that are queried order rows by numbers.
LEMMA Numbered ==
    ASSUME CatalogTypeOK, NEW row \in table, NEW index \in Index \cup {Undefined},
           SortAttribute(index) \in DOMAIN row
    PROVE  Position(row, index) \in Nat \X Nat /\ Position(row, index)[2] = row.id
<1>1. RowOK(row)  BY DEF CatalogTypeOK
<1>2. row.id \in Nat /\ row.createdAt \in Nat
  <2>1. now \in Nat  BY CatalogAssumption DEF CatalogTypeOK
  <2>2. row.id \in Id /\ row.createdAt \in 1..now  BY <1>1 DEF RowOK
  <2>3. row.id \in Nat  BY <2>2, CatalogAssumption
  <2>4. row.createdAt \in Nat  BY <2>1, <2>2
  <2> QED  BY <2>3, <2>4
<1>3. SortAttribute(index) \in {"createdAt", "status", "name", "dependency", "owner", "type", "id"}
  BY TableAssumption DEF SortAttribute, Index
<1>4. SortAttribute(index) \in {"createdAt", "status", "name", "owner", "id"}
  BY <1>1, <1>3 DEF RowOK, Attributes
<1>5. row[SortAttribute(index)] \in Nat
  <2>1. CASE SortAttribute(index) \in {"createdAt", "id"}  BY <1>2, <2>1
  <2>2. CASE SortAttribute(index) \in {"status", "name", "owner"}  BY <1>1, <2>2 DEF RowOK
  <2> QED  BY <1>4, <2>1, <2>2
<1> QED  BY <1>2, <1>5 DEF Position

\* Following is a strict total order of places, in either direction.
LEMMA FollowsOrders ==
    ASSUME NEW forward \in BOOLEAN
    PROVE  /\ \A p \in Nat \X Nat : ~Follows(p, p, forward)
           /\ \A p, q, r \in Nat \X Nat :
                 Follows(p, q, forward) /\ Follows(q, r, forward) => Follows(p, r, forward)
           /\ \A p, q \in Nat \X Nat : p # q => Follows(p, q, forward) \/ Follows(q, p, forward)
<1>1. \A p \in Nat \X Nat : p[1] \in Nat /\ p[2] \in Nat /\ ~Before(p, p)  BY DEF Before
<1>2. ASSUME NEW p \in Nat \X Nat, NEW q \in Nat \X Nat, NEW r \in Nat \X Nat,
             Before(p, q), Before(q, r)
      PROVE  Before(p, r)
  <2>1. p[1] \in Nat /\ p[2] \in Nat /\ q[1] \in Nat /\ q[2] \in Nat /\ r[1] \in Nat /\ r[2] \in Nat
    BY <1>1
  <2> QED  BY <1>2, <2>1 DEF Before
<1>3. ASSUME NEW p \in Nat \X Nat, NEW q \in Nat \X Nat, p # q
      PROVE  Before(p, q) \/ Before(q, p)
  <2>1. p[1] \in Nat /\ p[2] \in Nat /\ q[1] \in Nat /\ q[2] \in Nat  BY <1>1
  <2>2. p = <<p[1], p[2]>> /\ q = <<q[1], q[2]>>  OBVIOUS
  <2>3. p[1] # q[1] \/ p[2] # q[2]  BY <1>3, <2>2
  <2> QED  BY <2>1, <2>3 DEF Before
<1> QED  BY <1>1, <1>2, <1>3 DEF Follows

\* The queries that a page can be asked for.
Pageable(q) == q.index \in Index \cup {Undefined} /\ q.limit \in Nat /\ q.forward \in BOOLEAN

\* The rows that are found stand one after the other.
LEMMA FoundOrdered ==
    ASSUME CatalogTypeOK, NEW q, Pageable(q)
    PROVE  /\ Found(table, q) \subseteq table /\ IsFiniteSet(Found(table, q))
           /\ \A r \in Found(table, q) : Position(r, q.index) \in Nat \X Nat
           /\ \A r \in Found(table, q) : ~After(r, r, q)
           /\ \A r, s, t \in Found(table, q) : After(r, s, q) /\ After(s, t, q) => After(r, t, q)
           /\ \A r, s \in Found(table, q) : r # s => After(r, s, q) \/ After(s, r, q)
<1>1. Found(table, q) \subseteq table  BY DEF Found
<1>2. IsFiniteSet(Found(table, q))  BY <1>1, FS_Subset DEF CatalogTypeOK
<1>3. \A r \in Found(table, q) :
         Position(r, q.index) \in Nat \X Nat /\ Position(r, q.index)[2] = r.id
  BY Numbered DEF Found, Pageable
<1>4. \A r, s \in Found(table, q) : r # s => Position(r, q.index) # Position(s, q.index)
  BY <1>1, <1>3 DEF CatalogTypeOK
<1>5. q.forward \in BOOLEAN  BY DEF Pageable
<1> HIDE DEF Pageable
<1> QED  BY <1>1, <1>2, <1>3, <1>4, <1>5, FollowsOrders DEF After

\* A page that is not the last one ends with a row which all that it leaves out follow
\* and none that it shows; the last page shows all that was found.
LEMMA PageShows ==
    ASSUME CatalogTypeOK, NEW q, Pageable(q)
    PROVE  LET answer == Page(table, q) IN
           /\ answer.items \subseteq Found(table, q)
           /\ answer.lastKey = NoKey => answer.items = Found(table, q)
           /\ answer.lastKey # NoKey =>
                 \E last \in answer.items :
                    /\ answer.lastKey = Position(last, q.index)
                    /\ \A r \in answer.items : ~After(r, last, q)
                    /\ \A r \in Found(table, q) \ answer.items : After(r, last, q)
<1> PICK found : found = Found(table, q)  OBVIOUS
<1>1. /\ found \subseteq table /\ IsFiniteSet(found)
      /\ \A r \in found : Position(r, q.index) \in Nat \X Nat
      /\ \A r \in found : ~After(r, r, q)
      /\ \A r, s, t \in found : After(r, s, q) /\ After(s, t, q) => After(r, t, q)
      /\ \A r, s \in found : r # s => After(r, s, q) \/ After(s, r, q)
  BY FoundOrdered
<1> DEFINE full == q.limit # 0 /\ q.limit <= Cardinality(found)
           Rank(r) == Cardinality({s \in found : After(r, s, q)})
           items == {r \in found : full => Rank(r) < q.limit}
           last == CHOOSE r \in items : \A s \in items : ~After(s, r, q)
<1>2. Page(table, q) = [items |-> items, lastKey |-> IF full THEN Position(last, q.index) ELSE NoKey]
  BY DEF Page
<1>3. CASE ~full
  <2>1. items = found  BY <1>3
  <2> HIDE DEF items, full
  <2> QED  BY <1>2, <1>3, <2>1
<1>4. CASE full
  <2>1. q.limit \in Nat /\ q.limit # 0 /\ Cardinality(found) \in Nat
    BY <1>1, <1>4, FS_CardinalityType DEF Pageable
  <2>2. found # {}  BY <1>4, <2>1, FS_EmptySet
  <2>3. PICK first \in found : \A s \in found : ~After(first, s, q)
    <3> DEFINE R == {p \in found \X found : After(p[1], p[2], q)}
    <3>1. \A x, y \in found : <<x, y>> \in R <=> After(x, y, q)  OBVIOUS
    <3> HIDE DEF R
    <3>2. \A x \in found : <<x, x>> \notin R  BY <1>1, <3>1
    <3>3. \A x, y, z \in found : <<x, y>> \in R /\ <<y, z>> \in R => <<x, z>> \in R
      BY <1>1, <3>1
    <3>4. \E x \in found : \A y \in found : <<x, y>> \notin R
      BY <1>1, <2>2, <3>2, <3>3, HasMaximal
    <3> QED  BY <3>1, <3>4
  <2>4. first \in items
    <3>1. {s \in found : After(first, s, q)} = {}  BY <2>3
    <3>2. Rank(first) = 0  BY <3>1, FS_EmptySet
    <3> QED  BY <2>1, <3>2
  <2>5. items \subseteq found /\ IsFiniteSet(items)  BY <1>1, FS_Subset
  <2>6. \E r \in items : \A s \in items : ~After(s, r, q)
    <3> DEFINE R == {p \in items \X items : After(p[2], p[1], q)}
    <3> HIDE DEF items
    <3>1. \A x, y \in items : <<x, y>> \in R <=> After(y, x, q)  OBVIOUS
    <3> HIDE DEF R
    <3>2. \A x \in items : <<x, x>> \notin R  BY <1>1, <2>5, <3>1
    <3>3. \A x, y, z \in items : <<x, y>> \in R /\ <<y, z>> \in R => <<x, z>> \in R
      BY <1>1, <2>5, <3>1
    <3>4. \E x \in items : \A y \in items : <<x, y>> \notin R
      BY <2>4, <2>5, <3>2, <3>3, HasMaximal
    <3> QED  BY <3>1, <3>4
  <2>7. last \in items /\ \A s \in items : ~After(s, last, q)  BY <2>6
  <2>8. ASSUME NEW r \in found \ items
        PROVE  After(r, last, q)
    <3>1. SUFFICES ASSUME ~After(r, last, q) PROVE FALSE  OBVIOUS
    <3>2. After(last, r, q)  BY <1>1, <2>5, <2>7, <2>8, <3>1
    <3> PICK S, T : S = {s \in found : After(r, s, q)} /\ T = {s \in found : After(last, s, q)}
      OBVIOUS
    <3>3. S \subseteq T  BY <1>1, <2>5, <2>7, <3>2
    <3>4. IsFiniteSet(T)  BY <1>1, FS_Subset
    <3>5. Cardinality(S) <= Cardinality(T)  BY <3>3, <3>4, FS_Subset
    <3>6. IsFiniteSet(S)  BY <3>3, <3>4, FS_Subset
    <3>7. Cardinality(S) \in Nat /\ Cardinality(T) \in Nat  BY <3>4, <3>6, FS_CardinalityType
    <3>8. Cardinality(T) < q.limit  BY <1>4, <2>7
    <3>9. ~(Cardinality(S) < q.limit)  BY <1>4, <2>8
    <3> QED  BY <2>1, <3>5, <3>7, <3>8, <3>9
  <2>9. Position(last, q.index) # NoKey
    <3>1. Position(last, q.index) \in Nat \X Nat  BY <1>1, <2>5, <2>7
    <3> HIDE DEF last
    <3> QED  BY <3>1 DEF NoKey
  <2> HIDE DEF items, full, last
  <2> QED  BY <1>2, <1>4, <2>5, <2>7, <2>8, <2>9
<1> QED  BY <1>3, <1>4

(***************************************************************************)
(* How the table evolves                                                   *)
(***************************************************************************)
RowsOK ==
    /\ IsFiniteSet(table) /\ \A row \in table : RowOK(row)
    /\ \A r, s \in table : r.id = s.id => r = s
    /\ now \in 1..MaxNow

\* Row s is what an update may make of row r.
Same(r, s) ==
    /\ s.id = r.id /\ s.kind = r.kind /\ DOMAIN s = DOMAIN r
    /\ \A a \in DOMAIN r \ {"label", "status"} : s[a] = r[a]

\* Rows stay, and what is new has an identifier of its own.
Evolves ==
    /\ \A r \in table : \E s \in table' : Same(r, s)
    /\ \A s \in table' : (\E r \in table : Same(r, s)) \/ \A r \in table : r.id # s.id

\* A table that is left alone.
LEMMA LeftAlone ==
    ASSUME RowsOK, table' = table
    PROVE  Evolves
<1>1. \A r \in table : Same(r, r)  BY DEF Same
<1> QED  BY <1>1 DEF Evolves

\* A row with a new identifier.
LEMMA Creates ==
    ASSUME RowsOK, NEW kind \in {"envType", "envTypeConfig", "environment", "dataset"},
           NEW id \in Id, IsFree(id), NEW item, Write(Key(kind, id), item), now' = now,
           Assigned(item) = Attributes(kind) \ {"kind", "id", "createdAt"},
           \A a \in Assigned(item) \cap {"parent", "owner", "name", "status"} : item[a] \in Nat,
           "product" \in Assigned(item) => item["product"] \in Product \cup {NoProduct}
    PROVE  /\ RowsOK' /\ Evolves
           /\ \E row : /\ table' = table \cup {row}
                       /\ row.kind = kind /\ row.id = id /\ DOMAIN row = Attributes(kind)
                       /\ \A a \in Assigned(item) : row[a] = item[a]
<1> PICK key : key = Key(kind, id)  OBVIOUS
<1>1. DOMAIN key = {"kind", "id"} /\ key["kind"] = kind /\ key["id"] = id  BY DEF Key
<1>2. Rows(table, key) = {}
  <2>1. key.id = id  BY <1>1
  <2> QED  BY <2>1 DEF Rows, IsFree
<1> DEFINE row == Updated(key, item, now)
<1>3. table' = table \cup {row}  BY <1>2 DEF Write, UpdateItem
<1>4. {"kind", "id", "createdAt"} \subseteq Attributes(kind) /\ Assigned(item) # {}
  BY DEF Attributes
<1>5. DOMAIN row = Attributes(kind)  BY <1>1, <1>4 DEF Updated, Timestamps
<1>6. \A a \in Attributes(kind) :
         row[a] = IF a \in Assigned(item) THEN item[a] ELSE IF a \in {"kind", "id"} THEN key[a] ELSE now
  BY <1>1, <1>4 DEF Updated, Timestamps
<1> HIDE DEF row
<1>7. /\ row.kind = kind /\ row.id = id /\ row.createdAt = now
      /\ \A a \in Assigned(item) : row[a] = item[a]
  BY <1>1, <1>4, <1>6
<1>8. now \in 1..now  BY CatalogAssumption DEF RowsOK
<1>9. RowOK(row)
  <2>1. \A a \in DOMAIN row \cap {"parent", "owner", "name", "status"} : row[a] \in Nat
    BY <1>5, <1>6
  <2>2. "product" \in DOMAIN row => row.product \in Product \cup {NoProduct}
    BY <1>5, <1>7
  <2> QED  BY <1>5, <1>7, <1>8, <2>1, <2>2 DEF RowOK
<1>10. RowsOK'
  <2>1. IsFiniteSet(table')  BY <1>3, FS_AddElement DEF RowsOK
  <2>2. \A r \in table' : RowOK(r)'
    <3>1. \A r : RowOK(r)' <=> RowOK(r)  BY DEF RowOK
    <3> QED  BY <1>3, <1>9, <3>1 DEF RowsOK
  <2>3. \A r, s \in table' : r.id = s.id => r = s  BY <1>3, <1>7 DEF RowsOK, IsFree
  <2> QED  BY <2>1, <2>2, <2>3 DEF RowsOK
<1>11. Evolves
  <2>1. \A r \in table : Same(r, r)  BY DEF Same
  <2>2. \A r \in table : r.id # row.id  BY <1>7 DEF IsFree
  <2> QED  BY <1>3, <2>1, <2>2 DEF Evolves
<1> QED  BY <1>3, <1>5, <1>7, <1>10, <1>11

\* Attributes that may be updated, of a row that is there.
LEMMA Updates ==
    ASSUME RowsOK, NEW key, Exists(table, key), NEW item, Write(key, item), now' = now,
           Assigned(item) \subseteq {"label", "status"},
           \A row \in Rows(table, key) : Assigned(item) \subseteq DOMAIN row,
           "status" \in Assigned(item) => item["status"] \in Nat
    PROVE  /\ RowsOK' /\ Evolves
           /\ \A s \in table' : \E r \in table : Same(r, s)
<1>1. PICK old \in table : Rows(table, key) = {old}  BY DEF Exists, Rows, RowsOK
<1> DEFINE new == Updated(old, item, now)
<1>2. table' = (table \ {old}) \cup {new}  BY <1>1 DEF Write, UpdateItem
<1>3. RowOK(old) /\ Assigned(item) \subseteq DOMAIN old  BY <1>1 DEF RowsOK
<1>4. {"kind", "id", "createdAt"} \subseteq DOMAIN old  BY <1>3 DEF RowOK, Attributes
<1>5. DOMAIN new = DOMAIN old  BY <1>3, <1>4 DEF Updated, Timestamps
<1>6. \A a \in DOMAIN old : new[a] = IF a \in Assigned(item) THEN item[a] ELSE old[a]
  BY <1>3 DEF Updated
<1> HIDE DEF new
<1>7. Same(old, new)  BY <1>4, <1>5, <1>6 DEF Same
<1>8. RowOK(new)
  <2>1. new.kind = old.kind /\ new.id = old.id /\ new.createdAt = old.createdAt
    BY <1>4, <1>6
  <2>2. \A a \in DOMAIN new \cap {"parent", "owner", "name", "status"} : new[a] \in Nat
    <3>1. ASSUME NEW a \in DOMAIN new \cap {"parent", "owner", "name", "status"}
          PROVE  new[a] \in Nat
      <4>1. CASE a \in Assigned(item)
        <5>1. a = "status"  BY <3>1, <4>1
        <5> QED  BY <1>5, <1>6, <4>1, <5>1
      <4>2. CASE a \notin Assigned(item)  BY <1>3, <1>5, <1>6, <4>2 DEF RowOK
      <4> QED  BY <4>1, <4>2
    <3> QED  BY <3>1
  <2>3. "product" \in DOMAIN new => new.product \in Product \cup {NoProduct}
    BY <1>3, <1>5, <1>6 DEF RowOK
  <2> QED  BY <1>3, <1>5, <2>1, <2>2, <2>3 DEF RowOK
<1>9. RowsOK'
  <2>1. IsFiniteSet(table')
    <3>1. IsFiniteSet(table \ {old})  BY FS_RemoveElement DEF RowsOK
    <3> QED  BY <1>2, <3>1, FS_AddElement
  <2>2. \A r \in table' : RowOK(r)'
    <3>1. \A r : RowOK(r)' <=> RowOK(r)  BY DEF RowOK
    <3> QED  BY <1>2, <1>8, <3>1 DEF RowsOK
  <2>3. \A r, s \in table' : r.id = s.id => r = s
    <3>1. new.id = old.id  BY <1>7 DEF Same
    <3> QED  BY <1>2, <3>1 DEF RowsOK
  <2> QED  BY <2>1, <2>2, <2>3 DEF RowsOK
<1>10. \A r \in table : Same(r, r)  BY DEF Same
<1>11. \A s \in table' : \E r \in table : Same(r, s)  BY <1>2, <1>7, <1>10
<1>12. \A r \in table : \E s \in table' : Same(r, s)  BY <1>2, <1>7, <1>10
<1> QED  BY <1>9, <1>11, <1>12 DEF Evolves

(***************************************************************************)
(* The steps that write the table                                          *)
(***************************************************************************)
\* What is new is of these kinds.
AddsOnly(kinds) == \A s \in table' : s.kind \in kinds \/ \E r \in table : Same(r, s)

\* One row is new.
AddsRow(row) == table' = table \cup {row} /\ \A r \in table : r.id # row.id

\* A new row keeps other kinds of rows as they are.
LEMMA RowAdded ==
    ASSUME NEW row, AddsRow(row), NEW kinds, row.kind \in kinds
    PROVE  AddsOnly(kinds)
<1>1. \A r \in table : Same(r, r)  BY DEF Same
<1> QED  BY <1>1 DEF AddsOnly, AddsRow

\* A new environment type.
LEMMA TypeCreated ==
    ASSUME RowsOK, NEW id \in Id, NEW product \in Product, NEW label \in Nat,
           CreateEnvironmentType(id, product, label)
    PROVE  /\ RowsOK' /\ Evolves /\ AddsOnly({"envType"})
<1> DEFINE item == [createdAt |-> now, product |-> product, label |-> label]
<1>1. IsFree(id) /\ Write(Key("envType", id), item) /\ now' = now  BY DEF CreateEnvironmentType
<1>2. Assigned(item) = {"product", "label"}
  <2>1. product # Undefined /\ label # Undefined  BY CatalogAssumption, TableAssumption
  <2> QED  BY <2>1 DEF Assigned, Defined
<1>3. Assigned(item) = Attributes("envType") \ {"kind", "id", "createdAt"}  BY <1>2 DEF Attributes
<1>4. item["product"] \in Product \cup {NoProduct}  OBVIOUS
<1> HIDE DEF item
<1>5. RowsOK' /\ Evolves
  <2>1. Assigned(item) \cap {"parent", "owner", "name", "status"} = {}  BY <1>2
  <2> QED  BY <1>1, <1>3, <1>4, <2>1, Creates
<1>6. PICK row : AddsRow(row) /\ row.kind = "envType"
  <2>1. Assigned(item) \cap {"parent", "owner", "name", "status"} = {}  BY <1>2
  <2>2. PICK row : table' = table \cup {row} /\ row.kind = "envType" /\ row.id = id
    BY <1>1, <1>3, <1>4, <2>1, Creates
  <2> QED  BY <1>1, <2>2 DEF AddsRow, IsFree
<1> QED  BY <1>5, <1>6, RowAdded

\* A new configuration, with what was read of its type.
LEMMA ConfigCreated ==
    ASSUME RowsOK, WriterKnows, NEW id \in Id, NEW label \in Nat, CreateConfigWrites(id, label)
    PROVE  /\ RowsOK' /\ Evolves /\ AddsOnly({"envTypeConfig"})
           /\ \E row : /\ AddsRow(row) /\ row.kind = "envTypeConfig"
                       /\ row.product = writer.product /\ row.parent = writer.parent
<1> PICK product, parent : product = writer.product /\ parent = writer.parent  OBVIOUS
<1> DEFINE item == [createdAt |-> now, product |-> product, parent |-> parent, label |-> label]
<1>1. /\ IsFree(id) /\ Write(Key("envTypeConfig", id), item) /\ now' = now
      /\ writer.pc = "creating"
  BY DEF CreateConfigWrites
<1>2. product \in Product \cup {NoProduct} /\ parent \in Nat
  <2>1. CASE writer.product = NoProduct
    BY <1>1, <2>1, CatalogAssumption DEF WriterKnows
  <2>2. CASE writer.product # NoProduct
    <3>1. PICK type \in OfKind("envType") : type.product = writer.product
      BY <1>1, <2>2 DEF WriterKnows
    <3>2. RowOK(type) /\ type.kind = "envType"  BY <3>1 DEF RowsOK, OfKind
    <3>3. type.product \in Product \cup {NoProduct}  BY <3>2 DEF RowOK, Attributes
    <3> QED  BY <1>1, <3>1, <3>3, CatalogAssumption DEF WriterKnows
  <2> QED  BY <2>1, <2>2
<1>3. Assigned(item) = {"product", "parent", "label"}
  <2>1. product # Undefined /\ parent # Undefined /\ label # Undefined
    BY <1>2, CatalogAssumption, TableAssumption
  <2> QED  BY <2>1 DEF Assigned, Defined
<1>4. Assigned(item) = Attributes("envTypeConfig") \ {"kind", "id", "createdAt"}
  BY <1>3 DEF Attributes
<1>5. /\ item["product"] = product /\ item["parent"] = parent
      /\ item["product"] \in Product \cup {NoProduct}
      /\ \A a \in Assigned(item) \cap {"parent", "owner", "name", "status"} : item[a] \in Nat
  BY <1>2, <1>3
<1> HIDE DEF item
<1>6. RowsOK' /\ Evolves  BY <1>1, <1>4, <1>5, Creates
<1>7. PICK row : /\ table' = table \cup {row} /\ row.kind = "envTypeConfig" /\ row.id = id
                 /\ \A a \in Assigned(item) : row[a] = item[a]
  BY <1>1, <1>4, <1>5, Creates
<1>8. AddsRow(row)  BY <1>1, <1>7 DEF AddsRow, IsFree
<1>9. row.product = product /\ row.parent = parent  BY <1>3, <1>5, <1>7
<1> QED  BY <1>6, <1>7, <1>8, <1>9, RowAdded

\* A new environment.
LEMMA EnvironmentCreated ==
    ASSUME RowsOK, NEW id \in Id, NEW person \in Nat, NEW label \in Nat,
           CreateEnvironment(id, person, label)
    PROVE  /\ RowsOK' /\ Evolves /\ AddsOnly({"environment"})
<1> DEFINE item == [createdAt |-> now, owner |-> person, name |-> label, status |-> 1,
                    instanceId |-> Undefined]
<1>1. IsFree(id) /\ Write(Key("environment", id), item) /\ now' = now  BY DEF CreateEnvironment
<1>2. Assigned(item) = {"owner", "name", "status"}
  <2>1. person # Undefined /\ label # Undefined /\ 1 # Undefined  BY TableAssumption
  <2> QED  BY <2>1 DEF Assigned, Defined
<1>3. Assigned(item) = Attributes("environment") \ {"kind", "id", "createdAt"}
  BY <1>2 DEF Attributes
<1>4. \A a \in Assigned(item) \cap {"parent", "owner", "name", "status"} : item[a] \in Nat
  BY <1>2
<1>5. "product" \notin Assigned(item)  BY <1>2
<1> HIDE DEF item
<1>6. RowsOK' /\ Evolves  BY <1>1, <1>3, <1>4, <1>5, Creates
<1>7. PICK row : table' = table \cup {row} /\ row.kind = "environment" /\ row.id = id
  BY <1>1, <1>3, <1>4, <1>5, Creates
<1>8. AddsRow(row)  BY <1>1, <1>7 DEF AddsRow, IsFree
<1> QED  BY <1>6, <1>7, <1>8, RowAdded

\* A new dataset.
LEMMA DataSetStored ==
    ASSUME RowsOK, DataSetTypeOK, NEW c \in DataSetCall, NEW id \in Id, StoreDataSet(c, id)
    PROVE  /\ RowsOK' /\ Evolves /\ AddsOnly({"dataset"})
           /\ \E row : AddsRow(row) /\ row.kind = "dataset" /\ row.name = dataSetCalls[c].name
<1> PICK name, path : name = dataSetCalls[c].name /\ path = dataSetCalls[c].path  OBVIOUS
<1> DEFINE item == [createdAt |-> now, name |-> name, path |-> path]
<1>1. IsFree(id) /\ Write(Key("dataset", id), item) /\ now' = now  BY DEF StoreDataSet
<1>2. name \in Nat /\ name # Undefined /\ path # Undefined
  <2>1. name \in DataSetName /\ path \in Path  BY DEF StoreDataSet, DataSetTypeOK
  <2> QED  BY <2>1, DataSetAssumption, TableAssumption
<1>3. Assigned(item) = {"name", "path"}  BY <1>2 DEF Assigned, Defined
<1>4. Assigned(item) = Attributes("dataset") \ {"kind", "id", "createdAt"}
  BY <1>3 DEF Attributes
<1>5. /\ item["name"] = name /\ "product" \notin Assigned(item)
      /\ \A a \in Assigned(item) \cap {"parent", "owner", "name", "status"} : item[a] \in Nat
  BY <1>2, <1>3
<1> HIDE DEF item
<1>6. RowsOK' /\ Evolves  BY <1>1, <1>4, <1>5, Creates
<1>7. PICK row : /\ table' = table \cup {row} /\ row.kind = "dataset" /\ row.id = id
                 /\ \A a \in Assigned(item) : row[a] = item[a]
  BY <1>1, <1>4, <1>5, Creates
<1>8. AddsRow(row)  BY <1>1, <1>7 DEF AddsRow, IsFree
<1>9. row.name = name  BY <1>3, <1>5, <1>7
<1> QED  BY <1>6, <1>7, <1>8, <1>9, RowAdded

\* A status handler's update.
LEMMA EnvironmentUpdated ==
    ASSUME RowsOK, NEW id, NEW status \in Nat, UpdateEnvironment(id, status)
    PROVE  RowsOK' /\ Evolves /\ AddsOnly({})
<1> DEFINE item == [a \in {"status"} |-> status]
<1> PICK key : key = Key("environment", id)  OBVIOUS
<1>1. Exists(table, key) /\ Write(key, item) /\ now' = now  BY DEF UpdateEnvironment
<1>2. Assigned(item) \subseteq {"status"} /\ item["status"] = status  BY DEF Assigned, Defined
<1>3. \A row \in Rows(table, key) : "status" \in DOMAIN row
  <2>1. \A row \in Rows(table, key) : RowOK(row) /\ row.kind = "environment"
    BY DEF RowsOK, Rows, Key
  <2> QED  BY <2>1 DEF RowOK, Attributes
<1> HIDE DEF item
<1> QED  BY <1>1, <1>2, <1>3, Updates DEF AddsOnly

\* The second half of an update of a type or a configuration.
LEMMA UpdateWritten ==
    ASSUME RowsOK, WriterKnows, UpdateWrites
    PROVE  RowsOK' /\ Evolves /\ AddsOnly({})
<1> PICK key, values : key = writer.key /\ values = writer.values  OBVIOUS
<1> DEFINE item == [a \in DOMAIN values \cup {"createdAt"} |->
                      IF a = "createdAt" THEN now ELSE values[a]]
<1>1. writer.pc = "updating" /\ Write(key, item) /\ now' = now  BY DEF UpdateWrites
<1>2. /\ key.kind \in {"envType", "envTypeConfig"} /\ Exists(table, key)
      /\ DOMAIN values \subseteq {"label"}
  BY <1>1 DEF WriterKnows
<1>3. Assigned(item) \subseteq {"label"}  BY <1>2 DEF Assigned, Defined
<1>4. \A row \in Rows(table, key) : "label" \in DOMAIN row
  <2>1. \A row \in Rows(table, key) : RowOK(row) /\ row.kind = key.kind
    BY DEF RowsOK, Rows
  <2> QED  BY <1>2, <2>1 DEF RowOK, Attributes
<1> HIDE DEF item
<1> QED  BY <1>1, <1>2, <1>3, <1>4, Updates DEF AddsOnly

(***************************************************************************)
(* What requests know of the table                                         *)
(***************************************************************************)
\* A row of a kind that is there stays there.
LEMMA RowStays ==
    ASSUME RowsOK, Evolves, NEW kind, NEW row \in OfKind(kind)
    PROVE  \E s \in OfKind(kind)' :
              /\ s.id = row.id /\ DOMAIN s = DOMAIN row
              /\ \A a \in DOMAIN row \ {"label", "status"} : s[a] = row[a]
<1>1. PICK s \in table' : Same(row, s)  BY DEF OfKind, Evolves
<1>2. s \in OfKind(kind)'  BY <1>1 DEF OfKind, Same
<1> QED  BY <1>1, <1>2 DEF Same

\* A type stays, and its product.
LEMMA TypeStays ==
    ASSUME RowsOK, Evolves, NEW id, NEW product,
           \E type \in OfKind("envType") : type.id = id /\ type.product = product
    PROVE  \E type \in OfKind("envType")' : type.id = id /\ type.product = product
<1>1. PICK type \in OfKind("envType") : type.id = id /\ type.product = product  OBVIOUS
<1>2. "product" \in DOMAIN type  BY DEF OfKind, RowsOK, RowOK, Attributes
<1> QED  BY <1>1, <1>2, RowStays

\* What a request has read stays true.
LEMMA WriterKept ==
    ASSUME RowsOK, Evolves, WriterKnows, writer' = writer,
           faults \in Nat, faults' \in Nat, faults <= faults'
    PROVE  WriterKnows'
<1>1. CASE writer.pc = "updating"
  <2>1. PICK row \in table : row.kind = writer.key.kind /\ row.id = writer.key.id
    BY <1>1 DEF WriterKnows, Exists, Rows
  <2>2. PICK s \in table' : Same(row, s)  BY DEF Evolves
  <2>3. s.kind = writer.key.kind /\ s.id = writer.key.id  BY <2>1, <2>2 DEF Same
  <2>4. Exists(table, writer.key)'  BY <2>3 DEF Exists, Rows
  <2> QED  BY <1>1, <2>4 DEF WriterKnows
<1>2. CASE writer.pc = "creating"
  <2>1. CASE writer.product = NoProduct /\ faults > 0  BY <1>2, <2>1 DEF WriterKnows
  <2>2. CASE \E type \in OfKind("envType") :
                type.id = writer.parent /\ type.product = writer.product
    <3>1. \E type \in OfKind("envType")' :
             type.id = writer.parent /\ type.product = writer.product
      BY <2>2, TypeStays
    <3> QED  BY <1>2, <3>1 DEF WriterKnows
  <2> QED  BY <1>2, <2>1, <2>2 DEF WriterKnows
<1>3. CASE writer.pc \notin {"updating", "creating"}  BY <1>3 DEF WriterKnows
<1> QED  BY <1>1, <1>2, <1>3

\* The configurations that there were stay right; a new one has to be.
LEMMA ConfigsKept ==
    ASSUME RowsOK, Evolves, ConfigOfParent,
           faults \in Nat, faults' \in Nat, faults <= faults',
           \A s \in table' :
              \/ \E r \in table : Same(r, s)
              \/ s.kind # "envTypeConfig"
              \/ s.product = NoProduct /\ faults' > 0
              \/ \E type \in OfKind("envType")' : type.id = s.parent /\ type.product = s.product
    PROVE  ConfigOfParent'
<1>1. SUFFICES ASSUME NEW s \in OfKind("envTypeConfig")'
               PROVE  \/ s.product = NoProduct /\ faults' > 0
                      \/ \E type \in OfKind("envType")' :
                            type.id = s.parent /\ type.product = s.product
  BY DEF ConfigOfParent
<1>2. s \in table' /\ s.kind = "envTypeConfig"  BY DEF OfKind
<1>3. CASE \E r \in table : Same(r, s)
  <2>1. PICK r \in table : Same(r, s)  BY <1>3
  <2>2. r \in OfKind("envTypeConfig")  BY <1>2, <2>1 DEF Same, OfKind
  <2>3. "product" \in DOMAIN r /\ "parent" \in DOMAIN r
    BY <2>2 DEF OfKind, RowsOK, RowOK, Attributes
  <2>4. s.product = r.product /\ s.parent = r.parent  BY <2>1, <2>3 DEF Same
  <2>5. CASE r.product = NoProduct /\ faults > 0  BY <2>4, <2>5
  <2>6. CASE \E type \in OfKind("envType") : type.id = r.parent /\ type.product = r.product
    BY <2>4, <2>6, TypeStays
  <2> QED  BY <2>2, <2>5, <2>6 DEF ConfigOfParent
<1> QED  BY <1>2, <1>3

\* A request that has not written changes no row.
LEMMA RequestReads ==
    ASSUME CatalogTypeOK,
           \/ \E id, values : \E kind \in {"envType", "envTypeConfig"} : UpdateReads(kind, id, values)
           \/ \E parent \in Id : CreateConfigReads(parent) \/ CreateConfigReadFails(parent)
    PROVE  WriterKnows' /\ writer'.pc \in {"updating", "creating"}
<1>1. ASSUME NEW kind \in {"envType", "envTypeConfig"}, NEW id, NEW values,
             UpdateReads(kind, id, values)
      PROVE  WriterKnows' /\ writer'.pc = "updating"
  <2>1. /\ writer' = [pc |-> "updating", key |-> Key(kind, id), values |-> values]
        /\ table' = table /\ Exists(table, Key(kind, id)) /\ DOMAIN values \subseteq {"label"}
    BY <1>1 DEF UpdateReads, AttributesAllowedToUpdate
  <2>2. Exists(table, writer.key)'  BY <2>1 DEF Exists, Rows
  <2>3. writer'.key.kind = kind  BY <2>1 DEF Key
  <2> QED  BY <2>1, <2>2, <2>3 DEF WriterKnows
<1>2. ASSUME NEW parent \in Id, CreateConfigReads(parent)
      PROVE  WriterKnows' /\ writer'.pc = "creating"
  <2> PICK row : row = GetItem(table, Key("envType", parent))  OBVIOUS
  <2>1. /\ writer' = [pc |-> "creating", parent |-> parent, product |-> row.product]
        /\ table' = table /\ Exists(table, Key("envType", parent))
    BY <1>2 DEF CreateConfigReads
  <2>2. row \in Rows(table, Key("envType", parent))  BY <2>1 DEF Exists, GetItem
  <2>3. row \in OfKind("envType")' /\ row.id = parent  BY <2>1, <2>2 DEF Rows, Key, OfKind
  <2>4. \E type \in OfKind("envType")' : type.id = writer'.parent /\ type.product = writer'.product
    BY <2>1, <2>3
  <2> QED  BY <2>1, <2>4 DEF WriterKnows
<1>3. ASSUME NEW parent \in Id, CreateConfigReadFails(parent)
      PROVE  WriterKnows' /\ writer'.pc = "creating"
  <2>1. /\ writer' = [pc |-> "creating", parent |-> parent, product |-> NoProduct]
        /\ faults' = faults + 1
    BY <1>3 DEF CreateConfigReadFails
  <2>2. faults' > 0  BY <2>1, CatalogAssumption DEF CatalogTypeOK
  <2> QED  BY <2>1, <2>2 DEF WriterKnows
<1> QED  BY <1>1, <1>2, <1>3

\* The configuration that is written is right.
LEMMA NewConfigOfParent ==
    ASSUME RowsOK, WriterKnows, ConfigOfParent, faults \in Nat,
           NEW id \in Id, NEW label \in Nat, CreateConfigWrites(id, label)
    PROVE  ConfigOfParent' /\ WriterKnows' /\ writer' = Idle
<1>1. writer' = Idle /\ faults' = faults /\ writer.pc = "creating"  BY DEF CreateConfigWrites
<1>2. WriterKnows'  BY <1>1 DEF WriterKnows, Idle
<1>3. PICK row : /\ AddsRow(row) /\ row.kind = "envTypeConfig"
                 /\ row.product = writer.product /\ row.parent = writer.parent
  BY ConfigCreated
<1>4. Evolves  BY ConfigCreated
<1>5. \/ row.product = NoProduct /\ faults' > 0
      \/ \E type \in OfKind("envType")' : type.id = row.parent /\ type.product = row.product
  <2>1. CASE writer.product = NoProduct /\ faults > 0  BY <1>1, <1>3, <2>1
  <2>2. CASE \E type \in OfKind("envType") :
                type.id = writer.parent /\ type.product = writer.product
    <3>1. \E type \in OfKind("envType")' :
             type.id = writer.parent /\ type.product = writer.product
      BY <1>4, <2>2, TypeStays
    <3> QED  BY <1>3, <3>1
  <2> QED  BY <1>1, <2>1, <2>2 DEF WriterKnows
<1>6. \A r \in table : Same(r, r)  BY DEF Same
<1>7. \A s \in table' : s = row \/ \E r \in table : Same(r, s)  BY <1>3, <1>6 DEF AddsRow
<1>8. ConfigOfParent'
  <2>1. faults' \in Nat /\ faults <= faults'  BY <1>1
  <2> QED  BY <1>4, <1>5, <1>7, <2>1, ConfigsKept
<1> QED  BY <1>1, <1>2, <1>8

(***************************************************************************)
(* Lists that are read a page at a time                                    *)
(***************************************************************************)
\* The row is in the index of a query, meets its condition and follows a place.
Listed(row, q, token) ==
    /\ SortAttribute(q.index) \in DOMAIN row
    /\ Meets(row, q)
    /\ token = NoKey \/ Follows(Position(row, q.index), token, q.forward)

\* The condition of a list is on the attribute that orders its rows.
LEMMA ListCondition ==
    ASSUME NEW q, ListQuery(q)
    PROVE  /\ q.condition.op \in {"none", "=", "BETWEEN", "begins_with"}
           /\ q.condition.op # "none" => q.sortKey # "kind"
           /\ q.condition.op \in {"=", "BETWEEN"} => q.sortKey = SortAttribute(q.index)
           /\ q.index \in Index \cup {Undefined}
           /\ SortAttribute(q.index) \notin {"kind", "label"}
           /\ q.sortKey # "status" => SortAttribute(q.index) # "status"
<1>1. q.index \in Index \cup {Undefined}  BY DEF ListQuery, Index
<1>2. SortAttribute(q.index) \in {"createdAt", "status", "name", "dependency", "owner", "type", "id"}
  BY <1>1, TableAssumption DEF SortAttribute, Index
<1>3. /\ q.index = Undefined => SortAttribute(q.index) = "id"
      /\ q.index = "getResourceByCreatedAt" => SortAttribute(q.index) = "createdAt"
  BY TableAssumption DEF SortAttribute, Index
<1> PICK a : a = SortAttribute(q.index)  OBVIOUS
<1>4. CASE q.condition = NoCondition
  <2>1. q.condition.op = "none"  BY <1>4 DEF NoCondition
  <2> QED  BY <1>1, <1>2, <1>3, <1>4, <2>1 DEF ListQuery
<1>5. CASE q.condition # NoCondition  BY <1>1, <1>2, <1>3, <1>5 DEF ListQuery
<1> QED  BY <1>4, <1>5

\* With the token of a page a list asks for the rows that follow it.
LEMMA ListFound ==
    ASSUME NEW q, ListQuery(q), NEW token
    PROVE  LET p == AddPaginationToken(token, q) IN
           /\ Pageable(p) /\ p.index = q.index /\ p.forward = q.forward
           /\ \A row : Satisfies(row, Query(p)) <=> Meets(row, q)
           /\ \A T : \A row : row \in Found(T, p) <=> row \in T /\ Listed(row, q, token)
<1> PICK p : p = AddPaginationToken(token, q)  OBVIOUS
<1>1. /\ p.index = q.index /\ p.forward = q.forward /\ p.limit = q.limit /\ p.key = q.key
      /\ p.value = q.value /\ p.condition = q.condition /\ p.sortKey = q.sortKey
      /\ p.start = token
  BY DEF AddPaginationToken, ListQuery
<1>2. Pageable(p)  BY <1>1, ListCondition DEF Pageable, ListQuery
<1>3. ASSUME NEW row
      PROVE  Satisfies(row, Query(p)) <=> Meets(row, q)
  <2>1. p.key = "kind"  BY <1>1 DEF ListQuery
  <2>2. Satisfies(row, Query(p)) <=> Meets(row, p)  BY <1>1, <2>1, ListCondition, Meaning
  <2>3. Meets(row, p) <=> Meets(row, q)  BY <1>1 DEF Meets
  <2> QED  BY <2>2, <2>3
<1>4. ASSUME NEW T, NEW row
      PROVE  row \in Found(T, p) <=> row \in T /\ Listed(row, q, token)
  BY <1>1, <1>3 DEF Found, Listed
<1> QED  BY <1>1, <1>2, <1>3, <1>4

\* Without a token, those of the whole list.
LEMMA WholeList ==
    ASSUME NEW q, ListQuery(q)
    PROVE  /\ Pageable(q)
           /\ \A row : Satisfies(row, Query(q)) <=> Meets(row, q)
           /\ \A T : \A row : row \in Found(T, q) <=> row \in T /\ Listed(row, q, NoKey)
<1>1. AddPaginationToken(NoKey, q) = q  BY DEF AddPaginationToken
<1> QED  BY <1>1, ListFound

\* Rows keep their place in a list when they are updated, but for a list by status.
LEMMA StillListed ==
    ASSUME NEW q, ListQuery(q), q.sortKey # "status", NEW r, NEW s, Same(r, s), NEW token,
           Listed(r, q, token)
    PROVE  Listed(s, q, token) /\ Position(s, q.index) = Position(r, q.index)
<1> PICK a : a = SortAttribute(q.index)  OBVIOUS
<1>1. a \in DOMAIN r /\ a \notin {"label", "status"}  BY ListCondition DEF Listed
<1>2. a \in DOMAIN s /\ s[a] = r[a] /\ s.id = r.id  BY <1>1 DEF Same
<1>3. Position(s, q.index) = Position(r, q.index)  BY <1>2 DEF Position
<1>4. Meets(s, q)
  <2>1. "kind" \in DOMAIN s /\ s["kind"] = q.value  BY DEF Same, Listed, Meets
  <2>2. "parent" \in DOMAIN r => "parent" \in DOMAIN s /\ s["parent"] = r["parent"]  BY DEF Same
  <2>3. q.condition.op \in {"=", "BETWEEN"} => q.sortKey = a  BY ListCondition
  <2> QED  BY <1>2, <2>1, <2>2, <2>3 DEF Listed, Meets
<1> QED  BY <1>2, <1>3, <1>4 DEF Listed

\* Every row that meets the condition is in the index.
LEMMA InIndex ==
    ASSUME NEW q, ListQuery(q), NEW row, RowOK(row), Meets(row, q)
    PROVE  Listed(row, q, NoKey)
<1>1. row.kind = q.value  BY DEF Meets
<1>2. SortAttribute(q.index) \in DOMAIN row  BY <1>1 DEF RowOK, ListQuery
<1> QED  BY <1>2 DEF Listed

\* A list that is being read goes on while rows are created and updated.
LEMMA ListKept ==
    ASSUME Evolves, lister' = lister, ListGoesOn
    PROVE  ListGoesOn'
<1> PICK q, token : q = lister.query /\ token = lister.token  OBVIOUS
<1>1. SUFFICES ASSUME lister.pc # "idle", q.sortKey # "status"
               PROVE  /\ \A id \in lister.seen : \E row \in Found(table', q) :
                            /\ row.id = id
                            /\ lister.pc = "reading" =>
                                  /\ token # NoKey
                                  /\ ~Follows(Position(row, q.index), token, q.forward)
                      /\ \A id \in lister.there :
                            \/ id \in lister.seen
                            \/ /\ lister.pc = "reading"
                               /\ \E row \in Found(table', AddPaginationToken(token, q)) : row.id = id
  BY DEF ListGoesOn
<1>2. ListQuery(q)  BY <1>1 DEF ListGoesOn
<1>3. ASSUME NEW id \in lister.seen
      PROVE  \E row \in Found(table', q) :
                /\ row.id = id
                /\ lister.pc = "reading" =>
                      token # NoKey /\ ~Follows(Position(row, q.index), token, q.forward)
  <2>1. PICK row \in Found(table, q) :
                /\ row.id = id
                /\ lister.pc = "reading" =>
                      token # NoKey /\ ~Follows(Position(row, q.index), token, q.forward)
    BY <1>1, <1>3 DEF ListGoesOn
  <2>2. row \in table /\ Listed(row, q, NoKey)  BY <1>2, <2>1, WholeList
  <2>3. PICK s \in table' : Same(row, s)  BY <2>2 DEF Evolves
  <2>4. Listed(s, q, NoKey) /\ Position(s, q.index) = Position(row, q.index)
    BY <1>1, <1>2, <2>2, <2>3, StillListed
  <2>5. s \in Found(table', q)  BY <1>2, <2>3, <2>4, WholeList
  <2>6. s.id = id  BY <2>1, <2>3 DEF Same
  <2> QED  BY <2>1, <2>4, <2>5, <2>6
<1>4. ASSUME NEW id \in lister.there, id \notin lister.seen
      PROVE  /\ lister.pc = "reading"
             /\ \E row \in Found(table', AddPaginationToken(token, q)) : row.id = id
  <2>1. PICK row \in Found(table, AddPaginationToken(token, q)) : row.id = id
    BY <1>1, <1>4 DEF ListGoesOn
  <2>2. row \in table /\ Listed(row, q, token)  BY <1>2, <2>1, ListFound
  <2>3. PICK s \in table' : Same(row, s)  BY <2>2 DEF Evolves
  <2>4. Listed(s, q, token)  BY <1>1, <1>2, <2>2, <2>3, StillListed
  <2>5. s \in Found(table', AddPaginationToken(token, q))  BY <1>2, <2>3, <2>4, ListFound
  <2>6. s.id = id  BY <2>1, <2>3 DEF Same
  <2> QED  BY <1>1, <1>4, <2>5, <2>6 DEF ListGoesOn
<1> QED  BY <1>3, <1>4

\* A list begins with everything still to be shown.
LEMMA ListBegins ==
    ASSUME RowsOK, NEW q, ListQuery(q), NEW person,
           person # 0 => q.index = "getResourceByOwner" /\ q.condition = Eq(person),
           Reads(person, q), table' = table
    PROVE  /\ ListGoesOn' /\ lister'.pc = "reading"
           /\ DOMAIN lister' = {"pc", "person", "query", "token", "there", "seen", "again"}
<1>1. /\ lister'.pc = "reading" /\ lister'.person = person /\ lister'.query = q
      /\ lister'.token = NoKey /\ lister'.seen = {} /\ lister'.again = {}
      /\ lister'.there = {row.id : row \in {r \in table : Satisfies(r, Query(q))}}
      /\ DOMAIN lister' = {"pc", "person", "query", "token", "there", "seen", "again"}
  BY DEF Reads
<1>2. ASSUME NEW id \in lister'.there
      PROVE  \E row \in Found(table', AddPaginationToken(NoKey, q)) : row.id = id
  <2>1. PICK row \in table : Satisfies(row, Query(q)) /\ row.id = id  BY <1>1, <1>2
  <2>2. Meets(row, q)  BY <2>1, WholeList
  <2>3. Listed(row, q, NoKey)  BY <2>2, InIndex DEF RowsOK
  <2>4. row \in Found(table', AddPaginationToken(NoKey, q))  BY <2>3, ListFound
  <2> QED  BY <2>1, <2>4
<1> QED  BY <1>1, <1>2 DEF ListGoesOn

\* The next page shows rows that were not shown, and leaves out none on the way.
LEMMA PageRead ==
    ASSUME CatalogTypeOK, ListGoesOn, ReadPage
    PROVE  /\ ListGoesOn' /\ lister'.pc \in {"reading", "read"}
           /\ DOMAIN lister' = DOMAIN lister
<1> PICK q, token : q = lister.query /\ token = lister.token  OBVIOUS
<1> PICK answer : answer = Page(table, AddPaginationToken(token, q))  OBVIOUS
<1> DEFINE shown == {row.id : row \in answer.items}
           place(row) == Position(row, q.index)
<1>1. /\ lister.pc = "reading" /\ table' = table
      /\ lister' = [lister EXCEPT
           !.seen = lister.seen \cup shown,
           !.again = lister.again \cup (lister.seen \cap shown),
           !.token = answer.lastKey,
           !.pc = IF answer.lastKey = NoKey THEN "read" ELSE "reading"]
  BY DEF ReadPage, GetPaginationToken
<1>2. DOMAIN lister = {"pc", "person", "query", "token", "there", "seen", "again"}
  BY <1>1 DEF CatalogTypeOK
<1>3. /\ lister'.seen = lister.seen \cup shown
      /\ lister'.again = lister.again \cup (lister.seen \cap shown)
      /\ lister'.token = answer.lastKey
      /\ lister'.pc = IF answer.lastKey = NoKey THEN "read" ELSE "reading"
      /\ lister'.query = q /\ lister'.person = lister.person /\ lister'.there = lister.there
      /\ DOMAIN lister' = DOMAIN lister
  BY <1>1, <1>2
<1>4. ListQuery(q) /\ (token = NoKey \/ token \in Nat \X Nat)  BY <1>1 DEF ListGoesOn
<1> PICK rest : rest = Found(table, AddPaginationToken(token, q))  OBVIOUS
<1>5. \A row : row \in rest <=> row \in table /\ Listed(row, q, token)  BY <1>4, ListFound
<1> PICK p : p = AddPaginationToken(token, q)  OBVIOUS
<1>6. Pageable(p) /\ p.index = q.index /\ p.forward = q.forward  BY <1>4, ListFound
<1>7. /\ answer.items \subseteq rest
      /\ answer.lastKey = NoKey => answer.items = rest
      /\ answer.lastKey # NoKey =>
            \E last \in answer.items :
               /\ answer.lastKey = place(last)
               /\ \A r \in answer.items : ~Follows(place(r), place(last), q.forward)
               /\ \A r \in rest \ answer.items : Follows(place(r), place(last), q.forward)
  BY <1>6, PageShows DEF After
<1>8. \A row \in Found(table, q) : place(row) \in Nat \X Nat
  BY <1>4, WholeList, FoundOrdered
<1>9. \A row \in rest : row \in Found(table, q)  BY <1>4, <1>5, WholeList DEF Listed
<1>10. \A row \in rest : token = NoKey \/ Follows(place(row), token, q.forward)
  BY <1>5 DEF Listed
<1>11. q.forward \in BOOLEAN  BY <1>4 DEF ListQuery
<1>12. lister'.token = NoKey \/ lister'.token \in Nat \X Nat  BY <1>3, <1>7, <1>8, <1>9
<1>13. ASSUME q.sortKey # "status"
       PROVE  lister'.again = {}
  <2>1. SUFFICES ASSUME NEW id \in lister.seen \cap shown PROVE FALSE
    BY <1>1, <1>3, <1>13 DEF ListGoesOn
  <2>2. PICK row \in rest : row.id = id  BY <1>7, <2>1
  <2>3. PICK old \in Found(table, q) :
           old.id = id /\ token # NoKey /\ ~Follows(place(old), token, q.forward)
    BY <1>1, <1>13, <2>1 DEF ListGoesOn
  <2>4. old \in table /\ row \in table  BY <1>5, <2>2, <2>3 DEF Found
  <2>5. old = row  BY <2>2, <2>3, <2>4 DEF CatalogTypeOK
  <2> QED  BY <1>10, <2>2, <2>3, <2>5
<1>14. ASSUME q.sortKey # "status", NEW id \in lister'.seen
       PROVE  \E row \in Found(table, q) :
                 /\ row.id = id
                 /\ answer.lastKey # NoKey => ~Follows(place(row), answer.lastKey, q.forward)
  <2>1. CASE id \in shown
    <3>1. PICK row \in answer.items : row.id = id  BY <2>1
    <3>2. row \in Found(table, q)  BY <1>7, <1>9, <3>1
    <3> HIDE DEF place
    <3> QED  BY <1>7, <3>1, <3>2
  <2>2. CASE id \in lister.seen
    <3>1. PICK row \in Found(table, q) :
             row.id = id /\ token # NoKey /\ ~Follows(place(row), token, q.forward)
      BY <1>1, <1>14, <2>2 DEF ListGoesOn
    <3>2. ASSUME answer.lastKey # NoKey
          PROVE  ~Follows(place(row), answer.lastKey, q.forward)
      <4>1. PICK last \in answer.items : answer.lastKey = place(last)  BY <1>7, <3>2
      <4>2. Follows(place(last), token, q.forward)  BY <1>7, <1>10, <3>1, <4>1
      <4>3. place(last) \in Nat \X Nat /\ token \in Nat \X Nat /\ place(row) \in Nat \X Nat
        BY <1>4, <1>7, <1>8, <1>9, <3>1, <4>1
      <4> HIDE DEF place
      <4> QED  BY <1>11, <3>1, <4>1, <4>2, <4>3, FollowsOrders
    <3> QED  BY <3>1, <3>2
  <2> QED  BY <1>3, <1>14, <2>1, <2>2
<1>15. ASSUME q.sortKey # "status", NEW id \in lister.there, id \notin lister'.seen
       PROVE  /\ answer.lastKey # NoKey
              /\ \E row \in Found(table, AddPaginationToken(answer.lastKey, q)) : row.id = id
  <2>1. PICK row \in rest : row.id = id  BY <1>1, <1>3, <1>15 DEF ListGoesOn
  <2>2. row \notin answer.items  BY <1>3, <1>15, <2>1
  <2>3. answer.lastKey # NoKey  BY <1>7, <2>1, <2>2
  <2>4. PICK last \in answer.items :
           answer.lastKey = place(last) /\ Follows(place(row), place(last), q.forward)
    BY <1>7, <2>1, <2>2, <2>3
  <2>5. row \in table /\ Listed(row, q, answer.lastKey)  BY <1>5, <2>1, <2>4 DEF Listed
  <2>6. row \in Found(table, AddPaginationToken(answer.lastKey, q))  BY <1>4, <2>5, ListFound
  <2> QED  BY <2>1, <2>3, <2>6
<1>16. /\ lister.person # 0 => q.index = "getResourceByOwner" /\ q.condition = Eq(lister.person)
  BY <1>1 DEF ListGoesOn
<1> HIDE DEF shown, place
<1>17. lister'.pc # "idle"  BY <1>3
<1>18. ASSUME q.sortKey # "status"
       PROVE  \A id \in lister'.seen : \E row \in Found(table', q) :
                 /\ row.id = id
                 /\ lister'.pc = "reading" =>
                       /\ lister'.token # NoKey
                       /\ ~Follows(Position(row, q.index), lister'.token, q.forward)
  BY <1>1, <1>3, <1>14, <1>18 DEF place
<1>19. ASSUME q.sortKey # "status"
       PROVE  \A id \in lister'.there :
                 \/ id \in lister'.seen
                 \/ /\ lister'.pc = "reading"
                    /\ \E row \in Found(table', AddPaginationToken(lister'.token, q)) : row.id = id
  BY <1>1, <1>3, <1>15, <1>19
<1>20. ListGoesOn'
  BY <1>3, <1>4, <1>12, <1>13, <1>16, <1>17, <1>18, <1>19 DEF ListGoesOn
<1> QED  BY <1>3, <1>20

\* The lists that are asked for are of that form.
LEMMA TypesList ==
    ASSUME NEW size \in Nat
    PROVE  ListQuery(ListEnvironmentTypes(size))
<1>1. Limit(size) \in Nat  BY DEF Limit
<1> QED
  BY <1>1 DEF ListEnvironmentTypes, QueryParams, ListQuery, SortAttribute, Attributes, NoCondition,
              Index

\* So are those of the configurations of a type.
LEMMA ConfigsList ==
    ASSUME NEW parent, NEW size \in Nat
    PROVE  ListQuery(ListEnvironmentTypeConfigs(parent, size))
<1> PICK q : q = ListEnvironmentTypeConfigs(parent, size)  OBVIOUS
<1>1. Limit(size) \in Nat  BY DEF Limit
<1>2. SortAttribute(Undefined) = "id"  BY TableAssumption DEF SortAttribute, Index
<1>3. /\ DOMAIN q = {"index", "key", "value", "sortKey", "condition", "start", "limit", "forward"}
      /\ q.index = Undefined /\ q.key = "kind" /\ q.value = "envTypeConfig" /\ q.start = NoKey
      /\ q.sortKey = "sk" /\ q.condition.op = "begins_with" /\ q.limit \in Nat /\ q.forward = TRUE
  BY <1>1 DEF ListEnvironmentTypeConfigs, QueryParams, Begins
<1>4. "id" \in Attributes("envTypeConfig")  BY DEF Attributes
<1> QED  BY <1>2, <1>3, <1>4 DEF ListQuery

\* A list of environments, filtered or sorted or neither.
LEMMA EnvironmentsList ==
    ASSUME NEW size \in Nat
    PROVE  LET q == Environments(size) IN
           /\ ListQuery(q)
           /\ \A value : \A index \in {"getResourceByStatus", "getResourceByName", "getResourceByOwner"} :
                 ListQuery(SetFilter(q, index, value))
           /\ \A low, high : ListQuery(SetRangeFilter(q, "getResourceByCreatedAt", low, high))
           /\ \A forward \in BOOLEAN :
              \A index \in {"getResourceByStatus", "getResourceByName", "getResourceByCreatedAt",
                            "getResourceByOwner"} :
                 ListQuery(SetSort(q, index, forward))
<1> PICK q : q = Environments(size)  OBVIOUS
<1>1. /\ DOMAIN q = {"index", "key", "value", "sortKey", "condition", "start", "limit", "forward"}
      /\ q.index = "getResourceByCreatedAt" /\ q.key = "kind" /\ q.value = "environment"
      /\ q.start = NoKey /\ q.condition = NoCondition /\ q.limit \in Nat /\ q.forward = TRUE
  <2>1. Limit(size) \in Nat  BY DEF Limit
  <2> QED  BY <2>1 DEF Environments, QueryParams
<1> DEFINE indexes == {"getResourceByStatus", "getResourceByName", "getResourceByCreatedAt",
                       "getResourceByOwner"}
<1>2. \A index \in indexes :
         index \in Index /\ SortAttribute(index) \in Attributes("environment")
  BY DEF SortAttribute, Attributes, Index
<1> HIDE DEF indexes
<1>3. \A value : \A index \in indexes : ListQuery(SetFilter(q, index, value))
  <2> TAKE value
  <2> TAKE index \in indexes
  <2> PICK s, c : s = SortAttribute(index) /\ c = Eq(value)  OBVIOUS
  <2> PICK p : p = SetFilter(q, index, value)  OBVIOUS
  <2>1. p = [q EXCEPT !.index = index, !.sortKey = s, !.condition = c]  BY DEF SetFilter
  <2>2. /\ DOMAIN p = DOMAIN q /\ p.index = index /\ p.sortKey = s /\ p.condition = c
        /\ p.key = q.key /\ p.value = q.value /\ p.start = q.start /\ p.limit = q.limit
        /\ p.forward = q.forward
    BY <1>1, <2>1
  <2>3. c.op = "="  BY DEF Eq
  <2> QED  BY <1>1, <1>2, <2>2, <2>3 DEF ListQuery
<1>4. \A low, high : ListQuery(SetRangeFilter(q, "getResourceByCreatedAt", low, high))
  <2> TAKE low, high
  <2> PICK index : index = "getResourceByCreatedAt"  OBVIOUS
  <2> PICK s, c : s = SortAttribute(index) /\ c = Between(low, high)  OBVIOUS
  <2> PICK p : p = SetRangeFilter(q, index, low, high)  OBVIOUS
  <2>1. p = [q EXCEPT !.index = index, !.sortKey = s, !.condition = c]  BY DEF SetRangeFilter
  <2>2. /\ DOMAIN p = DOMAIN q /\ p.index = index /\ p.sortKey = s /\ p.condition = c
        /\ p.key = q.key /\ p.value = q.value /\ p.start = q.start /\ p.limit = q.limit
        /\ p.forward = q.forward
    BY <1>1, <2>1
  <2>3. c.op = "BETWEEN"  BY DEF Between
  <2>4. index \in indexes  BY DEF indexes
  <2> QED  BY <1>1, <1>2, <2>2, <2>3, <2>4 DEF ListQuery
<1>5. \A index \in indexes, forward \in BOOLEAN : ListQuery(SetSort(q, index, forward))
  <2> TAKE index \in indexes, forward \in BOOLEAN
  <2> PICK s : s = SortAttribute(index)  OBVIOUS
  <2> PICK p : p = SetSort(q, index, forward)  OBVIOUS
  <2>1. p = [q EXCEPT !.index = index, !.sortKey = s, !.forward = forward]  BY DEF SetSort
  <2>2. /\ DOMAIN p = DOMAIN q /\ p.index = index /\ p.sortKey = s /\ p.forward = forward
        /\ p.key = q.key /\ p.value = q.value /\ p.start = q.start /\ p.limit = q.limit
        /\ p.condition = q.condition
    BY <1>1, <2>1
  <2> QED  BY <1>1, <1>2, <2>2 DEF ListQuery
<1>6. ListQuery(q)
  <2>1. q.index \in indexes  BY <1>1 DEF indexes
  <2> QED  BY <1>1, <1>2, <2>1 DEF ListQuery
<1>7. {"getResourceByStatus", "getResourceByName", "getResourceByOwner"} \subseteq indexes
  BY DEF indexes
<1> QED  BY <1>3, <1>4, <1>5, <1>6, <1>7 DEF indexes

\* A list of environments begins for an Admin with any of these queries, and for
\* anybody else with the one for their own.
LEMMA ListStarts ==
    ASSUME CatalogTypeOK, NEW size \in Nat, NEW parent,
           BeginTypes(size) \/ BeginConfigs(parent, size) \/ BeginEnvironments(size)
    PROVE  /\ ListGoesOn' /\ lister'.pc = "reading"
           /\ DOMAIN lister' = {"pc", "person", "query", "token", "there", "seen", "again"}
<1>1. RowsOK  BY DEF CatalogTypeOK, RowsOK
<1>2. CASE BeginTypes(size)
  <2>1. Reads(0, ListEnvironmentTypes(size)) /\ table' = table  BY <1>2 DEF BeginTypes
  <2> QED  BY <1>1, <2>1, TypesList, ListBegins
<1>3. CASE BeginConfigs(parent, size)
  <2>1. Reads(0, ListEnvironmentTypeConfigs(parent, size)) /\ table' = table
    BY <1>3 DEF BeginConfigs
  <2> QED  BY <1>1, <2>1, ConfigsList, ListBegins
<1>4. CASE BeginEnvironments(size)
  <2> PICK q : q = Environments(size)  OBVIOUS
  <2>1. table' = table  BY <1>4 DEF BeginEnvironments
  <2>2. ASSUME NEW p \in AdminQueries(q), Reads(0, p)
        PROVE  /\ ListGoesOn' /\ lister'.pc = "reading"
               /\ DOMAIN lister' = {"pc", "person", "query", "token", "there", "seen", "again"}
    <3>1. ListQuery(p)
      <4>1. \/ p = q
            \/ \E value : \E index \in {"getResourceByStatus", "getResourceByName", "getResourceByOwner"} :
                  p = SetFilter(q, index, value)
            \/ \E low, high : p = SetRangeFilter(q, "getResourceByCreatedAt", low, high)
            \/ \E forward \in BOOLEAN :
               \E index \in {"getResourceByStatus", "getResourceByName", "getResourceByCreatedAt",
                             "getResourceByOwner"} :
                  p = SetSort(q, index, forward)
        BY <2>2 DEF AdminQueries
      <4> QED  BY <4>1, EnvironmentsList
    <3> QED  BY <1>1, <2>1, <2>2, <3>1, ListBegins
  <2>3. ASSUME NEW person \in Person, NEW index, NEW label,
               Reads(person, NonAdminQuery(q, person, index, label))
        PROVE  /\ ListGoesOn' /\ lister'.pc = "reading"
               /\ DOMAIN lister' = {"pc", "person", "query", "token", "there", "seen", "again"}
    <3> PICK p : p = SetFilter(q, "getResourceByOwner", person)  OBVIOUS
    <3>1. Reads(person, p)  BY <2>3 DEF NonAdminQuery
    <3>2. ListQuery(p)  BY EnvironmentsList
    <3>3. p.index = "getResourceByOwner" /\ p.condition = Eq(person)
      <4>1. DOMAIN q = {"index", "key", "value", "sortKey", "condition", "start", "limit", "forward"}
        BY EnvironmentsList DEF ListQuery
      <4> QED  BY <4>1 DEF SetFilter
    <3> QED  BY <1>1, <2>1, <3>1, <3>2, <3>3, ListBegins
  <2> QED  BY <1>4, <2>2, <2>3 DEF BeginEnvironments
<1> QED  BY <1>2, <1>3, <1>4

(***************************************************************************)
(* The catalog                                                             *)
(***************************************************************************)
CatalogInv == CatalogTypeOK /\ WriterKnows /\ ConfigOfParent /\ ListGoesOn

\* The steps of the catalog, without the bounds on who takes which.
CatalogSteps ==
    \/ \E id \in Id, product \in Product, label \in Nat : CreateEnvironmentType(id, product, label)
    \/ \E id \in Id, person \in Nat, label \in Nat : CreateEnvironment(id, person, label)
    \/ \E id \in Id, status \in Nat : UpdateEnvironment(id, status)
    \/ UpdateWrites
    \/ \E id \in Id, label \in Nat : CreateConfigWrites(id, label)
    \/ \/ \E id, values : \E kind \in {"envType", "envTypeConfig"} : UpdateReads(kind, id, values)
       \/ \E parent \in Id : CreateConfigReads(parent) \/ CreateConfigReadFails(parent)
    \/ \E parent : \E size \in Nat :
          BeginTypes(size) \/ BeginConfigs(parent, size) \/ BeginEnvironments(size)
    \/ ReadPage
    \/ Tick

\* They are its steps.
LEMMA CatalogNextSteps ==
    ASSUME CatalogNext
    PROVE  CatalogSteps
<1>1. /\ \A label \in Label : label \in Nat
      /\ \A person \in Person : person \in Nat
      /\ \A size \in PageSize : size \in Nat
      /\ \A id \in FewIds : id \in Id
  BY CatalogAssumption
<1>2. CASE TypeStep
  <2>1. CASE \E id \in Id, product \in Product, label \in Label :
                CreateEnvironmentType(id, product, label)
    BY <1>1, <2>1 DEF CatalogSteps
  <2>2. CASE \E id \in Id, values \in [{"label"} -> Label] \cup [{"product"} -> Product] :
                UpdateEnvironmentType(id, values)
    BY <2>2 DEF CatalogSteps, UpdateEnvironmentType
  <2>3. CASE UpdateWrites  BY <2>3 DEF CatalogSteps
  <2>4. CASE \E size \in PageSize : BeginTypes(size)  BY <1>1, <2>4 DEF CatalogSteps
  <2> QED  BY <1>2, <2>1, <2>2, <2>3, <2>4 DEF TypeStep
<1>3. CASE ConfigStep
  <2>1. CASE \E parent \in Id : CreateConfigReads(parent) \/ CreateConfigReadFails(parent)
    BY <2>1 DEF CatalogSteps
  <2>2. CASE \E id \in Id, label \in Label : CreateConfigWrites(id, label)
    BY <1>1, <2>2 DEF CatalogSteps
  <2>3. CASE \E id \in Id, label \in Label : UpdateEnvironmentTypeConfig(id, label)
    BY <2>3 DEF CatalogSteps, UpdateEnvironmentTypeConfig
  <2>4. CASE \E parent \in Id, size \in PageSize : BeginConfigs(parent, size)
    BY <1>1, <2>4 DEF CatalogSteps
  <2> QED  BY <1>3, <2>1, <2>2, <2>3, <2>4 DEF ConfigStep
<1>4. CASE EnvironmentStep
  <2>1. CASE \E id \in Id, person \in Person, label \in Label : CreateEnvironment(id, person, label)
    BY <1>1, <2>1 DEF CatalogSteps
  <2>2. CASE \E id \in FewIds : UpdateEnvironment(id, 2)  BY <1>1, <2>2 DEF CatalogSteps
  <2>3. CASE \E size \in PageSize : BeginEnvironments(size)  BY <1>1, <2>3 DEF CatalogSteps
  <2> QED  BY <1>4, <2>1, <2>2, <2>3 DEF EnvironmentStep
<1>5. CASE FormRows  BY <1>5 DEF FormRows, CatalogSteps
<1>6. CASE \E id \in Id : CreateEnvironment(id, 1, 1)  BY <1>6 DEF CatalogSteps
<1>7. CASE \E id \in FewIds :
              CreateEnvironment(id, 1, 1) \/ UpdateEnvironment(id, 1) \/ UpdateEnvironment(id, 2)
  BY <1>1, <1>7 DEF CatalogSteps
<1>8. CASE ReadPage \/ Tick  BY <1>8 DEF CatalogSteps
<1> QED  BY <1>2, <1>3, <1>4, <1>5, <1>6, <1>7, <1>8 DEF CatalogNext

\* A row that is written by somebody who has read nothing leaves the others' knowledge.
LEMMA CatalogWritten ==
    ASSUME CatalogInv, RowsOK', Evolves, AddsOnly({"envType", "environment", "dataset"}),
           UNCHANGED <<writer, lister, faults>>
    PROVE  CatalogInv'
<1>1. RowsOK /\ faults \in Nat /\ faults' \in Nat /\ faults <= faults'
  BY CatalogAssumption DEF CatalogInv, CatalogTypeOK, RowsOK
<1>2. CatalogTypeOK'  BY DEF CatalogInv, CatalogTypeOK, RowsOK
<1>3. WriterKnows'  BY <1>1, WriterKept DEF CatalogInv
<1>4. ConfigOfParent'  BY <1>1, ConfigsKept DEF CatalogInv, AddsOnly
<1>5. ListGoesOn'  BY ListKept DEF CatalogInv
<1> QED  BY <1>2, <1>3, <1>4, <1>5 DEF CatalogInv

\* Nothing happens to the catalog.
LEMMA CatalogUnchanged ==
    ASSUME CatalogInv, UNCHANGED <<table, now, writer, lister, faults>>
    PROVE  CatalogInv' /\ Evolves /\ AddsOnly({})
<1>1. RowsOK  BY DEF CatalogInv, CatalogTypeOK, RowsOK
<1>2. \A row : RowOK(row)' <=> RowOK(row)  BY DEF RowOK
<1>3. RowsOK'  BY <1>1, <1>2 DEF RowsOK
<1>4. Evolves  BY <1>1, LeftAlone
<1>5. AddsOnly({})
  <2>1. \A r \in table : Same(r, r)  BY DEF Same
  <2> QED  BY <2>1 DEF AddsOnly
<1>6. AddsOnly({"envType", "environment", "dataset"})  BY <1>5 DEF AddsOnly
<1> QED  BY <1>3, <1>4, <1>5, <1>6, CatalogWritten

\* The rows as they were, at the same time or a later one.
LEMMA RowsKept ==
    ASSUME RowsOK, table' = table, now' \in now .. MaxNow
    PROVE  RowsOK'
<1>1. now \in Nat /\ now' \in Nat /\ now <= now' /\ now' \in 1..MaxNow
  BY CatalogAssumption DEF RowsOK
<1>2. \A row \in table : RowOK(row)'
  <2>1. \A row \in table : RowOK(row)  BY DEF RowsOK
  <2>2. \A row \in table : row.createdAt \in 1..now'  BY <1>1, <2>1 DEF RowOK
  <2> QED  BY <2>1, <2>2 DEF RowOK
<1> QED  BY <1>1, <1>2 DEF RowsOK

\* Every step of the catalog keeps what its requests and its lists know.
LEMMA CatalogKept ==
    ASSUME CatalogInv, CatalogSteps
    PROVE  CatalogInv' /\ Evolves /\ AddsOnly({"envType", "envTypeConfig", "environment"})
<1>1. /\ RowsOK /\ WriterKnows /\ ConfigOfParent /\ ListGoesOn /\ CatalogTypeOK
      /\ faults \in Nat /\ faults <= faults
  BY CatalogAssumption DEF CatalogInv, CatalogTypeOK, RowsOK
<1>2. \A r \in table : Same(r, r)  BY DEF Same
<1>3. ASSUME RowsOK', Evolves, AddsOnly({"envType"}) \/ AddsOnly({"environment"}) \/ AddsOnly({}),
             UNCHANGED <<writer, lister, faults>>
      PROVE  CatalogInv' /\ Evolves /\ AddsOnly({"envType", "envTypeConfig", "environment"})
  <2>1. AddsOnly({"envType", "environment", "dataset"})  BY <1>3 DEF AddsOnly
  <2>2. AddsOnly({"envType", "envTypeConfig", "environment"})  BY <1>3 DEF AddsOnly
  <2> QED  BY <1>3, <2>1, <2>2, CatalogWritten
<1>4. CASE \E id \in Id, product \in Product, label \in Nat : CreateEnvironmentType(id, product, label)
  <2>1. RowsOK' /\ Evolves /\ AddsOnly({"envType"})  BY <1>1, <1>4, TypeCreated
  <2>2. UNCHANGED <<writer, lister, faults>>  BY <1>4 DEF CreateEnvironmentType
  <2> QED  BY <1>3, <2>1, <2>2
<1>5. CASE \E id \in Id, person \in Nat, label \in Nat : CreateEnvironment(id, person, label)
  <2>1. RowsOK' /\ Evolves /\ AddsOnly({"environment"})  BY <1>1, <1>5, EnvironmentCreated
  <2>2. UNCHANGED <<writer, lister, faults>>  BY <1>5 DEF CreateEnvironment
  <2> QED  BY <1>3, <2>1, <2>2
<1>6. CASE \E id \in Id, status \in Nat : UpdateEnvironment(id, status)
  <2>1. RowsOK' /\ Evolves /\ AddsOnly({})  BY <1>1, <1>6, EnvironmentUpdated
  <2>2. UNCHANGED <<writer, lister, faults>>  BY <1>6 DEF UpdateEnvironment
  <2> QED  BY <1>3, <2>1, <2>2
<1>7. CASE UpdateWrites
  <2>1. RowsOK' /\ Evolves /\ AddsOnly({})  BY <1>1, <1>7, UpdateWritten
  <2>2. writer' = Idle /\ UNCHANGED <<lister, faults>>  BY <1>7 DEF UpdateWrites
  <2>3. WriterKnows' /\ writer'.pc = "idle"  BY <2>2 DEF WriterKnows, Idle
  <2>4. CatalogTypeOK'  BY <1>1, <2>1, <2>2, <2>3 DEF CatalogTypeOK, RowsOK
  <2>5. ConfigOfParent'  BY <1>1, <2>1, <2>2, ConfigsKept DEF AddsOnly
  <2>6. ListGoesOn'  BY <1>1, <2>1, <2>2, ListKept
  <2>7. AddsOnly({"envType", "envTypeConfig", "environment"})  BY <2>1 DEF AddsOnly
  <2> QED  BY <2>1, <2>3, <2>4, <2>5, <2>6, <2>7 DEF CatalogInv
<1>8. CASE \E id \in Id, label \in Nat : CreateConfigWrites(id, label)
  <2>1. RowsOK' /\ Evolves /\ AddsOnly({"envTypeConfig"})  BY <1>1, <1>8, ConfigCreated
  <2>2. ConfigOfParent' /\ WriterKnows' /\ writer' = Idle  BY <1>1, <1>8, NewConfigOfParent
  <2>3. UNCHANGED <<lister, faults>>  BY <1>8 DEF CreateConfigWrites
  <2>4. writer'.pc = "idle"  BY <2>2 DEF Idle
  <2>5. CatalogTypeOK'  BY <1>1, <2>1, <2>3, <2>4 DEF CatalogTypeOK, RowsOK
  <2>6. ListGoesOn'  BY <1>1, <2>1, <2>3, ListKept
  <2>7. AddsOnly({"envType", "envTypeConfig", "environment"})  BY <2>1 DEF AddsOnly
  <2> QED  BY <2>1, <2>2, <2>5, <2>6, <2>7 DEF CatalogInv
<1>9. ASSUME table' = table
      PROVE  Evolves /\ AddsOnly({"envType", "envTypeConfig", "environment"})
  BY <1>1, <1>2, <1>9, LeftAlone DEF AddsOnly
<1>10. ASSUME table' = table, now' = now
       PROVE  RowsOK'
  <2>1. now' \in now .. MaxNow  BY <1>1, <1>10, CatalogAssumption DEF RowsOK
  <2> QED  BY <1>1, <1>10, <2>1, RowsKept
<1>11. CASE \/ \E id, values : \E kind \in {"envType", "envTypeConfig"} : UpdateReads(kind, id, values)
            \/ \E parent \in Id : CreateConfigReads(parent) \/ CreateConfigReadFails(parent)
  <2>1. WriterKnows' /\ writer'.pc \in {"updating", "creating"}  BY <1>1, <1>11, RequestReads
  <2>2. UNCHANGED <<table, now, lister>>
    BY <1>11 DEF UpdateReads, CreateConfigReads, CreateConfigReadFails
  <2>3. faults' = faults \/ (faults < MaxFaults /\ faults' = faults + 1)
    BY <1>11 DEF UpdateReads, CreateConfigReads, CreateConfigReadFails
  <2>4. faults' \in 0..MaxFaults /\ faults' \in Nat /\ faults <= faults'
    BY <1>1, <2>3, CatalogAssumption DEF CatalogTypeOK
  <2>5. CatalogTypeOK'  BY <1>1, <1>10, <2>1, <2>2, <2>4 DEF CatalogTypeOK, RowsOK
  <2>6. ConfigOfParent'  BY <1>1, <1>2, <1>9, <2>2, <2>4, ConfigsKept
  <2>7. ListGoesOn'  BY <1>1, <1>9, <2>2, ListKept
  <2> QED  BY <1>9, <2>1, <2>2, <2>5, <2>6, <2>7 DEF CatalogInv
<1>12. CASE \/ \E parent : \E size \in Nat :
                 BeginTypes(size) \/ BeginConfigs(parent, size) \/ BeginEnvironments(size)
            \/ ReadPage
  <2>1. UNCHANGED <<table, now, writer, faults>>
    BY <1>12 DEF BeginTypes, BeginConfigs, BeginEnvironments, ReadPage
  <2>2. /\ ListGoesOn' /\ lister'.pc \in {"reading", "read"}
        /\ DOMAIN lister' = {"pc", "person", "query", "token", "there", "seen", "again"}
    <3>1. CASE \E parent : \E size \in Nat :
                  BeginTypes(size) \/ BeginConfigs(parent, size) \/ BeginEnvironments(size)
      BY <1>1, <3>1, ListStarts
    <3>2. CASE ReadPage
      <4>1. lister.pc = "reading"  BY <3>2 DEF ReadPage
      <4>2. DOMAIN lister = {"pc", "person", "query", "token", "there", "seen", "again"}
        BY <1>1, <4>1 DEF CatalogTypeOK
      <4> QED  BY <1>1, <3>2, <4>2, PageRead
    <3> QED  BY <1>12, <3>1, <3>2
  <2>3. CatalogTypeOK'  BY <1>1, <1>10, <2>1, <2>2 DEF CatalogTypeOK, RowsOK
  <2>4. WriterKnows'  BY <1>1, <1>9, <2>1, WriterKept
  <2>5. ConfigOfParent'  BY <1>1, <1>2, <1>9, <2>1, ConfigsKept
  <2> QED  BY <1>9, <2>1, <2>2, <2>3, <2>4, <2>5 DEF CatalogInv
<1>13. CASE Tick
  <2>1. now' = now + 1 /\ now < MaxNow /\ UNCHANGED <<table, writer, lister, faults>>
    BY <1>13 DEF Tick
  <2>2. now' \in now .. MaxNow  BY <1>1, <2>1, CatalogAssumption DEF RowsOK
  <2>3. RowsOK'  BY <1>1, <2>1, <2>2, RowsKept
  <2>4. AddsOnly({})  BY <1>2, <2>1 DEF AddsOnly
  <2> QED  BY <1>3, <1>9, <2>1, <2>3, <2>4
<1> QED  BY <1>4, <1>5, <1>6, <1>7, <1>8, <1>11, <1>12, <1>13 DEF CatalogSteps

\* At the end of a list everything has been shown once.
LEMMA ListsOnce ==
    ASSUME CatalogTypeOK, ListGoesOn
    PROVE  ListedOnce
<1>1. SUFFICES ASSUME lister.pc = "read", lister.query.sortKey # "status"
               PROVE  lister.again = {} /\ lister.there \subseteq lister.seen
  BY DEF ListedOnce
<1>2. lister.pc # "idle" /\ lister.pc # "reading"  BY <1>1
<1>3. lister.again = {} /\ \A id \in lister.there : id \in lister.seen
  BY <1>1, <1>2 DEF ListGoesOn
<1> QED  BY <1>3

\* What was shown to somebody was found in the list of their own environments.
LEMMA ListsOwn ==
    ASSUME CatalogTypeOK, ListGoesOn
    PROVE  OwnEnvironmentsOnly
<1> PICK q, person : q = lister.query /\ person = lister.person  OBVIOUS
<1>1. SUFFICES ASSUME lister.pc # "idle", NEW row \in table, row.id \in lister.seen, person # 0
               PROVE  row.owner = person
  BY DEF OwnEnvironmentsOnly
<1>2. ListQuery(q) /\ q.index = "getResourceByOwner" /\ q.condition = Eq(person)
  BY <1>1 DEF ListGoesOn
<1>3. q.sortKey = "owner"
  <2>1. q.condition.op = "="  BY <1>2 DEF Eq
  <2>2. q.sortKey = SortAttribute(q.index)  BY <1>2, <2>1, ListCondition
  <2>3. SortAttribute("getResourceByOwner") = "owner"  BY TableAssumption DEF SortAttribute, Index
  <2> QED  BY <1>2, <2>2, <2>3
<1>4. PICK found \in Found(table, q) : found.id = row.id
  BY <1>1, <1>3 DEF ListGoesOn
<1>5. found \in table /\ Listed(found, q, NoKey)  BY <1>2, <1>4, WholeList
<1>6. found = row  BY <1>4, <1>5 DEF CatalogTypeOK
<1>7. found["owner"] = person  BY <1>2, <1>3, <1>5 DEF Listed, Meets, Eq
<1> QED  BY <1>6, <1>7

(***************************************************************************)
(* The page of environments                                                *)
(***************************************************************************)
PageInv == PageTypeOK /\ TokensCarryViews /\ ButtonsHaveRows /\ SpinnerMeansRequest

\* What a page is made of, and whose tokens it has.
PageOK(p) ==
    /\ DOMAIN p = {"view", "token", "index", "tokens", "openEnd", "count", "rendered"}
    /\ p.view \in View /\ p.index \in 1..MaxPages /\ p.count \in 1..MaxPages
    /\ DOMAIN p.tokens = 1..MaxPages + 1
    /\ \A n \in 1..MaxPages + 1 : TokenOf(p.tokens[n], p.view)
    /\ TokenOf(p.token, p.view)

\* The answers that are kept have tokens of their views, and rows.
CacheOK(c) ==
    \A url \in DOMAIN c :
        TokenOf(c[url].token, url.view) /\ \A row \in c[url].items : row.id \in Id

\* No token is a token of any view.
LEMMA NoTokenOf ==
    ASSUME NEW view
    PROVE  TokenOf(NoToken, view)
BY DEF TokenOf

\* The first page of a view has no tokens.
LEMMA FirstPageOK ==
    ASSUME NEW view \in View, NEW rendered
    PROVE  PageOK(FirstPage(view, rendered))
<1> PICK p : p = FirstPage(view, rendered)  OBVIOUS
<1>1. /\ DOMAIN p = {"view", "token", "index", "tokens", "openEnd", "count", "rendered"}
      /\ p.view = view /\ p.token = NoToken /\ p.index = 1 /\ p.count = 1
      /\ p.tokens = [n \in 1..MaxPages + 1 |-> NoToken]
  BY DEF FirstPage
<1>2. MaxPages \in Nat \ {0}  BY PageAssumption
<1>3. 1 \in 1..MaxPages  BY <1>2
<1>4. DOMAIN p.tokens = 1..MaxPages + 1 /\ \A n \in 1..MaxPages + 1 : p.tokens[n] = NoToken
  BY <1>1
<1> QED  BY <1>1, <1>3, <1>4, NoTokenOf DEF PageOK

\* Saving the token of the answer that is shown saves one of the page's view.
LEMMA TokenSaved ==
    ASSUME NEW p, PageOK(p), NEW c, CacheOK(c)
    PROVE  PageOK(SaveToken(p, c))
<1> PICK token : token = Shown(p, c).token  OBVIOUS
<1>1. TokenOf(token, p.view)
  <2>1. CASE Url(p) \in DOMAIN c
    <3>1. Url(p).view = p.view  BY DEF Url
    <3>2. token = c[Url(p)].token  BY <2>1 DEF Shown
    <3>3. TokenOf(c[Url(p)].token, Url(p).view)  BY <2>1 DEF CacheOK
    <3> QED  BY <3>1, <3>2, <3>3
  <2>2. CASE Url(p) \notin DOMAIN c
    <3>1. token = NoToken  BY <2>2 DEF Shown
    <3> QED  BY <3>1, NoTokenOf
  <2> QED  BY <2>1, <2>2
<1>2. CASE token.at = p.rendered.at
  <2>1. SaveToken(p, c) = p  BY <1>2 DEF SaveToken
  <2> QED  BY <2>1
<1>3. CASE token.at # p.rendered.at
  <2> PICK i, old : i = p.index + 1 /\ old = p.tokens  OBVIOUS
  <2> PICK s : s = SaveToken(p, c)  OBVIOUS
  <2>1. s = [p EXCEPT !.tokens = [old EXCEPT ![i] = token], !.rendered = token]
    BY <1>3 DEF SaveToken
  <2>2. DOMAIN p = {"view", "token", "index", "tokens", "openEnd", "count", "rendered"}
    BY DEF PageOK
  <2>3. /\ DOMAIN s = DOMAIN p /\ s.view = p.view /\ s.token = p.token /\ s.index = p.index
        /\ s.count = p.count /\ s.tokens = [old EXCEPT ![i] = token]
    BY <2>1, <2>2
  <2>4. DOMAIN old = 1..MaxPages + 1  BY DEF PageOK
  <2>5. DOMAIN s.tokens = 1..MaxPages + 1  BY <2>3, <2>4
  <2>6. \A n \in 1..MaxPages + 1 : s.tokens[n] = IF n = i THEN token ELSE old[n]
    BY <2>3, <2>4
  <2>7. \A n \in 1..MaxPages + 1 : TokenOf(s.tokens[n], p.view)
    <3>1. \A n \in 1..MaxPages + 1 : TokenOf(old[n], p.view)  BY DEF PageOK
    <3> QED  BY <1>1, <2>6, <3>1
  <2> QED  BY <2>3, <2>5, <2>7 DEF PageOK
<1> QED  BY <1>2, <1>3

\* An answer carries the view it was asked for, and rows of the table.
LEMMA AnswerOK ==
    ASSUME CatalogTypeOK, NEW url
    PROVE  TokenOf(Answer(url).token, url.view) /\ \A row \in Answer(url).items : row.id \in Id
<1> PICK q : q = AskedFor(url)  OBVIOUS
<1> PICK answer : answer = Page(table, q)  OBVIOUS
<1>1. Answer(url).token = IF answer.lastKey = NoKey THEN NoToken
                          ELSE [at |-> answer.lastKey, of |-> url.view]
  BY DEF Answer, GetPaginationToken
<1>2. TokenOf(Answer(url).token, url.view)  BY <1>1 DEF TokenOf
<1>3. answer.items \subseteq table  BY DEF Page, Found
<1>4. ASSUME NEW row \in Answer(url).items
      PROVE  row.id \in Id
  <2>1. PICK r \in answer.items : row = [id |-> r.id, status |-> r.status]
    BY <1>4 DEF Answer
  <2>2. r.id \in Id  BY <1>3, <2>1 DEF CatalogTypeOK, RowOK
  <2> QED  BY <2>1, <2>2
<1> QED  BY <1>2, <1>4

\* What the page has of lists, and what it has of single rows.
Paging ==
    /\ PageOK(page) /\ CacheOK(cache)
    /\ \A url \in asked : TokenOf(url.token, url.view)
    /\ restarts \in 0..MaxRestarts /\ reloads \in 0..MaxReloads
Buttons ==
    /\ busy \in [Action -> SUBSET Id]
    /\ requests \in [Slot -> [pc : {"none", "calling", "reloading"}, action : Action, id : Id \cup {0}]]
    /\ selected = NoRow \/ selected.id \in Id
    /\ SpinnerMeansRequest

\* The page asks with a token of its view, whatever event it handles.
LEMMA UrlOK ==
    ASSUME NEW p, PageOK(p)
    PROVE  TokenOf(Url(p).token, Url(p).view)
BY DEF Url, PageOK

\* So it does after an event.
LEMMA EventHandled ==
    ASSUME Paging, NEW p, PageOK(p), Handled(p), restarts' \in 0..MaxRestarts, reloads' = reloads
    PROVE  Paging'
<1> PICK url : url = Url(p)  OBVIOUS
<1>1. PageOK(page')
  <2>1. page' = SaveToken(p, cache)  BY DEF Handled
  <2> QED  BY <2>1, TokenSaved DEF Paging
<1>2. cache' = cache /\ asked' \subseteq asked \cup {url}  BY DEF Handled
<1>3. TokenOf(url.token, url.view)  BY UrlOK
<1> QED  BY <1>1, <1>2, <1>3 DEF Paging

\* What the page pages through, whatever happens in whatever order.
LEMMA PagingKept ==
    ASSUME CatalogTypeOK, Paging,
           \/ Restart \/ Reload
           \/ \E n \in 1..MaxPages : OnPaginationChange(n)
           \/ \E url \in asked : Answered(url) \/ NotAnswered(url)
    PROVE  Paging'
<1>1. CASE Restart
  <2>1. PICK view \in View : Restarted(view)  BY <1>1 DEF Restart
  <2>2. Handled(FirstPage(view, page.rendered)) /\ PageOK(FirstPage(view, page.rendered))
    BY <2>1, FirstPageOK DEF Restarted
  <2>3. restarts' \in 0..MaxRestarts /\ reloads' = reloads
    BY <1>1, PageAssumption DEF Restart, Paging
  <2> QED  BY <2>2, <2>3, EventHandled
<1>2. CASE Reload
  <2> PICK url : url = Url(page)  OBVIOUS
  <2>1. asked' = asked \cup {url} /\ UNCHANGED <<page, cache, restarts>>  BY <1>2 DEF Reload
  <2>2. TokenOf(url.token, url.view)  BY UrlOK DEF Paging
  <2>3. reloads' \in 0..MaxReloads  BY <1>2, PageAssumption DEF Reload, Paging
  <2> QED  BY <2>1, <2>2, <2>3 DEF Paging
<1>3. ASSUME NEW n \in 1..MaxPages, OnPaginationChange(n)
      PROVE  Paging'
  <2>1. n \in Nat /\ MaxPages \in Nat /\ 1 <= n /\ n <= MaxPages  BY PageAssumption
  <2>2. PageOK(page)  BY DEF Paging
  <2>3. UNCHANGED <<restarts, reloads>>  BY <1>3 DEF OnPaginationChange, buttonVars
  <2>4. CASE n > 1 /\ page.tokens[n] = NoToken
    <3> PICK p : p = [page EXCEPT !.index = n - 1, !.openEnd = FALSE]  OBVIOUS
    <3>1. Handled(p)  BY <1>3, <2>4 DEF OnPaginationChange
    <3>2. /\ DOMAIN p = DOMAIN page /\ p.view = page.view /\ p.token = page.token
          /\ p.index = n - 1 /\ p.tokens = page.tokens /\ p.count = page.count
      BY <2>2 DEF PageOK
    <3>3. n - 1 \in 1..MaxPages  BY <2>1, <2>4
    <3>4. PageOK(p)  BY <2>2, <3>2, <3>3 DEF PageOK
    <3> QED  BY <2>3, <3>1, <3>4, EventHandled DEF Paging
  <2>5. CASE ~(n > 1 /\ page.tokens[n] = NoToken)
    <3> PICK token, count : token = page.tokens[n] /\ count = IF n > page.count THEN n ELSE page.count
      OBVIOUS
    <3> PICK p : p = [page EXCEPT !.index = n, !.token = token, !.count = count]  OBVIOUS
    <3>1. Handled(p)
      <4>1. Handled([page EXCEPT !.index = n, !.token = page.tokens[n],
                                 !.count = IF n > @ THEN n ELSE @])
        BY <1>3, <2>5 DEF OnPaginationChange
      <4>2. p = [page EXCEPT !.index = n, !.token = page.tokens[n],
                             !.count = IF n > @ THEN n ELSE @]
        BY <2>2 DEF PageOK
      <4> QED  BY <4>1, <4>2
    <3>2. /\ DOMAIN p = DOMAIN page /\ p.view = page.view /\ p.token = token
          /\ p.index = n /\ p.tokens = page.tokens /\ p.count = count
      BY <2>2 DEF PageOK
    <3>3. count \in 1..MaxPages  BY <2>2 DEF PageOK
    <3>4. TokenOf(token, page.view)
      <4>1. n \in 1..MaxPages + 1  BY <2>1
      <4> QED  BY <2>2, <4>1 DEF PageOK
    <3>5. PageOK(p)  BY <2>2, <3>2, <3>3, <3>4 DEF PageOK
    <3> QED  BY <2>3, <3>1, <3>5, EventHandled DEF Paging
  <2> QED  BY <2>4, <2>5
<1>4. ASSUME NEW url \in asked, Answered(url)
      PROVE  Paging'
  <2> PICK answer : answer = Answer(url)  OBVIOUS
  <2>1. /\ asked' = asked \ {url}
        /\ cache' = [u \in DOMAIN cache \cup {url} |-> IF u = url THEN answer ELSE cache[u]]
        /\ page' = SaveToken(page, cache')
        /\ UNCHANGED <<restarts, reloads>>
    BY <1>4 DEF Answered
  <2>2. TokenOf(answer.token, url.view) /\ \A row \in answer.items : row.id \in Id
    BY AnswerOK
  <2>3. CacheOK(cache')  BY <2>1, <2>2 DEF CacheOK, Paging
  <2>4. PageOK(page')  BY <2>1, <2>3, TokenSaved DEF Paging
  <2> QED  BY <2>1, <2>3, <2>4 DEF Paging
<1>5. ASSUME NEW url \in asked, NotAnswered(url)
      PROVE  Paging'
  <2>1. asked' = asked \ {url} /\ UNCHANGED <<page, cache, restarts, reloads>>
    BY <1>5 DEF NotAnswered
  <2> QED  BY <2>1 DEF Paging
<1> QED  BY <1>1, <1>2, <1>3, <1>4, <1>5

\* A button asks for the same page again.
LEMMA AskedAgain ==
    ASSUME Paging, asked' \subseteq asked \cup {Url(page)}, UNCHANGED <<page, cache, restarts, reloads>>
    PROVE  Paging'
<1> PICK url : url = Url(page)  OBVIOUS
<1>1. TokenOf(url.token, url.view)  BY UrlOK DEF Paging
<1> QED  BY <1>1 DEF Paging

\* A row stays marked by the call that was made for it.
LEMMA ButtonsKept ==
    ASSUME Paging, Buttons,
           \/ Select
           \/ \E s \in Slot :
                \/ \E action \in Action : ExecuteAction(s, action)
                \/ ActionDone(s) \/ ActionEnds(s)
    PROVE  Paging' /\ Buttons'
<1>1. /\ busy \in [Action -> SUBSET Id]
      /\ requests \in [Slot -> [pc : {"none", "calling", "reloading"}, action : Action, id : Id \cup {0}]]
  BY DEF Buttons
<1>2. CASE Select
  <2>1. /\ \E row \in Shown(page, cache).items \cup {NoRow} : selected' = row
        /\ UNCHANGED <<page, cache, asked, busy, requests, restarts, reloads>>
    BY <1>2 DEF Select
  <2>2. \A row \in Shown(page, cache).items : row.id \in Id  BY DEF Shown, Paging, CacheOK
  <2>3. selected' = NoRow \/ selected'.id \in Id  BY <2>1, <2>2
  <2>4. Buttons'  BY <2>1, <2>3 DEF Buttons, SpinnerMeansRequest
  <2> QED  BY <2>1, <2>4, AskedAgain
<1>3. ASSUME NEW s \in Slot, NEW action \in Action, ExecuteAction(s, action)
      PROVE  Paging' /\ Buttons'
  <2> PICK id : id = selected.id  OBVIOUS
  <2>1. /\ requests[s] = NoRequest /\ selected # NoRow
        /\ requests' = [requests EXCEPT ![s] = [pc |-> "calling", action |-> action, id |-> id]]
        /\ busy' = [busy EXCEPT ![action] = @ \cup {id}]
        /\ UNCHANGED <<page, cache, asked, selected, restarts, reloads>>
    BY <1>3 DEF ExecuteAction
  <2>2. id \in Id  BY <2>1 DEF Buttons
  <2>3. /\ busy' \in [Action -> SUBSET Id]
        /\ requests' \in [Slot -> [pc : {"none", "calling", "reloading"}, action : Action,
                                   id : Id \cup {0}]]
    BY <1>1, <2>1, <2>2
  <2>4. SpinnerMeansRequest'
    <3>1. SUFFICES ASSUME NEW a \in Action \ {"connect"}, NEW i \in busy'[a]
                   PROVE  \E t \in Slot : requests'[t].action = a /\ requests'[t].id = i
      BY DEF SpinnerMeansRequest
    <3>2. CASE a = action /\ i = id
      <4>1. requests'[s].action = a /\ requests'[s].id = i  BY <1>1, <2>1, <3>2
      <4> QED  BY <4>1
    <3>3. CASE i \in busy[a]
      <4>1. PICK t \in Slot : requests[t].action = a /\ requests[t].id = i
        BY <3>3 DEF Buttons, SpinnerMeansRequest
      <4>2. requests[s].action = "connect"  BY <2>1 DEF NoRequest
      <4>3. t # s  BY <4>1, <4>2
      <4>4. requests'[t] = requests[t]  BY <1>1, <2>1, <4>3
      <4> QED  BY <4>1, <4>4
    <3>4. i \in busy[a] \/ (a = action /\ i = id)  BY <1>1, <2>1, <3>1
    <3> QED  BY <3>2, <3>3, <3>4
  <2>5. Buttons'  BY <2>1, <2>3, <2>4 DEF Buttons
  <2> QED  BY <2>1, <2>5, AskedAgain
<1>4. ASSUME NEW s \in Slot, ActionDone(s)
      PROVE  Paging' /\ Buttons'
  <2>1. /\ requests' = [requests EXCEPT ![s].pc = "reloading"]
        /\ busy' = IF requests[s].action = "connect" THEN [busy EXCEPT !["connect"] = {}] ELSE busy
        /\ asked' = asked \cup {Url(page)}
        /\ UNCHANGED <<page, cache, selected, restarts, reloads>>
    BY <1>4 DEF ActionDone
  <2>2. /\ busy' \in [Action -> SUBSET Id]
        /\ requests' \in [Slot -> [pc : {"none", "calling", "reloading"}, action : Action,
                                   id : Id \cup {0}]]
    BY <1>1, <2>1
  <2>3. \A t \in Slot : requests'[t].action = requests[t].action /\ requests'[t].id = requests[t].id
    BY <1>1, <2>1
  <2>4. \A a \in Action \ {"connect"} : busy'[a] = busy[a]  BY <1>1, <2>1
  <2>5. SpinnerMeansRequest'  BY <2>3, <2>4 DEF Buttons, SpinnerMeansRequest
  <2>6. Buttons'  BY <2>1, <2>2, <2>5 DEF Buttons
  <2> QED  BY <2>1, <2>6, AskedAgain
<1>5. ASSUME NEW s \in Slot, ActionEnds(s)
      PROVE  Paging' /\ Buttons'
  <2> PICK id : id = requests[s].id  OBVIOUS
  <2>1. /\ requests' = [requests EXCEPT ![s] = NoRequest]
        /\ busy' = [action \in Action |-> IF action = "connect" THEN busy[action]
                                          ELSE busy[action] \ {id}]
        /\ UNCHANGED <<page, cache, asked, selected, restarts, reloads>>
    BY <1>5 DEF ActionEnds
  <2>2. NoRequest \in [pc : {"none", "calling", "reloading"}, action : Action, id : Id \cup {0}]
    BY DEF NoRequest, Action
  <2>3. /\ busy' \in [Action -> SUBSET Id]
        /\ requests' \in [Slot -> [pc : {"none", "calling", "reloading"}, action : Action,
                                   id : Id \cup {0}]]
    BY <1>1, <2>1, <2>2
  <2>4. SpinnerMeansRequest'
    <3>1. SUFFICES ASSUME NEW a \in Action \ {"connect"}, NEW i \in busy'[a]
                   PROVE  \E t \in Slot : requests'[t].action = a /\ requests'[t].id = i
      BY DEF SpinnerMeansRequest
    <3>2. i \in busy[a] /\ i # id  BY <2>1, <3>1
    <3>3. PICK t \in Slot : requests[t].action = a /\ requests[t].id = i
      BY <3>2 DEF Buttons, SpinnerMeansRequest
    <3>4. requests'[t] = requests[t]  BY <1>1, <2>1, <3>2, <3>3
    <3> QED  BY <3>3, <3>4
  <2>5. Buttons'  BY <2>1, <2>3, <2>4 DEF Buttons
  <2> QED  BY <2>1, <2>5, AskedAgain
<1> QED  BY <1>2, <1>3, <1>4, <1>5

\* The two halves are the invariant of the page.
LEMMA PageHalves == PageInv <=> Paging /\ Buttons
BY DEF PageInv, PageTypeOK, TokensCarryViews, ButtonsHaveRows, Paging, PageOK, CacheOK, Buttons

\* A step of the page keeps it.
LEMMA PageKept ==
    ASSUME CatalogTypeOK, PageInv, PageNext \/ UNCHANGED pageVars
    PROVE  PageInv'
<1>1. Paging /\ Buttons  BY PageHalves
<1>2. CASE UNCHANGED pageVars
  BY <1>2 DEF pageVars, buttonVars, PageInv, PageTypeOK, TokensCarryViews, ButtonsHaveRows,
              SpinnerMeansRequest
<1>3. ASSUME Paging', Buttons'
      PROVE  PageInv'
  BY <1>3 DEF PageInv, PageTypeOK, TokensCarryViews, ButtonsHaveRows, Paging, PageOK, CacheOK, Buttons
<1>4. CASE \/ Restart \/ Reload
           \/ \E n \in 1..MaxPages : OnPaginationChange(n)
           \/ \E url \in asked : Answered(url) \/ NotAnswered(url)
  <2>1. Paging'  BY <1>1, <1>4, PagingKept
  <2>2. UNCHANGED buttonVars
    BY <1>4 DEF Restart, Reload, OnPaginationChange, Answered, NotAnswered
  <2>3. Buttons'  BY <1>1, <2>2 DEF Buttons, buttonVars, SpinnerMeansRequest
  <2> QED  BY <1>3, <2>1, <2>3
<1>5. CASE \/ Select
           \/ \E s \in Slot :
                \/ \E action \in Action : ExecuteAction(s, action)
                \/ ActionDone(s) \/ ActionEnds(s)
  BY <1>1, <1>3, <1>5, ButtonsKept
<1> QED  BY <1>2, <1>4, <1>5 DEF PageNext, PagingStep, ButtonStep

(***************************************************************************)
(* The form that creates an environment                                    *)
(***************************************************************************)
FormInv == FormTypeOK /\ FormKnows

\* A configuration of the type is in the table.
HasConfig(config, type) ==
    \E row \in OfKind("envTypeConfig") : row.id = config /\ row.parent = type

\* It stays there.
LEMMA ConfigStays ==
    ASSUME RowsOK, Evolves, NEW config, NEW type, HasConfig(config, type)
    PROVE  HasConfig(config, type)'
<1>1. PICK row \in OfKind("envTypeConfig") : row.id = config /\ row.parent = type  BY DEF HasConfig
<1>2. "parent" \in DOMAIN row  BY DEF OfKind, RowsOK, RowOK, Attributes
<1>3. PICK s \in OfKind("envTypeConfig")' : s.id = config /\ s.parent = type
  BY <1>1, <1>2, RowStays
<1> QED  BY <1>3 DEF HasConfig

\* What the form has stays true while it is left alone.
LEMMA FormLeftAlone ==
    ASSUME RowsOK, Evolves, FormInv, form' = form
    PROVE  FormInv'
<1>1. FormTypeOK'  BY DEF FormInv, FormTypeOK
<1>2. \A type \in Id : \A config \in form.configs[type] : HasConfig(config, type)'
  BY ConfigStays DEF FormInv, FormKnows, HasConfig
<1>3. form.config # Nothing => HasConfig(form.config, form.type)'
  BY ConfigStays DEF FormInv, FormKnows, HasConfig
<1>4. FormKnows'  BY <1>2, <1>3 DEF FormInv, FormKnows, HasConfig
<1> QED  BY <1>1, <1>4 DEF FormInv

\* The empty form says nothing.
LEMMA EmptyFormOK ==
    ASSUME form' = EmptyForm
    PROVE  FormInv'
<1>1. /\ DOMAIN form' = {"types", "configs", "filled", "type", "config", "pc"}
      /\ form'.types = {} /\ form'.configs = [type \in Id |-> {}] /\ form'.type = Nothing
      /\ form'.config = Nothing /\ form'.pc = "editing"
  BY DEF EmptyForm
<1>2. DOMAIN form'.configs = Id /\ \A type \in Id : form'.configs[type] = {}  BY <1>1
<1> QED  BY <1>1, <1>2 DEF FormInv, FormTypeOK, FormKnows

\* The list of a type's configurations has configurations of that type.
LEMMA ConfigsFound ==
    ASSUME CatalogTypeOK, NEW type, NEW row \in FirstRows(ListEnvironmentTypeConfigs(type, 0))
    PROVE  row \in OfKind("envTypeConfig") /\ row.parent = type
<1> PICK q : q = ListEnvironmentTypeConfigs(type, 0)  OBVIOUS
<1>1. ListQuery(q)  BY ConfigsList
<1>2. q.value = "envTypeConfig" /\ q.condition = Begins(type)
  BY DEF ListEnvironmentTypeConfigs, QueryParams
<1>3. row \in Found(table, q)  BY DEF FirstRows, Page
<1>4. row \in table /\ Listed(row, q, NoKey)  BY <1>1, <1>3, WholeList
<1>5. row["kind"] = "envTypeConfig" /\ row["parent"] = type
  BY <1>2, <1>4 DEF Listed, Meets, Begins
<1> QED  BY <1>4, <1>5 DEF OfKind

\* A step of the form keeps it.
LEMMA FormKept ==
    ASSUME CatalogTypeOK, FormInv, FormStep, table' = table
    PROVE  FormInv'
<1> PICK types, configs, filled, type, config, pc :
       /\ types = form.types /\ configs = form.configs /\ filled = form.filled
       /\ type = form.type /\ config = form.config /\ pc = form.pc
  OBVIOUS
<1>1. /\ DOMAIN form = {"types", "configs", "filled", "type", "config", "pc"}
      /\ types \subseteq Id /\ pc \in {"editing", "submitting"}
      /\ type \in Id \cup {Nothing} /\ config \in Id \cup {Nothing}
      /\ DOMAIN configs = Id
      /\ \A t \in Id : \A c \in configs[t] : HasConfig(c, t)
      /\ config # Nothing => HasConfig(config, type)
  BY DEF FormInv, FormTypeOK, FormKnows, HasConfig
<1>2. OfKind("envTypeConfig")' = OfKind("envTypeConfig")  BY DEF OfKind
<1>3. ASSUME DOMAIN form' = DOMAIN form, form'.types \subseteq Id,
             form'.pc \in {"editing", "submitting"}, form'.type \in Id \cup {Nothing},
             form'.config \in Id \cup {Nothing}, DOMAIN form'.configs = Id,
             \A t \in Id : \A c \in form'.configs[t] : HasConfig(c, t),
             form'.config # Nothing => HasConfig(form'.config, form'.type)
      PROVE  FormInv'
  <2>1. FormTypeOK'  BY <1>1, <1>3 DEF FormTypeOK
  <2>2. FormKnows'  BY <1>2, <1>3 DEF FormKnows, HasConfig
  <2> QED  BY <2>1, <2>2 DEF FormInv
<1>4. CASE TypesAnswered
  <2> PICK shown : shown = {row.id : row \in {r \in FirstRows(ListEnvironmentTypes(0)) : r.label = Approved}}
    OBVIOUS
  <2>1. form' = [form EXCEPT !.types = shown]  BY <1>4 DEF TypesAnswered
  <2>2. /\ DOMAIN form' = DOMAIN form /\ form'.types = shown /\ form'.configs = configs
        /\ form'.type = type /\ form'.config = config /\ form'.pc = pc
    BY <1>1, <2>1
  <2>3. FirstRows(ListEnvironmentTypes(0)) \subseteq table  BY DEF FirstRows, Page, Found
  <2>4. shown \subseteq Id  BY <2>3 DEF CatalogTypeOK, RowOK
  <2> QED  BY <1>1, <1>3, <2>2, <2>4
<1>5. ASSUME NEW t \in Id, ConfigsAnswered(t)
      PROVE  FormInv'
  <2> PICK shown : shown = {row.id : row \in FirstRows(ListEnvironmentTypeConfigs(t, 0))}
    OBVIOUS
  <2>1. form' = [form EXCEPT !.configs = [configs EXCEPT ![t] = shown]]
    BY <1>5 DEF ConfigsAnswered
  <2>2. /\ DOMAIN form' = DOMAIN form /\ form'.types = types
        /\ form'.configs = [configs EXCEPT ![t] = shown]
        /\ form'.type = type /\ form'.config = config /\ form'.pc = pc
    BY <1>1, <2>1
  <2>3. \A c \in shown : HasConfig(c, t)  BY ConfigsFound DEF HasConfig
  <2>4. /\ DOMAIN form'.configs = Id
        /\ \A u \in Id : form'.configs[u] = IF u = t THEN shown ELSE configs[u]
    BY <1>1, <2>2
  <2>5. \A u \in Id : \A c \in form'.configs[u] : HasConfig(c, u)  BY <1>1, <2>3, <2>4
  <2> QED  BY <1>1, <1>3, <2>2, <2>4, <2>5
<1>6. ASSUME NEW t \in Id, OnSelectEnvType(t)
      PROVE  FormInv'
  <2>1. form' = [form EXCEPT !.type = t, !.config = Nothing]  BY <1>6 DEF OnSelectEnvType
  <2>2. /\ DOMAIN form' = DOMAIN form /\ form'.types = types /\ form'.configs = configs
        /\ form'.type = t /\ form'.config = Nothing /\ form'.pc = pc
    BY <1>1, <2>1
  <2> QED  BY <1>1, <1>3, <2>2
<1>7. ASSUME NEW c \in Id, OnSelectEnvTypeConfig(c)
      PROVE  FormInv'
  <2>1. form' = [form EXCEPT !.config = c] /\ type # Nothing /\ c \in configs[type]
    BY <1>7 DEF OnSelectEnvTypeConfig
  <2>2. /\ DOMAIN form' = DOMAIN form /\ form'.types = types /\ form'.configs = configs
        /\ form'.type = type /\ form'.config = c /\ form'.pc = pc
    BY <1>1, <2>1
  <2>3. type \in Id  BY <1>1, <2>1
  <2>4. HasConfig(c, type)  BY <1>1, <2>1, <2>3
  <2> QED  BY <1>1, <1>3, <2>2, <2>4
<1>8. CASE FillIn
  <2>1. PICK b : form' = [form EXCEPT !.filled = b]  BY <1>8 DEF FillIn
  <2>2. /\ DOMAIN form' = DOMAIN form /\ form'.types = types /\ form'.configs = configs
        /\ form'.type = type /\ form'.config = config /\ form'.pc = pc
    BY <1>1, <2>1
  <2> QED  BY <1>1, <1>3, <2>2
<1>9. CASE SubmitForm \/ SubmitFails
  <2>1. PICK p \in {"editing", "submitting"} : form' = [form EXCEPT !.pc = p]
    BY <1>9 DEF SubmitForm, SubmitFails
  <2>2. /\ DOMAIN form' = DOMAIN form /\ form'.types = types /\ form'.configs = configs
        /\ form'.type = type /\ form'.config = config /\ form'.pc = p
    BY <1>1, <2>1
  <2> QED  BY <1>1, <1>3, <2>2
<1> QED  BY <1>4, <1>5, <1>6, <1>7, <1>8, <1>9 DEF FormStep

(***************************************************************************)
(* Datasets                                                                *)
(***************************************************************************)
DataSetInv == DataSetTypeOK /\ NamesHeld /\ OneDataSetPerName

\* The look-up finds every dataset of the name.
LEMMA NamedMeans ==
    ASSUME CatalogTypeOK, NEW name, ~Named(name)
    PROVE  \A row \in OfKind("dataset") : row.name # name
<1> PICK q : q = DataSetsByName(name)  OBVIOUS
<1>1. /\ q.index = "getResourceByName" /\ q.key = "kind" /\ q.value = "dataset"
      /\ q.sortKey = "name" /\ q.condition = Eq(name) /\ q.start = NoKey
      /\ q.limit = 0 /\ q.forward = TRUE
  BY DEF DataSetsByName, QueryParams
<1>2. q.condition.op = "=" /\ q.condition.values[1] = name  BY <1>1 DEF Eq
<1>3. Pageable(q)
  <2>1. q.index \in Index  BY <1>1 DEF Index
  <2>2. q.limit \in Nat  BY <1>1
  <2>3. q.forward \in BOOLEAN  BY <1>1
  <2> QED  BY <2>1, <2>2, <2>3 DEF Pageable
<1>4. Found(table, q) = {}
  <2>1. Page(table, q).items = {}  BY DEF Named
  <2>2. Page(table, q).lastKey = NoKey  BY <1>3, <2>1, PageShows
  <2> QED  BY <1>3, <2>1, <2>2, PageShows
<1>5. SUFFICES ASSUME NEW row \in OfKind("dataset"), row.name = name
               PROVE  FALSE
  OBVIOUS
<1>6. row \in table /\ row.kind = "dataset"  BY DEF OfKind
<1>7. DOMAIN row = Attributes("dataset")  BY <1>6 DEF CatalogTypeOK, RowOK
<1>8. {"kind", "name"} \subseteq DOMAIN row  BY <1>7 DEF Attributes
<1>9. Meets(row, q)  BY <1>1, <1>2, <1>5, <1>6, <1>8 DEF Meets
<1>10. Satisfies(row, Query(q))  BY <1>1, <1>2, <1>9, Meaning
<1>11. SortAttribute(q.index) = "name"  BY <1>1, TableAssumption DEF SortAttribute, Index
<1>12. row \in Found(table, q)  BY <1>1, <1>6, <1>8, <1>10, <1>11 DEF Found
<1> QED  BY <1>4, <1>12

\* Rows of datasets are those that were there, unless a call has stored one.
LEMMA SameDataSets ==
    ASSUME RowsOK, RowsOK', Evolves, NEW kinds, "dataset" \notin kinds, AddsOnly(kinds),
           NEW s \in OfKind("dataset")'
    PROVE  \E r \in OfKind("dataset") : r.id = s.id /\ r.name = s.name
<1>1. PICK r \in table : Same(r, s)  BY DEF OfKind, AddsOnly
<1>2. r \in OfKind("dataset")  BY <1>1 DEF OfKind, Same
<1>3. "name" \in DOMAIN r  BY <1>2 DEF OfKind, RowsOK, RowOK, Attributes
<1> QED  BY <1>1, <1>2, <1>3 DEF Same

\* Who writes other rows leaves datasets as they are.
LEMMA DataSetsLeftAlone ==
    ASSUME RowsOK, RowsOK', Evolves, NEW kinds, "dataset" \notin kinds, AddsOnly(kinds),
           DataSetInv, UNCHANGED dataSetVars
    PROVE  DataSetInv'
<1>1. UNCHANGED <<folders, dataSetCalls, overlapped>>  BY DEF dataSetVars
<1>2. DataSetTypeOK'  BY <1>1 DEF DataSetInv, DataSetTypeOK
<1>3. \A s \in OfKind("dataset")' : \E r \in OfKind("dataset") : r.id = s.id /\ r.name = s.name
  BY SameDataSets
<1>4. NamesHeld'  BY <1>1, <1>3 DEF DataSetInv, NamesHeld
<1>5. OneDataSetPerName'
  <2>1. SUFFICES ASSUME NEW s \in OfKind("dataset")', NEW t \in OfKind("dataset")',
                        s.name = t.name, s.name \notin overlapped
                 PROVE  s = t
    BY <1>1 DEF OneDataSetPerName
  <2>2. PICK r \in OfKind("dataset") : r.id = s.id /\ r.name = s.name  BY <1>3
  <2>3. PICK u \in OfKind("dataset") : u.id = t.id /\ u.name = t.name  BY <1>3
  <2>4. r = u  BY <2>1, <2>2, <2>3 DEF DataSetInv, OneDataSetPerName
  <2>5. s \in table' /\ t \in table'  BY DEF OfKind
  <2> QED  BY <2>2, <2>3, <2>4, <2>5 DEF RowsOK
<1> QED  BY <1>2, <1>4, <1>5 DEF DataSetInv

\* A call goes on to another place.
LEMMA CallGoes ==
    ASSUME DataSetTypeOK, NEW c \in DataSetCall, NEW pc, DataSetCallGoes(c, pc)
    PROVE  /\ DOMAIN dataSetCalls' = DataSetCall
           /\ \A d \in DataSetCall :
                 /\ DOMAIN dataSetCalls'[d] = DOMAIN dataSetCalls[d]
                 /\ dataSetCalls'[d].pc = IF d = c THEN pc ELSE dataSetCalls[d].pc
                 /\ dataSetCalls'[d].op = dataSetCalls[d].op
                 /\ dataSetCalls'[d].name = dataSetCalls[d].name
                 /\ dataSetCalls'[d].path = dataSetCalls[d].path
<1> PICK old : old = dataSetCalls[c]  OBVIOUS
<1>1. dataSetCalls' = [dataSetCalls EXCEPT ![c] = [old EXCEPT !.pc = pc]]  BY DEF DataSetCallGoes
<1>2. DOMAIN old = {"pc", "op", "name", "path"} /\ DOMAIN dataSetCalls = DataSetCall
  BY DEF DataSetTypeOK
<1> PICK new : new = [old EXCEPT !.pc = pc]  OBVIOUS
<1>3. /\ DOMAIN new = DOMAIN old /\ new.pc = pc /\ new.op = old.op /\ new.name = old.name
      /\ new.path = old.path
  BY <1>2
<1>4. /\ DOMAIN dataSetCalls' = DataSetCall
      /\ \A d \in DataSetCall : dataSetCalls'[d] = IF d = c THEN new ELSE dataSetCalls[d]
  BY <1>1, <1>2
<1> QED  BY <1>3, <1>4

\* A new call holds no name.
LEMMA CallBegins ==
    ASSUME DataSetInv, NEW c \in DataSetCall, NEW name \in DataSetName, NEW path \in Path,
           ProvisionDataSet(c, name, path) \/ ImportDataSet(c, name, path)
    PROVE  DataSetInv'
<1>1. PICK new : /\ new.pc = "validating" /\ new.op \in {"provision", "import"}
                 /\ new.name = name /\ new.path = path
                 /\ DOMAIN new = {"pc", "op", "name", "path"}
                 /\ new.op = "provision" => path \in folders'
                 /\ dataSetCalls' = [dataSetCalls EXCEPT ![c] = new]
  <2>1. CASE ProvisionDataSet(c, name, path)
    <3> DEFINE new == [pc |-> "validating", op |-> "provision", name |-> name, path |-> path]
    <3>1. dataSetCalls' = [dataSetCalls EXCEPT ![c] = new] /\ path \in folders'
      BY <2>1 DEF ProvisionDataSet, CreateStorage
    <3>2. /\ new.pc = "validating" /\ new.op = "provision" /\ new.name = name /\ new.path = path
          /\ DOMAIN new = {"pc", "op", "name", "path"}
      OBVIOUS
    <3> HIDE DEF new
    <3> QED  BY <3>1, <3>2
  <2>2. CASE ImportDataSet(c, name, path)
    <3> DEFINE new == [pc |-> "validating", op |-> "import", name |-> name, path |-> path]
    <3>1. dataSetCalls' = [dataSetCalls EXCEPT ![c] = new]
      BY <2>2 DEF ImportDataSet
    <3>2. /\ new.pc = "validating" /\ new.op = "import" /\ new.name = name /\ new.path = path
          /\ DOMAIN new = {"pc", "op", "name", "path"}
      OBVIOUS
    <3> HIDE DEF new
    <3> QED  BY <3>1, <3>2
  <2> QED  BY <2>1, <2>2
<1>2. /\ UNCHANGED <<table, overlapped>> /\ folders' \subseteq folders \cup {path}
      /\ folders \subseteq folders'
  BY DEF ProvisionDataSet, ImportDataSet, CreateStorage, catalogVars
<1>3. /\ DOMAIN dataSetCalls = DataSetCall
      /\ \A d \in DataSetCall :
           /\ DOMAIN dataSetCalls[d] = {"pc", "op", "name", "path"}
           /\ dataSetCalls[d].pc \in {"new", "validating", "storing", "stored", "refused", "failed"}
           /\ dataSetCalls[d].pc # "new" =>
                 dataSetCalls[d].name \in DataSetName /\ dataSetCalls[d].path \in Path
           /\ dataSetCalls[d].op = "provision" => dataSetCalls[d].path \in folders
      /\ folders \subseteq Path /\ overlapped \subseteq DataSetName
  BY DEF DataSetInv, DataSetTypeOK
<1>4. /\ DOMAIN dataSetCalls' = DataSetCall
      /\ \A d \in DataSetCall : dataSetCalls'[d] = IF d = c THEN new ELSE dataSetCalls[d]
  BY <1>1, <1>3
<1>5. DataSetTypeOK'  BY <1>1, <1>2, <1>3, <1>4 DEF DataSetTypeOK
<1>6. \A d \in DataSetCall : dataSetCalls'[d].pc = "storing" => dataSetCalls'[d] = dataSetCalls[d]
  BY <1>1, <1>4
<1>7. OfKind("dataset")' = OfKind("dataset")  BY <1>2 DEF OfKind
<1>8. NamesHeld'  BY <1>2, <1>6, <1>7 DEF DataSetInv, NamesHeld
<1>9. OneDataSetPerName'  BY <1>2, <1>7 DEF DataSetInv, OneDataSetPerName
<1> QED  BY <1>5, <1>8, <1>9 DEF DataSetInv

\* A call that finds its name free holds it, unless another held it.
LEMMA NameLookedUp ==
    ASSUME CatalogTypeOK, DataSetInv, NEW c \in DataSetCall, ValidateCreateDataSet(c)
    PROVE  DataSetInv'
<1> PICK name, pc : name = dataSetCalls[c].name /\ pc = IF Named(name) THEN "refused" ELSE "storing"
  OBVIOUS
<1>1. /\ dataSetCalls[c].pc = "validating" /\ DataSetCallGoes(c, pc)
      /\ overlapped' = overlapped \cup {n \in {name} : Held(n)}
      /\ UNCHANGED <<table, folders>>
  BY DEF ValidateCreateDataSet, catalogVars
<1>2. DataSetTypeOK  BY DEF DataSetInv
<1>3. /\ DOMAIN dataSetCalls' = DataSetCall
      /\ \A d \in DataSetCall :
            /\ DOMAIN dataSetCalls'[d] = DOMAIN dataSetCalls[d]
            /\ dataSetCalls'[d].pc = IF d = c THEN pc ELSE dataSetCalls[d].pc
            /\ dataSetCalls'[d].op = dataSetCalls[d].op
            /\ dataSetCalls'[d].name = dataSetCalls[d].name
            /\ dataSetCalls'[d].path = dataSetCalls[d].path
  BY <1>1, <1>2, CallGoes
<1>4. overlapped \subseteq overlapped' /\ overlapped' \subseteq overlapped \cup {name}
  BY <1>1
<1>5. name \in DataSetName /\ dataSetCalls[c].path \in Path  BY <1>1, <1>2 DEF DataSetTypeOK
<1>6. DataSetTypeOK'
  <2>1. pc \in {"refused", "storing"}  OBVIOUS
  <2> QED  BY <1>1, <1>2, <1>3, <1>4, <1>5, <2>1 DEF DataSetTypeOK
<1>7. OfKind("dataset")' = OfKind("dataset")  BY <1>1 DEF OfKind
<1>8. NamesHeld'
  <2>1. SUFFICES ASSUME NEW d \in DataSetCall, dataSetCalls'[d].pc = "storing",
                        dataSetCalls[d].name \notin overlapped'
                 PROVE  /\ \A row \in OfKind("dataset") : row.name # dataSetCalls[d].name
                        /\ \A other \in DataSetCall :
                              /\ dataSetCalls'[other].pc = "storing"
                              /\ dataSetCalls[other].name = dataSetCalls[d].name
                              => other = d
    BY <1>3, <1>7 DEF NamesHeld
  <2>2. CASE d = c
    <3>1. ~Named(name)  BY <1>3, <2>1, <2>2
    <3>2. \A row \in OfKind("dataset") : row.name # name  BY <3>1, NamedMeans
    <3>3. ~Held(name)  BY <1>1, <2>1, <2>2
    <3>4. \A other \in DataSetCall : dataSetCalls[other].pc = "storing" => dataSetCalls[other].name # name
      BY <3>3 DEF Held
    <3> QED  BY <1>3, <2>2, <3>2, <3>4
  <2>3. CASE d # c
    <3>1. dataSetCalls[d].pc = "storing" /\ dataSetCalls[d].name \notin overlapped
      BY <1>3, <1>4, <2>1, <2>3
    <3>2. /\ \A row \in OfKind("dataset") : row.name # dataSetCalls[d].name
          /\ \A other \in DataSetCall :
                /\ dataSetCalls[other].pc = "storing"
                /\ dataSetCalls[other].name = dataSetCalls[d].name
                => other = d
      BY <3>1 DEF DataSetInv, NamesHeld
    <3>3. dataSetCalls[c].name # dataSetCalls[d].name
      <4>1. SUFFICES ASSUME dataSetCalls[d].name = name PROVE FALSE  OBVIOUS
      <4>2. Held(name)  BY <3>1, <4>1 DEF Held
      <4> QED  BY <1>1, <2>1, <4>1, <4>2
    <3> QED  BY <1>3, <3>2, <3>3
  <2> QED  BY <2>2, <2>3
<1>9. OneDataSetPerName'  BY <1>4, <1>7 DEF DataSetInv, OneDataSetPerName
<1> QED  BY <1>6, <1>8, <1>9 DEF DataSetInv

\* A call that fails gives its name up.
LEMMA CallFailed ==
    ASSUME DataSetInv, NEW c \in DataSetCall, DataSetCallFails(c)
    PROVE  DataSetInv'
<1>1. /\ DataSetCallGoes(c, "failed") /\ UNCHANGED <<table, folders, overlapped>>
      /\ dataSetCalls[c].pc \in {"validating", "storing"}
  BY DEF DataSetCallFails
<1>2. DataSetTypeOK  BY DEF DataSetInv
<1>3. /\ DOMAIN dataSetCalls' = DataSetCall
      /\ \A d \in DataSetCall :
            /\ DOMAIN dataSetCalls'[d] = DOMAIN dataSetCalls[d]
            /\ dataSetCalls'[d].pc = IF d = c THEN "failed" ELSE dataSetCalls[d].pc
            /\ dataSetCalls'[d].op = dataSetCalls[d].op
            /\ dataSetCalls'[d].name = dataSetCalls[d].name
            /\ dataSetCalls'[d].path = dataSetCalls[d].path
  BY <1>1, <1>2, CallGoes
<1>4. DataSetTypeOK'  BY <1>1, <1>2, <1>3 DEF DataSetTypeOK
<1>5. OfKind("dataset")' = OfKind("dataset")  BY <1>1 DEF OfKind
<1>6. \A d \in DataSetCall : dataSetCalls'[d].pc = "storing" => dataSetCalls[d].pc = "storing"
  BY <1>3
<1>7. NamesHeld'  BY <1>1, <1>3, <1>5, <1>6 DEF DataSetInv, NamesHeld
<1>8. OneDataSetPerName'  BY <1>1, <1>5 DEF DataSetInv, OneDataSetPerName
<1> QED  BY <1>4, <1>7, <1>8 DEF DataSetInv

\* The row that a call stores has the name to itself, if the call held it.
LEMMA NameStored ==
    ASSUME RowsOK, DataSetInv, NEW c \in DataSetCall, NEW id \in Id, StoreDataSet(c, id)
    PROVE  DataSetInv'
<1> PICK name : name = dataSetCalls[c].name  OBVIOUS
<1>1. /\ dataSetCalls[c].pc = "storing" /\ DataSetCallGoes(c, "stored")
      /\ UNCHANGED <<folders, overlapped>>
  BY DEF StoreDataSet
<1>2. DataSetTypeOK  BY DEF DataSetInv
<1>3. /\ DOMAIN dataSetCalls' = DataSetCall
      /\ \A d \in DataSetCall :
            /\ DOMAIN dataSetCalls'[d] = DOMAIN dataSetCalls[d]
            /\ dataSetCalls'[d].pc = IF d = c THEN "stored" ELSE dataSetCalls[d].pc
            /\ dataSetCalls'[d].op = dataSetCalls[d].op
            /\ dataSetCalls'[d].name = dataSetCalls[d].name
            /\ dataSetCalls'[d].path = dataSetCalls[d].path
  BY <1>1, <1>2, CallGoes
<1>4. PICK row : AddsRow(row) /\ row.kind = "dataset" /\ row.name = name
  BY <1>2, DataSetStored
<1>5. OfKind("dataset")' = OfKind("dataset") \cup {row}  BY <1>4 DEF OfKind, AddsRow
<1>6. DataSetTypeOK'
  <2>1. dataSetCalls[c].name \in DataSetName /\ dataSetCalls[c].path \in Path
    BY <1>1, <1>2 DEF DataSetTypeOK
  <2> QED  BY <1>1, <1>2, <1>3, <2>1 DEF DataSetTypeOK
<1>7. NamesHeld'
  <2>1. SUFFICES ASSUME NEW d \in DataSetCall, dataSetCalls'[d].pc = "storing",
                        dataSetCalls[d].name \notin overlapped
                 PROVE  /\ \A r \in OfKind("dataset") \cup {row} : r.name # dataSetCalls[d].name
                        /\ \A other \in DataSetCall :
                              /\ dataSetCalls'[other].pc = "storing"
                              /\ dataSetCalls[other].name = dataSetCalls[d].name
                              => other = d
    BY <1>1, <1>3, <1>5 DEF NamesHeld
  <2>2. d # c /\ dataSetCalls[d].pc = "storing"  BY <1>3, <2>1
  <2>3. /\ \A r \in OfKind("dataset") : r.name # dataSetCalls[d].name
        /\ \A other \in DataSetCall :
              /\ dataSetCalls[other].pc = "storing"
              /\ dataSetCalls[other].name = dataSetCalls[d].name
              => other = d
    BY <2>1, <2>2 DEF DataSetInv, NamesHeld
  <2>4. row.name # dataSetCalls[d].name  BY <1>1, <1>4, <2>2, <2>3
  <2>5. \A other \in DataSetCall :
           dataSetCalls'[other].pc = "storing" => dataSetCalls[other].pc = "storing"
    BY <1>3
  <2> QED  BY <2>3, <2>4, <2>5
<1>8. OneDataSetPerName'
  <2>1. name \notin overlapped => \A r \in OfKind("dataset") : r.name # name
    BY <1>1 DEF DataSetInv, NamesHeld
  <2> QED  BY <1>1, <1>4, <1>5, <2>1 DEF DataSetInv, OneDataSetPerName
<1> QED  BY <1>6, <1>7, <1>8 DEF DataSetInv

(***************************************************************************)
(* All together                                                            *)
(***************************************************************************)
\* A call that fails is counted.
LEMMA CatalogFault ==
    ASSUME CatalogInv, UNCHANGED <<table, now, writer, lister>>, faults < MaxFaults,
           faults' = faults + 1
    PROVE  CatalogInv' /\ Evolves
<1>1. RowsOK /\ CatalogTypeOK  BY DEF CatalogInv, CatalogTypeOK, RowsOK
<1>2. faults \in Nat /\ faults' \in 0..MaxFaults /\ faults' \in Nat /\ faults <= faults'
  BY <1>1, CatalogAssumption DEF CatalogTypeOK
<1>3. Evolves  BY <1>1, LeftAlone
<1>4. now' \in now .. MaxNow  BY <1>1, CatalogAssumption DEF RowsOK
<1>5. RowsOK'  BY <1>1, <1>4, RowsKept
<1>6. CatalogTypeOK'  BY <1>1, <1>2, <1>5 DEF CatalogTypeOK, RowsOK
<1>7. WriterKnows'  BY <1>1, <1>2, <1>3, WriterKept DEF CatalogInv
<1>8. ConfigOfParent'
  <2>1. \A r \in table : Same(r, r)  BY DEF Same
  <2> QED  BY <1>1, <1>2, <1>3, <2>1, ConfigsKept DEF CatalogInv
<1>9. ListGoesOn'  BY <1>3, ListKept DEF CatalogInv
<1> QED  BY <1>3, <1>6, <1>7, <1>8, <1>9 DEF CatalogInv

\* The parts of the invariant, one for each client.
LEMMA InvariantParts == IInv <=> CatalogInv /\ PageInv /\ FormInv /\ DataSetInv
BY DEF IInv, TypeOK, CatalogInv, PageInv, FormInv, DataSetInv

\* Nothing is there at first.
LEMMA InitOK ==
    ASSUME Init
    PROVE  IInv
<1>1. CatalogInv
  <2>1. /\ table = {} /\ now = 1 /\ writer = Idle /\ lister = NobodysList /\ faults = 0
    BY DEF Init, CatalogInit
  <2>2. writer.pc = "idle" /\ lister.pc = "idle"  BY <2>1 DEF Idle, NobodysList
  <2>3. now \in 1..MaxNow /\ faults \in 0..MaxFaults  BY <2>1, CatalogAssumption
  <2>4. IsFiniteSet(table)  BY <2>1, FS_EmptySet
  <2>5. CatalogTypeOK  BY <2>1, <2>2, <2>3, <2>4 DEF CatalogTypeOK
  <2>6. WriterKnows  BY <2>1, <2>2 DEF WriterKnows
  <2>7. ConfigOfParent  BY <2>1 DEF ConfigOfParent, OfKind
  <2>8. ListGoesOn  BY <2>1, <2>2 DEF ListGoesOn
  <2> QED  BY <2>5, <2>6, <2>7, <2>8 DEF CatalogInv
<1>2. PageInv
  <2>1. /\ page = FirstPage(FirstView, NoToken) /\ cache = <<>> /\ asked = {Url(page)}
        /\ selected = NoRow /\ busy = [action \in Action |-> {}]
        /\ requests = [s \in Slot |-> NoRequest] /\ restarts = 0 /\ reloads = 0
    BY DEF Init, PageInit
  <2>2. FirstView \in View  BY DEF FirstView, View
  <2>3. PageOK(page)  BY <2>1, <2>2, FirstPageOK
  <2>4. CacheOK(cache)
    <3>1. DOMAIN cache = {}  BY <2>1
    <3> QED  BY <3>1 DEF CacheOK
  <2>5. \A url \in asked : TokenOf(url.token, url.view)  BY <2>1, <2>3, UrlOK
  <2>6. restarts \in 0..MaxRestarts /\ reloads \in 0..MaxReloads  BY <2>1, PageAssumption
  <2>7. Paging  BY <2>3, <2>4, <2>5, <2>6 DEF Paging
  <2>8. NoRequest \in [pc : {"none", "calling", "reloading"}, action : Action, id : Id \cup {0}]
    BY DEF NoRequest, Action
  <2>9. Buttons  BY <2>1, <2>8 DEF Buttons, SpinnerMeansRequest
  <2> QED  BY <2>7, <2>9, PageHalves
<1>3. FormInv
  <2>1. form = EmptyForm  BY DEF Init, FormInit
  <2>2. /\ DOMAIN form = {"types", "configs", "filled", "type", "config", "pc"}
        /\ form.types = {} /\ form.configs = [type \in Id |-> {}] /\ form.type = Nothing
        /\ form.config = Nothing /\ form.pc = "editing"
    BY <2>1 DEF EmptyForm
  <2>3. DOMAIN form.configs = Id /\ \A type \in Id : form.configs[type] = {}  BY <2>2
  <2> QED  BY <2>2, <2>3 DEF FormInv, FormTypeOK, FormKnows
<1>4. DataSetInv
  <2>1. /\ table = {} /\ folders = {} /\ overlapped = {}
        /\ dataSetCalls = [c \in DataSetCall |-> NewCall]
    BY DEF Init, CatalogInit, DataSetInit
  <2>2. /\ NewCall.pc = "new" /\ NewCall.op = "none"
        /\ DOMAIN NewCall = {"pc", "op", "name", "path"}
    BY DEF NewCall
  <2>3. DOMAIN dataSetCalls = DataSetCall /\ \A c \in DataSetCall : dataSetCalls[c] = NewCall
    BY <2>1
  <2>4. DataSetTypeOK  BY <2>1, <2>2, <2>3, DataSetAssumption DEF DataSetTypeOK
  <2>5. NamesHeld  BY <2>2, <2>3 DEF NamesHeld
  <2>6. OneDataSetPerName  BY <2>1 DEF OneDataSetPerName, OfKind
  <2> QED  BY <2>4, <2>5, <2>6 DEF DataSetInv
<1> QED  BY <1>1, <1>2, <1>3, <1>4, InvariantParts

\* A step of one client leaves what the others know.
LEMMA StepOK ==
    ASSUME IInv, [Next]_vars
    PROVE  IInv'
<1>1. CatalogInv /\ PageInv /\ FormInv /\ DataSetInv  BY InvariantParts
<1>2. CatalogTypeOK /\ RowsOK  BY <1>1 DEF CatalogInv, CatalogTypeOK, RowsOK
<1>3. ASSUME CatalogInv', PageInv', FormInv', DataSetInv'
      PROVE  IInv'
  BY <1>3 DEF IInv, TypeOK, CatalogInv, PageInv, FormInv, DataSetInv
<1>4. ASSUME CatalogInv'
      PROVE  RowsOK'
  BY <1>4 DEF CatalogInv, CatalogTypeOK, RowsOK
<1>5. ASSUME UNCHANGED catalogVars
      PROVE  CatalogInv' /\ Evolves /\ AddsOnly({}) /\ table' = table
  BY <1>1, <1>5, CatalogUnchanged DEF catalogVars
<1>6. ASSUME UNCHANGED formVars, Evolves
      PROVE  FormInv'
  BY <1>1, <1>2, <1>6, FormLeftAlone DEF formVars
<1>7. ASSUME UNCHANGED dataSetVars, CatalogInv', Evolves,
             AddsOnly({"envType", "envTypeConfig", "environment"}) \/ AddsOnly({})
      PROVE  DataSetInv'
  <2>1. "dataset" \notin {"envType", "envTypeConfig", "environment"} /\ "dataset" \notin {}
    OBVIOUS
  <2> QED  BY <1>1, <1>2, <1>4, <1>7, <2>1, DataSetsLeftAlone
<1>8. ASSUME PageNext \/ UNCHANGED pageVars
      PROVE  PageInv'
  BY <1>1, <1>2, <1>8, PageKept
<1>9. CASE UNCHANGED vars
  <2>1. UNCHANGED catalogVars /\ UNCHANGED pageVars /\ UNCHANGED formVars /\ UNCHANGED dataSetVars
    BY <1>9 DEF vars
  <2> QED  BY <1>3, <1>5, <1>6, <1>7, <1>8, <2>1
<1>10. CASE CatalogNext /\ UNCHANGED <<pageVars, formVars, dataSetVars>>
  <2>1. CatalogInv' /\ Evolves /\ AddsOnly({"envType", "envTypeConfig", "environment"})
    BY <1>1, <1>10, CatalogNextSteps, CatalogKept
  <2> QED  BY <1>3, <1>6, <1>7, <1>8, <1>10, <2>1
<1>11. CASE PageNext /\ UNCHANGED <<catalogVars, formVars, dataSetVars>>
  <2>1. CatalogInv' /\ Evolves /\ AddsOnly({})  BY <1>5, <1>11
  <2> QED  BY <1>3, <1>6, <1>7, <1>8, <1>11, <2>1
<1>12. CASE FormStep /\ UNCHANGED <<catalogVars, pageVars, dataSetVars>>
  <2>1. CatalogInv' /\ Evolves /\ AddsOnly({}) /\ table' = table  BY <1>5, <1>12
  <2>2. FormInv'  BY <1>1, <1>2, <1>12, <2>1, FormKept
  <2> QED  BY <1>3, <1>7, <1>8, <1>12, <2>1, <2>2
<1>13. ASSUME NEW id \in Id, Submitted(id), UNCHANGED <<focus, pageVars, dataSetVars>>
       PROVE  IInv'
  <2>1. CreateEnvironment(id, 1, 1) /\ form' = EmptyForm  BY <1>13 DEF Submitted
  <2>2. CatalogSteps  BY <2>1 DEF CatalogSteps
  <2>3. CatalogInv' /\ Evolves /\ AddsOnly({"envType", "envTypeConfig", "environment"})
    BY <1>1, <2>2, CatalogKept
  <2>4. FormInv'  BY <2>1, EmptyFormOK
  <2> QED  BY <1>3, <1>7, <1>8, <1>13, <2>3, <2>4
<1>14. CASE DataSetStep /\ UNCHANGED <<pageVars, formVars>>
  <2>1. ASSUME NEW c \in DataSetCall, NEW name \in DataSetName, NEW path \in Path,
               ProvisionDataSet(c, name, path) \/ ImportDataSet(c, name, path)
        PROVE  IInv'
    <3>1. UNCHANGED catalogVars  BY <2>1 DEF ProvisionDataSet, ImportDataSet
    <3>2. DataSetInv'  BY <1>1, <2>1, CallBegins
    <3> QED  BY <1>3, <1>5, <1>6, <1>8, <1>14, <3>1, <3>2
  <2>2. ASSUME NEW c \in DataSetCall, ValidateCreateDataSet(c)
        PROVE  IInv'
    <3>1. UNCHANGED catalogVars  BY <2>2 DEF ValidateCreateDataSet
    <3>2. DataSetInv'  BY <1>1, <1>2, <2>2, NameLookedUp
    <3> QED  BY <1>3, <1>5, <1>6, <1>8, <1>14, <3>1, <3>2
  <2>3. ASSUME NEW c \in DataSetCall, DataSetCallFails(c)
        PROVE  IInv'
    <3>1. CatalogInv' /\ Evolves  BY <1>1, <2>3, CatalogFault DEF DataSetCallFails
    <3>2. DataSetInv'  BY <1>1, <2>3, CallFailed
    <3> QED  BY <1>3, <1>6, <1>8, <1>14, <3>1, <3>2
  <2>4. ASSUME NEW c \in DataSetCall, NEW id \in Id, StoreDataSet(c, id)
        PROVE  IInv'
    <3>1. RowsOK' /\ Evolves /\ AddsOnly({"dataset"})
      BY <1>1, <1>2, <2>4, DataSetStored DEF DataSetInv
    <3>2. AddsOnly({"envType", "environment", "dataset"})  BY <3>1 DEF AddsOnly
    <3>3. UNCHANGED <<writer, lister, faults>>  BY <2>4 DEF StoreDataSet
    <3>4. CatalogInv'  BY <1>1, <3>1, <3>2, <3>3, CatalogWritten
    <3>5. DataSetInv'  BY <1>1, <1>2, <2>4, NameStored
    <3> QED  BY <1>3, <1>6, <1>8, <1>14, <3>1, <3>4, <3>5
  <2> QED  BY <1>14, <2>1, <2>2, <2>3, <2>4 DEF DataSetStep
<1> QED  BY <1>9, <1>10, <1>11, <1>12, <1>13, <1>14 DEF Next

\* What requests, lists, the page, the form and the calls for datasets know stays true
\* (environmentTypeService.ts, environmentTypeConfigService.ts, environmentService.ts,
\* dataSetService.ts, pages/environments).
THEOREM Invariance == Spec => []IInv
<1>1. Init => IInv  BY InitOK
<1>2. IInv /\ [Next]_vars => IInv'  BY StepOK
<1> QED  BY <1>1, <1>2, PTL DEF Spec

\* A list that is read page by page shows everything that was there when it began, and
\* nothing twice, for any page size and whatever is created or updated meanwhile.
THEOREM ListsShowAllOnce == Spec => []ListedOnce
<1>1. IInv => ListedOnce  BY InvariantParts, ListsOnce DEF CatalogInv
<1> QED  BY <1>1, Invariance, PTL

\* Somebody who is not an Admin is shown their own environments, whatever they ask for.
THEOREM ListsShowOwn == Spec => []OwnEnvironmentsOnly
<1>1. IInv => OwnEnvironmentsOnly  BY InvariantParts, ListsOwn DEF CatalogInv
<1> QED  BY <1>1, Invariance, PTL

\* Configurations have the products of their types, whichever requests overlap.
THEOREM ConfigsFollowTypes == Spec => []ConfigOfParent
<1>1. IInv => ConfigOfParent  BY DEF IInv
<1> QED  BY <1>1, Invariance, PTL

\* The page never uses a token of another sort, filter or size, in whatever order
\* answers arrive.
THEOREM TokensStay == Spec => []TokensOfView
<1>1. IInv => TokensOfView
  BY DEF IInv, TokensCarryViews, TokenOf, TokensOfView
<1> QED  BY <1>1, Invariance, PTL

\* A row that is shown as being terminated, stopped or started has such a call, for any
\* number of calls and whichever of them fail.
THEOREM SpinnersMean == Spec => []SpinnerMeansRequest
<1>1. IInv => SpinnerMeansRequest  BY DEF IInv
<1> QED  BY <1>1, Invariance, PTL

\* What the form submits is a configuration of the type that it submits.
THEOREM FormIsValid == Spec => []ConfigOfType
<1>1. IInv => ConfigOfType  BY DEF IInv, FormKnows, ConfigOfType, CanSubmit
<1> QED  BY <1>1, Invariance, PTL

\* Names of datasets are their own, for any number of calls, but for those that were
\* looked up while another call held them.
THEOREM DataSetNamesApart == Spec => []OneDataSetPerName
<1>1. IInv => OneDataSetPerName  BY DEF IInv
<1> QED  BY <1>1, Invariance, PTL
================================================================================
