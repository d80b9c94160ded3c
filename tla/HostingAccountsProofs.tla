------------------------- MODULE HostingAccountsProofs -------------------------
(***************************************************************************)
(* Proofs about HostingAccounts for any accounts, roles and calls.         *)
(*                                                                         *)
(* The documents come first: each operation of IamHelper keeps a document  *)
(* of its kind, takes no access away and gives the one that was asked for. *)
(* The rest follows the steps.  A put of a document that was read before   *)
(* another put either marks the document as torn, which excuses it, or     *)
(* extends the document that is there.                                     *)
(***************************************************************************)
EXTENDS HostingAccounts, TLAPS

(***************************************************************************)
(* Documents                                                               *)
(***************************************************************************)
\* The members of the three sets of principals are principals.
LEMMA Parties ==
    /\ Main \in Principals
    /\ \A a \in Account : a \in Principals
    /\ \A r \in Role : r \in Principals /\ RoleAccount[r] \in Account
BY HostingAssumption DEF Principals

\* What a document allows, another one allows too.
Extends(e, d) == \A p, x, r : Allows(d, p, x, r) => Allows(e, p, x, r)

\* A key policy stays one when a principal is added to the main statement, which
\* keeps what it allows and then allows the principal to use the key.
LEMMA AddToKey ==
    ASSUME NEW d, KeyDocument(d), NEW a \in Account
    PROVE  LET e == AddPrincipalToStatement(d, "main-key-share-statement", a) IN
           /\ KeyDocument(e)
           /\ Allows(e, a, "kms:*", "*")
           /\ Extends(e, d)
<1> DEFINE e == AddPrincipalToStatement(d, "main-key-share-statement", a)
           with(s) == IF s.sid = "main-key-share-statement"
                      THEN [s EXCEPT !.principals = @ \cup {a}] ELSE s
           forOne(s) == \E b \in Account : s = UsageStatement(b) \/ s = AttachStatement(b)
<1>1. e = {with(s) : s \in d}  BY DEF AddPrincipalToStatement
<1>2. ASSUME NEW s, MainKeyStatement(s)
      PROVE  s.sid = "main-key-share-statement" /\ s.actions = {"kms:*"} /\ s.resources = {"*"}
  BY <1>2 DEF MainKeyStatement, Allow
<1>3. ASSUME NEW s, forOne(s) PROVE s.sid = "none"
  BY <1>3 DEF UsageStatement, AttachStatement, Allow
<1>4. ASSUME NEW s \in d, MainKeyStatement(s)
      PROVE  /\ MainKeyStatement(with(s)) /\ Principled(with(s))
             /\ with(s).principals = s.principals \cup {a}
  <2>1. with(s) = Allow("main-key-share-statement", s.principals \cup {a}, {"kms:*"}, {"*"}, "none")
    BY <1>4 DEF MainKeyStatement, Allow
  <2>2. Principled(s)
    BY <1>2, <1>3, <1>4 DEF KeyDocument, KeyStatement
  <2> HIDE DEF with
  <2>3. MainKeyStatement(with(s)) /\ with(s).principals = s.principals \cup {a}
    BY <2>1 DEF MainKeyStatement, Allow
  <2> QED  BY <2>2, <2>3, Parties DEF Principled
<1>5. ASSUME NEW s \in d, ~MainKeyStatement(s) PROVE forOne(s) /\ with(s) = s
  <2>1. forOne(s)  BY <1>5 DEF KeyDocument, KeyStatement
  <2> QED  BY <1>3, <2>1
<1> HIDE DEF with
<1>6. ASSUME NEW s \in d
      PROVE  /\ KeyStatement(with(s)) /\ s.principals \subseteq with(s).principals
             /\ with(s).actions = s.actions /\ with(s).resources = s.resources
  <2>1. CASE MainKeyStatement(s)  BY <1>2, <1>4, <2>1 DEF KeyStatement
  <2>2. CASE ~MainKeyStatement(s)  BY <1>5, <2>2 DEF KeyStatement
  <2> QED  BY <2>1, <2>2
<1>7. PICK m \in d : MainKeyStatement(m) /\ Main \in m.principals  BY DEF KeyDocument
<1>8. \A s : forOne(s) => (s \in e <=> s \in d)
  <2> SUFFICES ASSUME NEW s, forOne(s) PROVE s \in e <=> s \in d
    OBVIOUS
  <2>1. ~MainKeyStatement(s)  BY <1>2, <1>3
  <2>2. ASSUME NEW t \in d, with(t) = s PROVE t = s
    BY <1>4, <1>5, <2>1, <2>2
  <2> QED  BY <1>1, <1>5, <2>1, <2>2
<1>9. KeyDocument(e)
  <2>1. \A b \in Account : UsageStatement(b) \in e <=> AttachStatement(b) \in e
    BY <1>8 DEF KeyDocument
  <2> QED  BY <1>1, <1>4, <1>6, <1>7, <2>1 DEF KeyDocument
<1>10. Allows(e, a, "kms:*", "*")
  BY <1>1, <1>2, <1>4, <1>7 DEF Allows
<1>11. Extends(e, d)  BY <1>1, <1>6 DEF Extends, Allows
<1> QED  BY <1>9, <1>10, <1>11

\* One of the two statements is added to the bucket policy, or the account to it.
LEMMA WithBucketStatement ==
    ASSUME NEW d, BucketDocument(d), NEW a \in Account,
           NEW st \in {ListStatement(a), GetStatement(a)}
    PROVE  LET e == WithStatement(d, st, a) IN
           /\ BucketDocument(e) /\ Extends(e, d)
           /\ \A x \in st.actions, r \in st.resources : Allows(e, a, x, r)
<1> DEFINE e == WithStatement(d, st, a)
           with(s) == IF s.sid = st.sid THEN [s EXCEPT !.principals = @ \cup {a}] ELSE s
           ListsFor(P) == Allow("List:environment-files", P, {"s3:ListBucket"}, {"bucket"},
                               "PrefixEnvironmentFiles")
           GetFor(P) == Allow("Get:environment-files", P, {"s3:GetObject"},
                              {"bucket/environment-files"}, "none")
<1>1. \A s : BucketStatement(s) <=> /\ Principled(s)
                                    /\ s = ListsFor(s.principals) \/ s = GetFor(s.principals)
  BY DEF BucketStatement, Like, ListStatement, GetStatement, Allow
<1>2. \A P : /\ ListsFor(P).principals = P /\ ListsFor(P).sid = "List:environment-files"
             /\ ListsFor(P).actions = {"s3:ListBucket"} /\ ListsFor(P).resources = {"bucket"}
  BY DEF Allow
<1>3. \A P : /\ GetFor(P).principals = P /\ GetFor(P).sid = "Get:environment-files"
             /\ GetFor(P).actions = {"s3:GetObject"}
             /\ GetFor(P).resources = {"bucket/environment-files"}
  BY DEF Allow
<1>4. st = ListsFor({a}) \/ st = GetFor({a})  BY DEF ListStatement, GetStatement
<1>5. \/ /\ st.sid = "List:environment-files"
          /\ st.actions = {"s3:ListBucket"} /\ st.resources = {"bucket"}
       \/ /\ st.sid = "Get:environment-files"
          /\ st.actions = {"s3:GetObject"} /\ st.resources = {"bucket/environment-files"}
  BY <1>4 DEF Allow
<1>6. a \in Principals  BY Parties
<1> HIDE DEF ListsFor, GetFor, with
<1>7. BucketStatement(st) /\ a \in st.principals  BY <1>1, <1>2, <1>3, <1>4, <1>6 DEF Principled
<1>8. ASSUME NEW s \in d
      PROVE  /\ BucketStatement(with(s))
             /\ with(s).actions = s.actions /\ with(s).resources = s.resources
             /\ s.principals \subseteq with(s).principals
             /\ s.sid = st.sid =>
                  a \in with(s).principals /\ s.actions = st.actions /\ s.resources = st.resources
  <2>1. BucketStatement(s)  BY DEF BucketDocument
  <2>2. CASE s.sid = st.sid
    <3>1. CASE s = ListsFor(s.principals)
      <4>1. [s EXCEPT !.principals = @ \cup {a}] = ListsFor(s.principals \cup {a})
        BY <3>1 DEF ListsFor, Allow
      <4>2. with(s) = ListsFor(s.principals \cup {a})  BY <2>2, <4>1 DEF with
      <4>3. /\ with(s).principals = s.principals \cup {a}
            /\ with(s).actions = s.actions /\ with(s).resources = s.resources
        BY <1>2, <3>1, <4>2
      <4>4. BucketStatement(with(s))
        BY <1>1, <1>6, <2>1, <4>2, <4>3 DEF Principled
      <4>5. s.actions = st.actions /\ s.resources = st.resources
        <5>1. s.sid = "List:environment-files" /\ s.actions = {"s3:ListBucket"} /\ s.resources = {"bucket"}
          BY <3>1 DEF ListsFor, Allow
        <5> QED  BY <1>5, <2>2, <5>1
      <4> QED  BY <4>3, <4>4, <4>5
    <3>2. CASE s = GetFor(s.principals)
      <4>1. [s EXCEPT !.principals = @ \cup {a}] = GetFor(s.principals \cup {a})
        BY <3>2 DEF GetFor, Allow
      <4>2. with(s) = GetFor(s.principals \cup {a})  BY <2>2, <4>1 DEF with
      <4>3. /\ with(s).principals = s.principals \cup {a}
            /\ with(s).actions = s.actions /\ with(s).resources = s.resources
        BY <1>3, <3>2, <4>2
      <4>4. BucketStatement(with(s))
        BY <1>1, <1>6, <2>1, <4>2, <4>3 DEF Principled
      <4>5. s.actions = st.actions /\ s.resources = st.resources
        <5>1. s.sid = "Get:environment-files" /\ s.actions = {"s3:GetObject"} /\ s.resources = {"bucket/environment-files"}
          BY <3>2 DEF GetFor, Allow
        <5> QED  BY <1>5, <2>2, <5>1
      <4> QED  BY <4>3, <4>4, <4>5
    <3> QED  BY <1>1, <2>1, <3>1, <3>2
  <2>3. CASE s.sid # st.sid
    BY <2>1, <2>3 DEF with
  <2> QED  BY <2>2, <2>3
<1>9. CASE ContainsStatementId(d, st.sid)
  <2>1. e = {with(s) : s \in d}  BY <1>9 DEF WithStatement, AddPrincipalToStatement, with
  <2>2. PICK m \in d : m.sid = st.sid  BY <1>9 DEF ContainsStatementId
  <2> HIDE DEF e
  <2>3. BucketDocument(e)  BY <1>8, <2>1 DEF BucketDocument
  <2>4. Extends(e, d)  BY <1>8, <2>1 DEF Extends, Allows
  <2>5. \A x \in st.actions, r \in st.resources : Allows(e, a, x, r)
    BY <1>8, <2>1, <2>2 DEF Allows
  <2> QED  BY <2>3, <2>4, <2>5 DEF e
<1>10. CASE ~ContainsStatementId(d, st.sid)
  <2>1. e = d \cup {st}  BY <1>10 DEF WithStatement
  <2> HIDE DEF e
  <2>2. BucketDocument(e)  BY <1>7, <2>1 DEF BucketDocument
  <2>3. Extends(e, d)  BY <2>1 DEF Extends, Allows
  <2>4. \A x \in st.actions, r \in st.resources : Allows(e, a, x, r)
    BY <1>7, <2>1 DEF Allows
  <2> QED  BY <2>2, <2>3, <2>4 DEF e
<1> QED  BY <1>9, <1>10

\* Both statements: the account may list and read the bootstrap files.
LEMMA OpenBucket ==
    ASSUME NEW d, BucketDocument(d), NEW a \in Account
    PROVE  LET e == OpenedBucket(d, a) IN
           /\ BucketDocument(e) /\ Extends(e, d)
           /\ Allows(e, a, "s3:ListBucket", "bucket")
           /\ Allows(e, a, "s3:GetObject", "bucket/environment-files")
<1> DEFINE listed == WithStatement(d, ListStatement(a), a)
           e == WithStatement(listed, GetStatement(a), a)
<1>1. /\ BucketDocument(listed) /\ Extends(listed, d)
      /\ \A x \in ListStatement(a).actions, r \in ListStatement(a).resources :
           Allows(listed, a, x, r)
  BY WithBucketStatement
<1> HIDE DEF listed
<1>2. /\ BucketDocument(e) /\ Extends(e, listed)
      /\ \A x \in GetStatement(a).actions, r \in GetStatement(a).resources : Allows(e, a, x, r)
  BY <1>1, WithBucketStatement
<1>3. /\ "s3:ListBucket" \in ListStatement(a).actions /\ "bucket" \in ListStatement(a).resources
      /\ "s3:GetObject" \in GetStatement(a).actions
      /\ "bucket/environment-files" \in GetStatement(a).resources
  BY DEF ListStatement, GetStatement, Allow
<1>4. e = OpenedBucket(d, a)  BY DEF OpenedBucket, listed
<1> HIDE DEF e
<1> QED  BY <1>1, <1>2, <1>3, <1>4 DEF Extends

\* The statements of accounts, and which of them the comparison takes for which.
LEMMA KeyStatements ==
    /\ \A a : LET s == UsageStatement(a) IN
         s.effect = "Allow" /\ s.principals = {a} /\ s.actions = {"kms:Encrypt", "kms:Decrypt"}
         /\ s.resources = {"*"} /\ s.condition = "none"
    /\ \A a : LET s == AttachStatement(a) IN
         s.effect = "Allow" /\ s.principals = {a} /\ s.actions = {"kms:CreateGrant"}
         /\ s.resources = {"*"} /\ s.condition = "GrantIsForAWSResource"
    /\ \A s : MainKeyStatement(s) => s.actions = {"kms:*"}
BY DEF UsageStatement, AttachStatement, MainKeyStatement, Allow

LEMMA ContainsKeyStatement ==
    ASSUME NEW d, \A s \in d : KeyStatement(s), NEW a \in Account
    PROVE  /\ PolicyDocumentContainsStatement(d, UsageStatement(a))
                 <=> \E b \in Account : Resembles(b, a) /\ UsageStatement(b) \in d
           /\ PolicyDocumentContainsStatement(d, AttachStatement(a))
                 <=> \E b \in Account : Resembles(b, a) /\ AttachStatement(b) \in d
<1>1. \A p, q : TargetContainsPrincipals({p}, {q}) <=> Resembles(p, q)
  BY DEF TargetContainsPrincipals
<1>2. ASSUME NEW b, NEW c
      PROVE  /\ Satisfies(UsageStatement(b), UsageStatement(c)) <=> Resembles(b, c)
             /\ Satisfies(AttachStatement(b), AttachStatement(c)) <=> Resembles(b, c)
             /\ ~Satisfies(UsageStatement(b), AttachStatement(c))
             /\ ~Satisfies(AttachStatement(b), UsageStatement(c))
  BY <1>1, KeyStatements DEF Satisfies, TargetContainsSource
<1>3. ASSUME NEW s, MainKeyStatement(s), NEW c
      PROVE  ~Satisfies(s, UsageStatement(c)) /\ ~Satisfies(s, AttachStatement(c))
  BY <1>3, KeyStatements DEF Satisfies, TargetContainsSource
<1> QED  BY <1>2, <1>3 DEF PolicyDocumentContainsStatement, KeyStatement

\* The role's own policy allows what the resource policies are asked for.
LEMMA InstanceAllows ==
    ASSUME NEW r \in Role
    PROVE  /\ Allows(InstancePolicy(r), r, "s3:ListBucket", "accessPoint")
           /\ Allows(InstancePolicy(r), r, "s3:GetObject", "accessPoint/object")
           /\ Allows(InstancePolicy(r), r, "kms:Decrypt", "*")
           /\ Allows(InstancePolicy(r), r, "kms:CreateGrant", "*")
BY DEF InstancePolicy, Allows, Allow

\* _configureKmsKey: afterwards the account of the role is admitted, or one that is
\* taken for it.  The second insertion decides like the first.
LEMMA UseKey ==
    ASSUME NEW d, KeyDocument(d), NEW r \in Role
    PROVE  LET e == UsableKey(d, RoleAccount[r]) IN
           KeyDocument(e) /\ Extends(e, d) /\ DecryptsInPlaceOf(e, r)
<1> DEFINE a == RoleAccount[r]
           e == UsableKey(d, a)
           used == AddedUnlessContained(d, UsageStatement(a))
           taken == \E b \in Account : Resembles(b, a) /\ UsageStatement(b) \in d
<1>1. a \in Account  BY Parties
<1>2. Resembles(a, a)  BY DEF Resembles
<1> HIDE DEF a
<1>3. ASSUME NEW b, NEW doc, UsageStatement(b) \in doc, AttachStatement(b) \in doc
      PROVE  DecryptsAs(doc, b, r)
  BY <1>3, KeyStatements, InstanceAllows DEF DecryptsAs, MayUse, Allows
<1>4. PolicyDocumentContainsStatement(d, UsageStatement(a)) <=> taken
  BY <1>1, ContainsKeyStatement DEF KeyDocument
<1>5. CASE taken
  <2>1. used = d  BY <1>4, <1>5 DEF AddedUnlessContained
  <2>2. PICK b \in Account : /\ Resembles(b, a)
                             /\ UsageStatement(b) \in d /\ AttachStatement(b) \in d
    BY <1>5 DEF KeyDocument
  <2>3. PolicyDocumentContainsStatement(d, AttachStatement(a))
    BY <1>1, <2>2, ContainsKeyStatement DEF KeyDocument
  <2>4. e = d  BY <2>1, <2>3 DEF UsableKey, AddedUnlessContained
  <2>5. DecryptsAs(d, b, r)  BY <1>3, <2>2
  <2> HIDE DEF e
  <2>6. DecryptsInPlaceOf(e, r)  BY <2>2, <2>4, <2>5 DEF DecryptsInPlaceOf, a
  <2>7. Extends(e, d)  BY <2>4 DEF Extends
  <2>8. KeyDocument(e)  BY <2>4
  <2> QED  BY <2>6, <2>7, <2>8 DEF e, a
<1>6. CASE ~taken
  <2>1. used = d \cup {UsageStatement(a)}  BY <1>4, <1>6 DEF AddedUnlessContained
  <2>2. \A s \in used : KeyStatement(s)  BY <1>1, <2>1 DEF KeyDocument, KeyStatement
  <2>3. \A b, c : AttachStatement(b) # UsageStatement(c)  BY KeyStatements
  <2> HIDE DEF used
  <2>4. ~PolicyDocumentContainsStatement(used, AttachStatement(a))
    <3> SUFFICES ASSUME NEW b \in Account, Resembles(b, a), AttachStatement(b) \in used
                 PROVE  FALSE
      BY <1>1, <2>2, ContainsKeyStatement
    <3>1. UsageStatement(b) \in d  BY <2>1, <2>3 DEF KeyDocument
    <3> QED  BY <1>6, <3>1
  <2>5. e = d \cup {UsageStatement(a), AttachStatement(a)}
    BY <2>1, <2>4 DEF UsableKey, AddedUnlessContained, used
  <2> HIDE DEF e
  <2>6. KeyDocument(e)
    <3>1. \A s \in e : KeyStatement(s)  BY <1>1, <2>5 DEF KeyDocument, KeyStatement
    <3>2. ASSUME NEW b \in Account
          PROVE  UsageStatement(b) \in e <=> AttachStatement(b) \in e
      <4>1. UsageStatement(b) = UsageStatement(a) <=> AttachStatement(b) = AttachStatement(a)
        <5>1. UsageStatement(b) = UsageStatement(a) => b = a
          <6>1. UsageStatement(b).principals = {b} /\ UsageStatement(a).principals = {a}
            BY KeyStatements
          <6> QED  BY <6>1
        <5>2. AttachStatement(b) = AttachStatement(a) => b = a
          <6>1. AttachStatement(b).principals = {b} /\ AttachStatement(a).principals = {a}
            BY KeyStatements
          <6> QED  BY <6>1
        <5> QED  BY <5>1, <5>2
      <4>2. UsageStatement(b) \in d <=> AttachStatement(b) \in d  BY DEF KeyDocument
      <4>3. UsageStatement(b) \in e <=> UsageStatement(b) \in d \/ UsageStatement(b) = UsageStatement(a)
        BY <2>3, <2>5
      <4>4. AttachStatement(b) \in e <=> AttachStatement(b) \in d \/ AttachStatement(b) = AttachStatement(a)
        BY <2>3, <2>5
      <4> QED  BY <4>1, <4>2, <4>3, <4>4
    <3> QED  BY <2>5, <3>1, <3>2 DEF KeyDocument
  <2>7. DecryptsAs(e, a, r)  BY <1>3, <2>5
  <2>8. Extends(e, d)  BY <2>5 DEF Extends, Allows
  <2> QED  BY <1>1, <1>2, <2>6, <2>7, <2>8 DEF DecryptsInPlaceOf, a, e
<1> QED  BY <1>5, <1>6 DEF a

\* The statements of an access point's policy, by whom they admit.
LEMMA AccessPointStatements ==
    /\ \A r : ListBucketStatement(r) = ListFor({r}) /\ GetPutStatement(r) = WriteFor({r})
    /\ \A P : LET s == ListFor(P) IN
         s.effect = "Allow" /\ s.principals = P /\ s.actions = {"s3:ListBucket"}
         /\ s.resources = {"accessPoint"} /\ s.condition = "none"
    /\ \A P : LET s == WriteFor(P) IN
         s.effect = "Allow" /\ s.principals = P /\ s.actions = {"s3:GetObject", "s3:PutObject"}
         /\ s.resources = {"accessPoint/object"} /\ s.condition = "none"
    /\ \A P, Q : [ListFor(P) EXCEPT !.principals = Q] = ListFor(Q)
    /\ \A P, Q : [WriteFor(P) EXCEPT !.principals = Q] = WriteFor(Q)
BY DEF ListBucketStatement, GetPutStatement, ListFor, WriteFor, Allow

\* The only one of P is taken for r, or r for that one.
Taken(P, r) == \E q \in P : P = {q} /\ (Resembles(q, r) \/ Resembles(r, q))

\* Whom a statement for P admits once r was inserted.
Joined(P, r) == IF Taken(P, r) THEN P ELSE P \cup {r}

SameKind(s, st) ==
    /\ s.effect = st.effect /\ s.condition = st.condition
    /\ s.actions = st.actions /\ s.resources = st.resources

OtherKind(s, st) == ~(s.actions \subseteq st.actions) /\ ~(st.actions \subseteq s.actions)

\* insertStatementIntoDocument with no statement of the kind: it is appended.
LEMMA InsertNew ==
    ASSUME NEW d, NEW st, \A o \in d : OtherKind(o, st)
    PROVE  InsertStatementIntoDocument(st, d) = d \cup {st}
<1>1. ~PolicyDocumentContainsStatement(d, st)
  BY DEF PolicyDocumentContainsStatement, Satisfies, TargetContainsSource, OtherKind
<1>2. {s \in d : Mergeable(st, s)} = {}  BY DEF Mergeable, TargetContainsSource, OtherKind
<1> QED  BY <1>1, <1>2 DEF InsertStatementIntoDocument

\* With one statement of the kind: the principal joins it, unless one of the two
\* comparisons takes it for the only one that is there.
LEMMA InsertMore ==
    ASSUME NEW d, NEW st, NEW r, NEW s \in d, s.principals # {},
           st.principals = {r}, st.effect = "Allow", SameKind(s, st),
           \A o \in d \ {s} : OtherKind(o, st),
           [s EXCEPT !.principals = s.principals] = s
    PROVE  InsertStatementIntoDocument(st, d) =
             (d \ {s}) \cup {[s EXCEPT !.principals = Joined(s.principals, r)]}
<1> DEFINE P == s.principals
           mergeable == {t \in d : Mergeable(st, t)}
           first == CHOOSE t \in mergeable : TRUE
           merged == [first EXCEPT !.principals = @ \cup MissingPrincipals(st, first)]
           inserted == (d \ {first}) \cup {merged}
<1>1. TargetContainsPrincipals(P, {r}) <=> \E q \in P : P = {q} /\ Resembles(q, r)
  BY DEF TargetContainsPrincipals
<1>2. TargetContainsPrincipals({r}, P) <=> \E q \in P : P = {q} /\ Resembles(r, q)
  BY DEF TargetContainsPrincipals
<1>3. PolicyDocumentContainsStatement(d, st) <=> \E q \in P : P = {q} /\ Resembles(q, r)
  BY <1>1 DEF PolicyDocumentContainsStatement, Satisfies, TargetContainsSource, OtherKind, SameKind
<1>4. mergeable = {s}
  BY DEF Mergeable, TargetContainsSource, OtherKind, SameKind
<1>5. first = s  BY <1>4
<1>6. InsertStatementIntoDocument(st, d) =
        IF PolicyDocumentContainsStatement(d, st) THEN d ELSE inserted
  BY <1>4 DEF InsertStatementIntoDocument
<1>7. P \cup MissingPrincipals(st, s) =
        IF \E q \in P : P = {q} /\ Resembles(r, q) THEN P ELSE P \cup {r}
  BY <1>2 DEF MissingPrincipals
<1>8. inserted = (d \ {s}) \cup {[s EXCEPT !.principals = P \cup MissingPrincipals(st, s)]}
  BY <1>5
<1>9. (d \ {s}) \cup {[s EXCEPT !.principals = P]} = d  OBVIOUS
<1> HIDE DEF inserted
<1>10. CASE \E q \in P : P = {q} /\ Resembles(q, r)
  <2>1. Joined(P, r) = P  BY <1>10 DEF Joined, Taken
  <2> QED  BY <1>3, <1>6, <1>9, <1>10, <2>1
<1>11. CASE ~\E q \in P : P = {q} /\ Resembles(q, r)
  <2>1. Joined(P, r) = P \cup MissingPrincipals(st, s)  BY <1>7, <1>11 DEF Joined, Taken
  <2> QED  BY <1>3, <1>6, <1>8, <1>11, <2>1
<1> QED  BY <1>10, <1>11

\* Both insertions: they decide alike, so the statements stay for the same roles.
LEMMA AdmittedExactly ==
    ASSUME NEW P \in SUBSET Role, NEW r \in Role
    PROVE  AdmittedRole(AccessPointFor(P), r) = AccessPointFor(Joined(P, r))
<1> DEFINE d == AccessPointFor(P)
           J == Joined(P, r)
           listed == InsertStatementIntoDocument(ListBucketStatement(r), d)
<1>1. J # {}  BY DEF Joined, Taken
<1>2. \A Q, R : /\ OtherKind(ListFor(Q), WriteFor(R)) /\ OtherKind(WriteFor(Q), ListFor(R))
               /\ SameKind(ListFor(Q), ListFor(R)) /\ SameKind(WriteFor(Q), WriteFor(R))
               /\ ListFor(Q) # WriteFor(R)
  <2>1. ~({"s3:ListBucket"} \subseteq {"s3:GetObject", "s3:PutObject"})  OBVIOUS
  <2>2. ~({"s3:GetObject", "s3:PutObject"} \subseteq {"s3:ListBucket"})  OBVIOUS
  <2> SUFFICES ASSUME NEW Q, NEW R
               PROVE  /\ OtherKind(ListFor(Q), WriteFor(R)) /\ OtherKind(WriteFor(Q), ListFor(R))
                      /\ SameKind(ListFor(Q), ListFor(R)) /\ SameKind(WriteFor(Q), WriteFor(R))
                      /\ ListFor(Q) # WriteFor(R)
    OBVIOUS
  <2>3. OtherKind(ListFor(Q), WriteFor(R)) /\ OtherKind(WriteFor(Q), ListFor(R))
    <3>1. ListFor(Q).actions = {"s3:ListBucket"} /\ ListFor(R).actions = {"s3:ListBucket"}
      BY AccessPointStatements
    <3>2. /\ WriteFor(Q).actions = {"s3:GetObject", "s3:PutObject"}
          /\ WriteFor(R).actions = {"s3:GetObject", "s3:PutObject"}
      BY AccessPointStatements
    <3> QED  BY <2>1, <2>2, <3>1, <3>2 DEF OtherKind
  <2>4. SameKind(ListFor(Q), ListFor(R)) /\ SameKind(WriteFor(Q), WriteFor(R))
    BY AccessPointStatements DEF SameKind
  <2>5. ListFor(Q) # WriteFor(R)  BY AccessPointStatements
  <2> QED  BY <2>3, <2>4, <2>5
<1>3. AdmittedRole(d, r) = InsertStatementIntoDocument(WriteFor({r}), listed)
  BY AccessPointStatements DEF AdmittedRole
<1>4. listed = InsertStatementIntoDocument(ListFor({r}), d)  BY AccessPointStatements
<1> HIDE DEF listed, J
<1>5. CASE P = {}
  <2>1. J = {r}  BY <1>5 DEF J, Joined, Taken
  <2>2. d = {}  BY <1>5 DEF AccessPointFor
  <2>3. listed = {} \cup {ListFor({r})}  BY <1>4, <2>2, InsertNew
  <2>4. AdmittedRole(d, r) = listed \cup {WriteFor({r})}  BY <1>2, <1>3, <2>3, InsertNew
  <2>5. AccessPointFor(J) = {ListFor(J), WriteFor(J)}  BY <1>1 DEF AccessPointFor
  <2> QED  BY <2>1, <2>3, <2>4, <2>5 DEF J
<1>6. CASE P # {}
  <2>1. d = {ListFor(P), WriteFor(P)}  BY <1>6 DEF AccessPointFor
  <2> HIDE DEF d
  <2>2. listed = (d \ {ListFor(P)}) \cup {ListFor(J)}
    <3>1. \A o \in d \ {ListFor(P)} : OtherKind(o, ListFor({r}))  BY <1>2, <2>1
    <3>2. ListFor(P) \in d /\ SameKind(ListFor(P), ListFor({r}))  BY <1>2, <2>1
    <3>3. PICK st, t : st = ListFor({r}) /\ t = ListFor(P)  OBVIOUS
    <3>4. st.principals = {r} /\ st.effect = "Allow" /\ t.principals = P
      BY <3>3, AccessPointStatements
    <3>5. [t EXCEPT !.principals = t.principals] = t /\ [t EXCEPT !.principals = J] = ListFor(J)
      BY <3>3, <3>4, AccessPointStatements
    <3>6. t \in d /\ SameKind(t, st) /\ \A x \in d \ {t} : OtherKind(x, st)
      BY <3>1, <3>2, <3>3
    <3>7. InsertStatementIntoDocument(st, d) =
            (d \ {t}) \cup {[t EXCEPT !.principals = Joined(t.principals, r)]}
      BY <1>6, <3>4, <3>5, <3>6, InsertMore
    <3> QED  BY <1>4, <3>3, <3>4, <3>5, <3>7 DEF J
  <2>3. listed = {ListFor(J), WriteFor(P)}  BY <1>2, <2>1, <2>2
  <2>4. AdmittedRole(d, r) = (listed \ {WriteFor(P)}) \cup {WriteFor(J)}
    <3>1. \A o \in listed \ {WriteFor(P)} : OtherKind(o, WriteFor({r}))  BY <1>2, <2>3
    <3>2. WriteFor(P) \in listed /\ SameKind(WriteFor(P), WriteFor({r}))  BY <1>2, <2>3
    <3>3. PICK st, t : st = WriteFor({r}) /\ t = WriteFor(P)  OBVIOUS
    <3>4. st.principals = {r} /\ st.effect = "Allow" /\ t.principals = P
      BY <3>3, AccessPointStatements
    <3>5. [t EXCEPT !.principals = t.principals] = t /\ [t EXCEPT !.principals = J] = WriteFor(J)
      BY <3>3, <3>4, AccessPointStatements
    <3>6. t \in listed /\ SameKind(t, st) /\ \A x \in listed \ {t} : OtherKind(x, st)
      BY <3>1, <3>2, <3>3
    <3>7. InsertStatementIntoDocument(st, listed) =
            (listed \ {t}) \cup {[t EXCEPT !.principals = Joined(t.principals, r)]}
      <4>1. PICK doc : doc = listed  OBVIOUS
      <4>2. t \in doc /\ \A x \in doc \ {t} : OtherKind(x, st)  BY <3>6, <4>1
      <4>3. InsertStatementIntoDocument(st, doc) =
              (doc \ {t}) \cup {[t EXCEPT !.principals = Joined(t.principals, r)]}
        BY <1>6, <3>4, <3>5, <3>6, <4>2, InsertMore
      <4> QED  BY <4>1, <4>3
    <3> QED  BY <1>3, <3>3, <3>4, <3>5, <3>7 DEF J
  <2>5. AdmittedRole(d, r) = {ListFor(J), WriteFor(J)}  BY <1>2, <2>3, <2>4
  <2> QED  BY <1>1, <2>5 DEF AccessPointFor, J, d
<1> QED  BY <1>5, <1>6

\* Who is in both statements can list, read and write.
LEMMA ReadsWhoIsIn ==
    ASSUME NEW P \in SUBSET Role, NEW q \in P
    PROVE  ReadsThrough(AccessPointFor(P), q)
<1>1. AccessPointFor(P) = {ListFor(P), WriteFor(P)}  BY DEF AccessPointFor
<1>2. /\ Allows(AccessPointFor(P), q, "s3:ListBucket", "accessPoint")
      /\ Allows(AccessPointFor(P), q, "s3:GetObject", "accessPoint/object")
  BY <1>1, AccessPointStatements DEF Allows
<1> QED  BY <1>2, InstanceAllows DEF ReadsThrough, MayUse

\* addExternalEndpoint: afterwards the role is admitted, or one that is taken for it,
\* and who was admitted still is.
LEMMA AdmitRole ==
    ASSUME NEW d, AccessPointDocument(d), NEW r \in Role
    PROVE  LET e == AdmittedRole(d, r) IN
           /\ AccessPointDocument(e) /\ Extends(e, d) /\ ReadsInPlaceOf(e, r)
           /\ ~UpdatedFor(d, r) => e = d
<1> DEFINE e == AdmittedRole(d, r)
<1>1. PICK P \in SUBSET Role : d = AccessPointFor(P)  BY DEF AccessPointDocument
<1>2. PICK J \in SUBSET Role : J = Joined(P, r)  BY DEF Joined
<1>3. e = AccessPointFor(J)  BY <1>1, <1>2, AdmittedExactly
<1>4. ~UpdatedFor(d, r) => e = d
  BY DEF UpdatedFor, AdmittedRole, InsertStatementIntoDocument
<1> HIDE DEF e
<1>5. P \subseteq J  BY <1>2 DEF Joined
<1>6. Extends(e, d)
  <2>1. CASE P = {}
    BY <1>1, <2>1 DEF Extends, Allows, AccessPointFor
  <2>2. CASE P # {}
    <3>1. d = {ListFor(P), WriteFor(P)} /\ e = {ListFor(J), WriteFor(J)}
      BY <1>1, <1>3, <1>5, <2>2 DEF AccessPointFor
    <3>2. ASSUME NEW p, NEW x, NEW y, Allows(d, p, x, y) PROVE Allows(e, p, x, y)
      BY <1>5, <3>1, <3>2, AccessPointStatements DEF Allows
    <3> QED  BY <3>2 DEF Extends
  <2> QED  BY <2>1, <2>2
<1>7. \E q \in J : Resembles(q, r) \/ Resembles(r, q)
  BY <1>2 DEF Joined, Taken, Resembles
<1>8. ReadsInPlaceOf(e, r)  BY <1>3, <1>7, ReadsWhoIsIn DEF ReadsInPlaceOf
<1> QED  BY <1>3, <1>4, <1>6, <1>8 DEF AccessPointDocument, e

(***************************************************************************)
(* Steps                                                                   *)
(***************************************************************************)
\* A call c goes to pc with account a and document d, and the others stay.
CallMoved(c, pc, a, d) ==
    /\ DOMAIN call' = Caller
    /\ call'[c].pc = pc /\ call'[c].account = a /\ call'[c].seen = d
    /\ \A k \in Caller \ {c} : call'[k] = call[k]

GrantMoved(r, pc, d) ==
    /\ DOMAIN grant' = Role
    /\ grant'[r].pc = pc /\ grant'[r].seen = d
    /\ \A q \in Role \ {r} : grant'[q] = grant[q]

\* What a step of a call does to the calls.
LEMMA CallMoves ==
    ASSUME TypeOK, NEW c \in Caller, NEW pc, NEW d, CallReads(c, pc, d)
    PROVE  CallMoved(c, pc, call[c].account, d)
<1> DEFINE new == [pc |-> pc, account |-> call[c].account, seen |-> d]
<1>1. DOMAIN call = Caller  BY DEF TypeOK
<1>2. call' = [call EXCEPT ![c] = new]  BY DEF CallReads
<1>3. new.pc = pc /\ new.account = call[c].account /\ new.seen = d  OBVIOUS
<1> HIDE DEF new
<1> QED  BY <1>1, <1>2, <1>3 DEF CallMoved

\* What a step of a dataset call does to the dataset calls.
LEMMA GrantMoves ==
    ASSUME TypeOK, NEW r \in Role, NEW pc, NEW d, GrantReads(r, pc, d)
    PROVE  GrantMoved(r, pc, d)
<1> DEFINE new == [pc |-> pc, seen |-> d]
<1>1. DOMAIN grant = Role  BY DEF TypeOK
<1>2. grant' = [grant EXCEPT ![r] = new]  BY DEF GrantReads
<1>3. new.pc = pc /\ new.seen = d  OBVIOUS
<1> HIDE DEF new
<1> QED  BY <1>1, <1>2, <1>3 DEF GrantMoved

\* What every step does to the shared state: nothing is taken away from a document
\* unless it is marked as torn.
Grow ==
    /\ torn \subseteq torn' /\ busPermission \subseteq busPermission' /\ (targeted => targeted')
    /\ "rule" \in torn' \/ rule \subseteq rule'
    /\ "bucket" \in torn' \/ Extends(bucketPolicy', bucketPolicy)
    /\ "key" \in torn' \/ Extends(keyPolicy', keyPolicy)
    /\ "accessPoint" \in torn' \/ Extends(apPolicy', apPolicy)

\* What holds of an account or a role stays when the shared state grows.
LEMMA Grown ==
    ASSUME Grow
    PROVE  /\ \A a : InRule(a) => InRule(a)'
           /\ \A a : InBucketPolicy(a) => InBucketPolicy(a)'
           /\ \A a : InKeyPolicy(a) => InKeyPolicy(a)'
           /\ \A r : "accessPoint" \notin torn' /\ ReadsInPlaceOf(apPolicy, r)
                     => ReadsInPlaceOf(apPolicy', r)
           /\ \A r : "key" \notin torn' /\ DecryptsInPlaceOf(keyPolicy, r)
                     => DecryptsInPlaceOf(keyPolicy', r)
<1>1. \A a : InRule(a) => InRule(a)'  BY DEF Grow, InRule
<1>2. \A a : InBucketPolicy(a) => InBucketPolicy(a)'  BY DEF Grow, InBucketPolicy, Extends
<1>3. \A a : InKeyPolicy(a) => InKeyPolicy(a)'  BY DEF Grow, InKeyPolicy, Extends
<1>4. \A r : "accessPoint" \notin torn' /\ ReadsInPlaceOf(apPolicy, r)
               => ReadsInPlaceOf(apPolicy', r)
  BY DEF Grow, ReadsInPlaceOf, ReadsThrough, MayUse, Extends
<1>5. \A r : "key" \notin torn' /\ DecryptsInPlaceOf(keyPolicy, r)
               => DecryptsInPlaceOf(keyPolicy', r)
  BY DEF Grow, DecryptsInPlaceOf, DecryptsAs, MayUse, Extends
<1> QED  BY <1>1, <1>2, <1>3, <1>4, <1>5

\* A document that is the old one, unless its put was marked, extends it.
LEMMA PutGrows ==
    ASSUME NEW name, NEW seen, NEW old, NEW new, Tear(name, seen, old), Extends(new, seen)
    PROVE  torn \subseteq torn' /\ torn' \subseteq torn \cup {name}
           /\ (name \in torn' \/ Extends(new, old))
BY DEF Tear

\* A document extends itself.
LEMMA SameExtends ==  \A d : Extends(d, d)
BY DEF Extends

\* Statements of every document are statements.
LEMMA Typed ==
    ASSUME NEW d, NEW s \in d, BucketDocument(d) \/ KeyDocument(d) \/ AccessPointDocument(d)
    PROVE  StatementOK(s)
<1>1. CASE BucketDocument(d)
  <2>1. BucketStatement(s)  BY <1>1 DEF BucketDocument
  <2> QED  BY <2>1 DEF BucketStatement, StatementOK, Principled, Like, Allow
<1>2. CASE KeyDocument(d)
  <2>1. KeyStatement(s)  BY <1>2 DEF KeyDocument
  <2>2. CASE MainKeyStatement(s) /\ Principled(s)
    BY <2>2 DEF MainKeyStatement, StatementOK, Principled, Allow
  <2>3. CASE \E a \in Account : s = UsageStatement(a) \/ s = AttachStatement(a)
    <3>1. PICK a \in Account : s = UsageStatement(a) \/ s = AttachStatement(a)  BY <2>3
    <3>2. s.effect = "Allow" /\ s.principals = {a}
      <4>1. CASE s = UsageStatement(a)  BY <4>1, KeyStatements
      <4>2. CASE s = AttachStatement(a)  BY <4>2, KeyStatements
      <4> QED  BY <3>1, <4>1, <4>2
    <3> QED  BY <3>2, Parties DEF StatementOK
  <2> QED  BY <2>1, <2>2, <2>3 DEF KeyStatement
<1>3. CASE AccessPointDocument(d)
  <2>1. PICK P \in SUBSET Role : P # {} /\ (s = ListFor(P) \/ s = WriteFor(P))
    BY <1>3 DEF AccessPointDocument, AccessPointFor
  <2> QED  BY <2>1, AccessPointStatements, Parties DEF StatementOK
<1> QED  BY <1>1, <1>2, <1>3

\* The variables that are no progress of calls.
RestOK ==
    /\ busPermission \subseteq Account /\ rule \subseteq Account /\ targeted \in BOOLEAN
    /\ \A i \in rows \cup index : RowOK(i)
    /\ torn \subseteq {"rule", "bucket", "key", "accessPoint", "creation"}
    /\ faults \in 0..MaxFaults

\* The type invariant contains these.
LEMMA Rest == ASSUME TypeOK PROVE RestOK
BY DEF TypeOK, RestOK

PoliciesOK ==
    BucketDocument(bucketPolicy) /\ KeyDocument(keyPolicy) /\ AccessPointDocument(apPolicy)

\* A document that a call may hold when it is at pc.
Holds(pc, d) ==
    /\ pc = "puttingRule" => d \subseteq Account
    /\ pc = "puttingBucket" => BucketDocument(d)
    /\ pc = "puttingKey" => KeyDocument(d)

GrantHolds(pc, d) ==
    /\ pc = "puttingAp" => AccessPointDocument(d)
    /\ pc = "puttingKey" => KeyDocument(d)

\* What is known of the two rows of an account.
RowsOK == RowsKnow /\ AnswersAreTrue

\* A call's step keeps the invariant if it grows the shared state and c knows what
\* it has done; what the step does to the rows is another matter.
LEMMA CallStepKeeps ==
    ASSUME IInv, NEW c \in Caller, NEW pc, NEW a \in Account, NEW d, pc # "new",
           CallMoved(c, pc, a, d), Holds(pc, d), CallKnows(c)',
           Grow, RestOK', PoliciesOK', UNCHANGED grant,
           StoredIsAdmitted', OneRowPerAccount', StoreAlone', RowsOK'
    PROVE  IInv'
<1>1. TypeOK'
  <2>1. \A s \in bucketPolicy' \cup keyPolicy' \cup apPolicy' : StatementOK(s)
    BY Typed DEF PoliciesOK
  <2>2. DOMAIN call' = Caller /\ DOMAIN grant' = Role
    BY DEF CallMoved, IInv, TypeOK
  <2>3. ASSUME NEW k \in Caller
        PROVE  /\ call'[k].account \in Account \cup {Nobody}
               /\ call'[k].pc # "new" <=> call'[k].account # Nobody
    BY HostingAssumption DEF CallMoved, IInv, TypeOK
  <2> QED  BY <2>1, <2>2, <2>3 DEF RestOK, TypeOK
<1>2. DocumentsOK'
  BY DEF IInv, DocumentsOK, PoliciesOK, CallMoved, Holds
<1>3. CallsKnow'
  <2> SUFFICES ASSUME NEW k \in Caller, k # c PROVE CallKnows(k)'
    BY DEF CallsKnow
  <2>1. CallKnows(k) /\ call'[k] = call[k]  BY DEF IInv, CallsKnow, CallMoved
  <2> QED  BY <2>1, Grown DEF CallKnows, Grow
<1>4. GrantsKnow' /\ GrantedOrTakenFor'
  <2>1. torn \subseteq torn'  BY DEF Grow
  <2>2. ASSUME NEW r \in Role PROVE GrantKnows(r)' /\ TakenFor(r)'
    <3>1. GrantKnows(r) /\ TakenFor(r)  BY DEF IInv, GrantsKnow, GrantedOrTakenFor
    <3> QED  BY <2>1, <3>1, Grown DEF GrantKnows, TakenFor, PastAccessPoint, PastKey
  <2> QED  BY <2>2 DEF GrantsKnow, GrantedOrTakenFor
<1> QED  BY <1>1, <1>2, <1>3, <1>4 DEF IInv, RowsOK

\* A call that stores nothing and has no answer yet keeps what is known of rows.
LEMMA RowsStay ==
    ASSUME IInv, NEW c \in Caller, NEW pc, NEW a, NEW d, CallMoved(c, pc, a, d),
           pc \notin {"indexing", "done", "refused"}, UNCHANGED <<rows, index>>
    PROVE  RowsOK'
BY DEF IInv, RowsOK, RowsKnow, AnswersAreTrue, CallMoved

\* Rows that stay are still admitted when the shared state grows.
LEMMA StoredGrows ==
    ASSUME IInv, Grow, UNCHANGED rows
    PROVE  StoredIsAdmitted'
BY Grown DEF IInv, StoredIsAdmitted, Grow

\* A step that stores nothing and prepares no row keeps what is known about rows.
LEMMA CreationsStay ==
    ASSUME IInv, Grow, UNCHANGED rows,
           \A k \in Caller : call'[k].pc = "storing" =>
               call[k].pc = "storing" /\ call'[k].account = call[k].account
    PROVE  OneRowPerAccount' /\ StoreAlone'
<1>1. torn \subseteq torn'  BY DEF Grow
<1>2. OneRowPerAccount'  BY <1>1 DEF IInv, OneRowPerAccount
<1>3. ASSUME NEW k \in Caller PROVE StoresAlone(k)'
  <2>1. StoresAlone(k)  BY DEF IInv, StoreAlone
  <2> QED  BY <1>1, <2>1 DEF StoresAlone
<1> QED  BY <1>2, <1>3 DEF StoreAlone

\* A dataset call's step likewise.
LEMMA GrantStepKeeps ==
    ASSUME IInv, NEW r \in Role, NEW pc, NEW d,
           GrantMoved(r, pc, d), GrantHolds(pc, d), GrantKnows(r)', TakenFor(r)',
           Grow, RestOK', PoliciesOK', UNCHANGED <<call, rowVars>>
    PROVE  IInv'
<1>1. TypeOK'
  <2>1. \A s \in bucketPolicy' \cup keyPolicy' \cup apPolicy' : StatementOK(s)
    BY Typed DEF PoliciesOK
  <2>2. DOMAIN call' = Caller /\ DOMAIN grant' = Role
    BY DEF GrantMoved, IInv, TypeOK
  <2> QED  BY <2>1, <2>2 DEF RestOK, IInv, TypeOK
<1>2. DocumentsOK'
  BY DEF IInv, DocumentsOK, PoliciesOK, GrantMoved, GrantHolds
<1>3. CallsKnow'
  <2> SUFFICES ASSUME NEW k \in Caller PROVE CallKnows(k)'
    BY DEF CallsKnow
  <2>1. CallKnows(k)  BY DEF IInv, CallsKnow
  <2> QED  BY <2>1, Grown DEF CallKnows, Grow
<1>4. GrantsKnow' /\ GrantedOrTakenFor'
  <2>1. torn \subseteq torn'  BY DEF Grow
  <2>2. ASSUME NEW q \in Role, q # r PROVE GrantKnows(q)' /\ TakenFor(q)'
    <3>1. GrantKnows(q) /\ TakenFor(q) /\ grant'[q] = grant[q]
      BY <2>2 DEF IInv, GrantsKnow, GrantedOrTakenFor, GrantMoved
    <3> QED  BY <2>1, <3>1, Grown DEF GrantKnows, TakenFor, PastAccessPoint, PastKey
  <2> QED  BY <2>2 DEF GrantsKnow, GrantedOrTakenFor
<1>5. StoredIsAdmitted' /\ OneRowPerAccount' /\ StoreAlone'
  BY StoredGrows, CreationsStay DEF rowVars
<1>6. RowsKnow' /\ AnswersAreTrue'
  BY DEF IInv, RowsKnow, AnswersAreTrue, rowVars
<1> QED  BY <1>1, <1>2, <1>3, <1>4, <1>5, <1>6 DEF IInv

(***************************************************************************)
(* Each action keeps the invariant                                         *)
(***************************************************************************)
\* What a call that has begun works on.
LEMMA Begun ==
    ASSUME IInv, NEW c \in Caller, call[c].pc # "new"
    PROVE  call[c].account \in Account /\ CallKnows(c) /\ RestOK /\ PoliciesOK
BY Rest DEF IInv, TypeOK, CallsKnow, DocumentsOK, PoliciesOK

\* Nothing of the shared state changes.
LEMMA NothingChanges ==
    ASSUME UNCHANGED <<busVars, policyVars, torn>>
    PROVE  Grow
BY SameExtends DEF Grow, busVars, policyVars

\* The call begins, with the rule as it is now.
LEMMA PutPermissionKeeps ==
    ASSUME IInv, NEW c \in Caller, NEW a \in Account, PutPermission(c, a)
    PROVE  IInv'
<1> DEFINE new == [pc |-> "puttingRule", account |-> a, seen |-> rule]
<1>1. TypeOK /\ RestOK /\ PoliciesOK  BY Rest DEF IInv, DocumentsOK, PoliciesOK
<1>2. CallMoved(c, "puttingRule", a, rule)
  <2>1. DOMAIN call = Caller /\ call' = [call EXCEPT ![c] = new]
    BY <1>1 DEF PutPermission, TypeOK
  <2>2. new.pc = "puttingRule" /\ new.account = a /\ new.seen = rule  OBVIOUS
  <2> HIDE DEF new
  <2> QED  BY <2>1, <2>2 DEF CallMoved
<1> USE DEF PutPermission, policyVars, rowVars
<1>3. Grow  BY SameExtends DEF Grow
<1>4. Holds("puttingRule", rule)  BY <1>1 DEF Holds, RestOK
<1>5. CallKnows(c)'  BY <1>2 DEF CallMoved, CallKnows
<1>6. RestOK' /\ PoliciesOK'  BY <1>1 DEF RestOK, PoliciesOK
<1>7. StoredIsAdmitted'  BY <1>3, StoredGrows
<1>8. OneRowPerAccount' /\ StoreAlone'  BY <1>2, <1>3, CreationsStay DEF CallMoved
<1>9. RowsOK'  BY <1>2, RowsStay
<1> QED  BY <1>2, <1>3, <1>4, <1>5, <1>6, <1>7, <1>8, <1>9, CallStepKeeps

\* The rule has the account, and those of the rule it read.
LEMMA PutRuleKeeps ==
    ASSUME IInv, NEW c \in Caller, PutRule(c)
    PROVE  IInv'
<1> USE DEF PutRule, policyVars, rowVars
<1> DEFINE a == call[c].account
<1>1. a \in Account /\ CallKnows(c) /\ RestOK /\ PoliciesOK  BY Begun
<1>2. CallMoved(c, "targeting", a, {})  BY CallMoves DEF CallGoes, IInv
<1> HIDE DEF a
<1>3. Grow  BY SameExtends DEF Grow, Tear
<1>4. Holds("targeting", {})  BY DEF Holds
<1>5. CallKnows(c)'
  BY <1>1, <1>2 DEF CallMoved, CallKnows, InRule, a
<1>6. RestOK'
  <2>1. call[c].seen \subseteq Account  BY DEF IInv, DocumentsOK
  <2> QED  BY <1>1, <2>1 DEF RestOK, Tear, a
<1>7. PoliciesOK'  BY <1>1 DEF PoliciesOK
<1>8. StoredIsAdmitted'  BY <1>3, StoredGrows
<1>9. OneRowPerAccount' /\ StoreAlone'  BY <1>2, <1>3, CreationsStay DEF CallMoved
<1>10. RowsOK'  BY <1>2, RowsStay
<1> QED  BY <1>1, <1>2, <1>3, <1>4, <1>5, <1>6, <1>7, <1>8, <1>9, <1>10, CallStepKeeps

\* The rule has its target, and the call the bucket policy.
LEMMA PutTargetsKeeps ==
    ASSUME IInv, NEW c \in Caller, PutTargets(c)
    PROVE  IInv'
<1> USE DEF PutTargets, policyVars, rowVars
<1> DEFINE a == call[c].account
<1>1. a \in Account /\ CallKnows(c) /\ RestOK /\ PoliciesOK  BY Begun
<1>2. CallMoved(c, "puttingBucket", a, bucketPolicy)  BY CallMoves DEF IInv
<1> HIDE DEF a
<1>3. Grow  BY SameExtends DEF Grow
<1>4. Holds("puttingBucket", bucketPolicy)  BY <1>1 DEF Holds, PoliciesOK
<1>5. CallKnows(c)'
  BY <1>1, <1>2 DEF CallMoved, CallKnows, InRule, a
<1>6. RestOK' /\ PoliciesOK'  BY <1>1 DEF RestOK, PoliciesOK
<1>7. StoredIsAdmitted'  BY <1>3, StoredGrows
<1>8. OneRowPerAccount' /\ StoreAlone'  BY <1>2, <1>3, CreationsStay DEF CallMoved
<1>9. RowsOK'  BY <1>2, RowsStay
<1> QED  BY <1>1, <1>2, <1>3, <1>4, <1>5, <1>6, <1>7, <1>8, <1>9, CallStepKeeps

\* The bucket policy admits the account.
LEMMA PutBucketPolicyKeeps ==
    ASSUME IInv, NEW c \in Caller, PutBucketPolicy(c)
    PROVE  IInv'
<1> USE DEF PutBucketPolicy, busVars, rowVars
<1>1. call[c].account \in Account /\ CallKnows(c) /\ RestOK /\ PoliciesOK  BY Begun
<1>2. PICK a \in Account : a = call[c].account  BY <1>1
<1>3. PICK d : d = call[c].seen  OBVIOUS
<1>4. CallMoved(c, "puttingKey", a, keyPolicy)  BY <1>2, CallMoves DEF IInv
<1>5. BucketDocument(d)  BY <1>3 DEF IInv, DocumentsOK
<1>6. /\ BucketDocument(bucketPolicy') /\ Extends(bucketPolicy', d)
      /\ Allows(bucketPolicy', a, "s3:ListBucket", "bucket")
      /\ Allows(bucketPolicy', a, "s3:GetObject", "bucket/environment-files")
  BY <1>5, <1>2, <1>3, OpenBucket
<1>7. torn \subseteq torn' /\ torn' \subseteq torn \cup {"bucket"}
      /\ ("bucket" \in torn' \/ Extends(bucketPolicy', bucketPolicy))
  BY <1>6, <1>3, PutGrows
<1>8. Grow  BY <1>7, SameExtends DEF Grow
<1>9. Holds("puttingKey", keyPolicy)  BY <1>1 DEF Holds, PoliciesOK
<1>10. CallKnows(c)'
  <2>1. InRule(a)' /\ targeted' /\ a \in busPermission'
    BY <1>1, <1>8, <1>2, Grown DEF CallKnows, Grow
  <2>2. InBucketPolicy(a)'  BY <1>6 DEF InBucketPolicy
  <2> QED  BY <1>4, <2>1, <2>2 DEF CallMoved, CallKnows
<1>11. RestOK' /\ PoliciesOK'  BY <1>1, <1>6, <1>7 DEF RestOK, PoliciesOK
<1>12. StoredIsAdmitted'  BY <1>8, StoredGrows
<1>13. OneRowPerAccount' /\ StoreAlone'  BY <1>4, <1>8, CreationsStay DEF CallMoved
<1>14. RowsOK'  BY <1>4, RowsStay
<1> QED  BY <1>1, <1>4, <1>8, <1>9, <1>10, <1>11, <1>12, <1>13, <1>14, CallStepKeeps

\* The key policy admits the account, and the main account still.
LEMMA PutKeyPolicyKeeps ==
    ASSUME IInv, NEW c \in Caller, PutKeyPolicy(c)
    PROVE  IInv'
<1> USE DEF PutKeyPolicy, busVars, rowVars
<1>1. call[c].account \in Account /\ CallKnows(c) /\ RestOK /\ PoliciesOK  BY Begun
<1>2. PICK a \in Account : a = call[c].account  BY <1>1
<1>3. PICK d : d = call[c].seen  OBVIOUS
<1>4. CallMoved(c, "validating", a, {})  BY <1>2, CallMoves DEF IInv, CallGoes
<1>5. KeyDocument(d)  BY <1>3 DEF IInv, DocumentsOK
<1>6. KeyDocument(keyPolicy') /\ Extends(keyPolicy', d) /\ Allows(keyPolicy', a, "kms:*", "*")
  BY <1>5, <1>2, <1>3, AddToKey
<1>7. torn \subseteq torn' /\ torn' \subseteq torn \cup {"key"}
      /\ ("key" \in torn' \/ Extends(keyPolicy', keyPolicy))
  BY <1>6, <1>3, PutGrows
<1>8. Grow  BY <1>7, SameExtends DEF Grow
<1>9. Holds("validating", {})  BY DEF Holds
<1>10. CallKnows(c)'
  <2>1. InRule(a)' /\ targeted' /\ a \in busPermission' /\ InBucketPolicy(a)'
    BY <1>1, <1>8, <1>2, Grown DEF CallKnows, Grow
  <2>2. InKeyPolicy(a)'  BY <1>6 DEF InKeyPolicy
  <2> QED  BY <1>4, <2>1, <2>2 DEF CallMoved, CallKnows
<1>11. RestOK' /\ PoliciesOK'  BY <1>1, <1>6, <1>7 DEF RestOK, PoliciesOK
<1>12. StoredIsAdmitted'  BY <1>8, StoredGrows
<1>13. OneRowPerAccount' /\ StoreAlone'  BY <1>4, <1>8, CreationsStay DEF CallMoved
<1>14. RowsOK'  BY <1>4, RowsStay
<1> QED  BY <1>1, <1>4, <1>8, <1>9, <1>10, <1>11, <1>12, <1>13, <1>14, CallStepKeeps

\* Nobody else is about to store an account that was found to have no row and no
\* creation under way.
LEMMA ValidateCreateKeeps ==
    ASSUME IInv, NEW c \in Caller, ValidateCreate(c)
    PROVE  IInv'
<1> USE DEF ValidateCreate, busVars, policyVars, rowVars
<1>1. call[c].account \in Account /\ CallKnows(c) /\ RestOK /\ PoliciesOK  BY Begun
<1>2. PICK a \in Account : a = call[c].account  BY <1>1
<1>3. PICK pc : pc = IF Indexed(a) THEN "refused" ELSE "storing"  OBVIOUS
<1>4. CallMoved(c, pc, a, {})  BY <1>2, <1>3, CallMoves DEF IInv, CallGoes
<1>5. torn \subseteq torn' /\ torn' \subseteq torn \cup {"creation"}  OBVIOUS
<1>6. Grow  BY <1>5, SameExtends DEF Grow
<1>7. Holds(pc, {}) /\ pc # "new"  BY <1>3 DEF Holds
<1>8. CallKnows(c)'
  <2>1. InRule(a)' /\ targeted' /\ a \in busPermission' /\ InBucketPolicy(a)' /\ InKeyPolicy(a)'
    BY <1>1, <1>2, <1>6, Grown DEF CallKnows, Grow
  <2> QED  BY <1>4, <2>1 DEF CallMoved, CallKnows
<1>9. RestOK' /\ PoliciesOK'  BY <1>1, <1>5 DEF RestOK, PoliciesOK
<1>10. StoredIsAdmitted'  BY <1>6, StoredGrows
<1>11. OneRowPerAccount'  BY <1>5 DEF IInv, OneRowPerAccount
<1>12. StoreAlone'
  <2> SUFFICES ASSUME NEW k \in Caller, "creation" \notin torn', call'[k].pc = "storing"
               PROVE  /\ \A i \in rows : i.account # call'[k].account
                      /\ \A j \in Caller :
                           call'[j].pc = "storing" /\ call'[j].account = call'[k].account => j = k
    BY DEF StoreAlone, StoresAlone
  <2>1. ~HalfCreated(a) /\ "creation" \notin torn  BY <1>2
  <2>2. StoresAlone(k)  BY DEF IInv, StoreAlone
  <2>3. ASSUME NEW j \in Caller, j # c, call[j].pc = "storing" PROVE call[j].account # a
    BY <2>1, <2>3 DEF HalfCreated
  <2>4. CASE k = c
    <3>1. ~Indexed(a)  BY <1>3, <1>4, <2>4 DEF CallMoved
    <3>2. \A i \in rows : i.account # a  BY <2>1, <3>1 DEF HalfCreated, Indexed
    <3> QED  BY <1>4, <2>3, <2>4, <3>2 DEF CallMoved
  <2>5. CASE k # c
    BY <1>4, <2>1, <2>2, <2>3, <2>5 DEF CallMoved, StoresAlone
  <2> QED  BY <2>4, <2>5
<1>13. RowsOK'
  <2>1. pc = "refused" => \E i \in rows \cap index : i.account = a
    BY <1>3 DEF Indexed, IInv, RowsKnow
  <2> QED  BY <1>3, <1>4, <2>1 DEF IInv, RowsOK, RowsKnow, AnswersAreTrue, CallMoved
<1> QED  BY <1>4, <1>6, <1>7, <1>8, <1>9, <1>10, <1>11, <1>12, <1>13, CallStepKeeps

\* The row is the only one of its account, which has all its access.
LEMMA StoreAccountKeeps ==
    ASSUME IInv, NEW c \in Caller, StoreAccount(c)
    PROVE  IInv'
<1> USE DEF StoreAccount, busVars, policyVars
<1>1. call[c].account \in Account /\ CallKnows(c) /\ RestOK /\ PoliciesOK  BY Begun
<1>2. PICK a \in Account : a = call[c].account  BY <1>1
<1>3. CallMoved(c, "indexing", a, {})  BY <1>2, CallMoves DEF IInv, CallGoes
<1>4. Grow  BY SameExtends DEF Grow
<1>5. Holds("indexing", {})  BY DEF Holds
<1>6. InRule(a) /\ targeted /\ a \in busPermission /\ InBucketPolicy(a) /\ InKeyPolicy(a)
  BY <1>1, <1>2 DEF CallKnows
<1>7. CallKnows(c)'
  BY <1>3, <1>6, Grown, <1>4 DEF CallMoved, CallKnows, Grow
<1>8. PICK new : new = [id |-> c, account |-> a]  OBVIOUS
<1>9. new.id = c /\ new.account = a /\ rows' = rows \cup {new}  BY <1>2, <1>8
<1>10. RestOK' /\ PoliciesOK'  BY <1>1, <1>9 DEF RestOK, PoliciesOK, RowOK
<1>11. StoredIsAdmitted'
  <2> SUFFICES ASSUME NEW i \in rows'
               PROVE  /\ i.account \in busPermission /\ targeted
                      /\ InRule(i.account) /\ InBucketPolicy(i.account) /\ InKeyPolicy(i.account)
    BY DEF StoredIsAdmitted, InRule, InBucketPolicy, InKeyPolicy
  <2> QED  BY <1>6, <1>9 DEF IInv, StoredIsAdmitted
<1>12. StoresAlone(c)  BY DEF IInv, StoreAlone
<1>13. OneRowPerAccount'
  BY <1>2, <1>9, <1>12 DEF IInv, OneRowPerAccount, StoresAlone
<1>14. StoreAlone'
  <2> SUFFICES ASSUME NEW k \in Caller PROVE StoresAlone(k)'
    BY DEF StoreAlone
  <2>1. StoresAlone(k)  BY DEF IInv, StoreAlone
  <2> QED  BY <1>2, <1>3, <1>9, <1>12, <2>1 DEF CallMoved, StoresAlone
<1>15. RowsOK'  BY <1>3, <1>8, <1>9 DEF IInv, RowsOK, RowsKnow, AnswersAreTrue, CallMoved
<1> QED  BY <1>3, <1>4, <1>5, <1>7, <1>10, <1>11, <1>13, <1>14, <1>15, CallStepKeeps

\* The second row repeats the first, and the answer may be given.
LEMMA StoreAwsAccountKeeps ==
    ASSUME IInv, NEW c \in Caller, StoreAwsAccount(c)
    PROVE  IInv'
<1> USE DEF StoreAwsAccount, busVars, policyVars
<1>1. call[c].account \in Account /\ CallKnows(c) /\ RestOK /\ PoliciesOK  BY Begun
<1>2. PICK a \in Account : a = call[c].account  BY <1>1
<1>3. CallMoved(c, "done", a, {})  BY <1>2, CallMoves DEF IInv, CallGoes
<1>4. Grow  BY SameExtends DEF Grow
<1>5. Holds("done", {})  BY DEF Holds
<1>6. CallKnows(c)'  BY <1>1, <1>2, <1>3 DEF CallMoved, CallKnows
<1>7. PICK new : new = [id |-> c, account |-> a]  OBVIOUS
<1>8. new.id = c /\ new.account = a /\ index' = index \cup {new}  BY <1>2, <1>7
<1>9. RestOK' /\ PoliciesOK'  BY <1>1, <1>8 DEF RestOK, PoliciesOK, RowOK
<1>10. StoredIsAdmitted'  BY <1>4, StoredGrows
<1>11. OneRowPerAccount' /\ StoreAlone'  BY <1>3, <1>4, CreationsStay DEF CallMoved
<1>12. RowsOK'
  <2>1. new \in rows  BY <1>2, <1>7 DEF IInv, RowsKnow
  <2> QED  BY <1>3, <1>8, <2>1 DEF IInv, RowsOK, RowsKnow, AnswersAreTrue, CallMoved
<1> QED  BY <1>3, <1>4, <1>5, <1>6, <1>9, <1>10, <1>11, <1>12, CallStepKeeps

\* A call that fails leaves what it did.
LEMMA CallFailsKeeps ==
    ASSUME IInv, NEW c \in Caller, CallFails(c)
    PROVE  IInv'
<1> USE DEF CallFails, busVars, policyVars, rowVars
<1>1. call[c].account \in Account /\ CallKnows(c) /\ RestOK /\ PoliciesOK  BY Begun
<1>2. PICK a \in Account : a = call[c].account  BY <1>1
<1>3. CallMoved(c, "failed", a, {})  BY <1>2, CallMoves DEF IInv, CallGoes
<1>4. Grow  BY SameExtends DEF Grow
<1>5. Holds("failed", {})  BY DEF Holds
<1>6. CallKnows(c)'  BY <1>1, <1>2, <1>3 DEF CallMoved, CallKnows
<1>7. PoliciesOK'  BY <1>1 DEF PoliciesOK
<1>8. RestOK'  BY <1>1, HostingAssumption DEF RestOK
<1>9. StoredIsAdmitted'  BY <1>4, StoredGrows
<1>10. OneRowPerAccount' /\ StoreAlone'  BY <1>3, <1>4, CreationsStay DEF CallMoved
<1>11. RowsOK'  BY <1>3, RowsStay
<1> QED  BY <1>3, <1>4, <1>5, <1>6, <1>7, <1>8, <1>9, <1>10, <1>11, CallStepKeeps

\* A dataset call begins, with the policy as it is now.
LEMMA GetAccessPointPolicyKeeps ==
    ASSUME IInv, NEW r \in Role, GetAccessPointPolicy(r)
    PROVE  IInv'
<1> USE DEF GetAccessPointPolicy, busVars, policyVars, rowVars
<1>1. TypeOK /\ RestOK /\ PoliciesOK  BY Rest DEF IInv, DocumentsOK, PoliciesOK
<1>2. GrantMoved(r, "puttingAp", apPolicy)  BY <1>1, GrantMoves
<1>3. Grow  BY SameExtends DEF Grow
<1>4. GrantHolds("puttingAp", apPolicy)  BY <1>1 DEF GrantHolds, PoliciesOK
<1>5. GrantKnows(r)' /\ TakenFor(r)'  BY <1>2 DEF GrantMoved, GrantKnows, TakenFor, PastAccessPoint, PastKey
<1>6. RestOK' /\ PoliciesOK'  BY <1>1 DEF RestOK, PoliciesOK
<1> QED  BY <1>2, <1>3, <1>4, <1>5, <1>6, GrantStepKeeps

\* Whether the policy is put or already admits the role, the role is admitted
\* afterwards, unless the document was overwritten since it was read.
LEMMA PutAccessPointPolicyKeeps ==
    ASSUME IInv, NEW r \in Role, NEW withKey \in BOOLEAN, PutAccessPointPolicy(r, withKey)
    PROVE  IInv'
<1> USE DEF PutAccessPointPolicy, busVars, rowVars
<1>1. TypeOK /\ RestOK /\ PoliciesOK  BY Rest DEF IInv, DocumentsOK, PoliciesOK
<1>2. PICK d : d = grant[r].seen  OBVIOUS
<1>3. PICK pc, e : /\ pc = (IF withKey THEN "puttingKey" ELSE "done")
                   /\ e = (IF withKey THEN keyPolicy ELSE {})
  OBVIOUS
<1>4. GrantMoved(r, pc, e)
  <2>1. CASE withKey  BY <1>1, <1>3, <2>1, GrantMoves
  <2>2. CASE ~withKey  BY <1>1, <1>3, <2>2, GrantMoves DEF GrantGoes
  <2> QED  BY <2>1, <2>2
<1>5. GrantHolds(pc, e)  BY <1>1, <1>3 DEF GrantHolds, PoliciesOK
<1>6. AccessPointDocument(d) /\ GrantKnows(r)
  BY <1>2 DEF IInv, DocumentsOK, GrantsKnow
<1>7. /\ AccessPointDocument(AdmittedRole(d, r)) /\ Extends(AdmittedRole(d, r), d)
      /\ ReadsInPlaceOf(AdmittedRole(d, r), r)
      /\ ~UpdatedFor(d, r) => AdmittedRole(d, r) = d
  BY <1>6, AdmitRole
<1>8. /\ torn \subseteq torn' /\ torn' \subseteq torn \cup {"accessPoint"}
      /\ "accessPoint" \in torn' \/ Extends(apPolicy', apPolicy)
      /\ AccessPointDocument(apPolicy')
      /\ "accessPoint" \notin torn' => ReadsInPlaceOf(apPolicy', r)
  <2>1. CASE ~UpdatedFor(d, r)
    <3>1. UNCHANGED <<apPolicy, torn>>  BY <1>2, <2>1
    <3>2. "accessPoint" \notin torn => ReadsInPlaceOf(apPolicy, r)
      BY <1>2, <1>6, <1>7, <2>1 DEF GrantKnows
    <3> QED  BY <1>1, <3>1, <3>2, SameExtends DEF PoliciesOK
  <2>2. CASE UpdatedFor(d, r)
    <3>1. apPolicy' = AdmittedRole(d, r) /\ Tear("accessPoint", d, apPolicy)  BY <1>2, <2>2
    <3> QED  BY <1>7, <3>1, PutGrows
  <2> QED  BY <2>1, <2>2
<1>9. Grow  BY <1>8, SameExtends DEF Grow
<1>10. GrantKnows(r)' /\ TakenFor(r)'
  BY <1>3, <1>4, <1>8 DEF GrantMoved, GrantKnows, TakenFor, PastAccessPoint, PastKey
<1>11. RestOK' /\ PoliciesOK'  BY <1>1, <1>8 DEF RestOK, PoliciesOK
<1> QED  BY <1>4, <1>5, <1>9, <1>10, <1>11, GrantStepKeeps

\* Likewise for the key's policy.
LEMMA ConfigureKmsKeyKeeps ==
    ASSUME IInv, NEW r \in Role, ConfigureKmsKey(r)
    PROVE  IInv'
<1> USE DEF ConfigureKmsKey, busVars, rowVars
<1>1. TypeOK /\ RestOK /\ PoliciesOK  BY Rest DEF IInv, DocumentsOK, PoliciesOK
<1>2. PICK d : d = grant[r].seen  OBVIOUS
<1>3. PICK used : used = UsableKey(d, RoleAccount[r])  OBVIOUS
<1>4. GrantMoved(r, "keyed", {})  BY <1>1, GrantMoves DEF GrantGoes
<1>5. GrantHolds("keyed", {})  BY DEF GrantHolds
<1>6. KeyDocument(d) /\ GrantKnows(r) /\ TakenFor(r)
  BY <1>2 DEF IInv, DocumentsOK, GrantsKnow, GrantedOrTakenFor
<1>7. KeyDocument(used) /\ Extends(used, d) /\ DecryptsInPlaceOf(used, r)
  BY <1>3, <1>6, UseKey
<1>8. /\ torn \subseteq torn' /\ torn' \subseteq torn \cup {"key"}
      /\ "key" \in torn' \/ Extends(keyPolicy', keyPolicy)
      /\ KeyDocument(keyPolicy')
      /\ "key" \notin torn' => DecryptsInPlaceOf(keyPolicy', r)
  <2>1. CASE used = d
    <3>1. UNCHANGED <<keyPolicy, torn>>  BY <1>2, <1>3, <2>1
    <3>2. "key" \notin torn => DecryptsInPlaceOf(keyPolicy, r)
      BY <1>2, <1>6, <1>7, <2>1 DEF GrantKnows
    <3> QED  BY <1>1, <3>1, <3>2, SameExtends DEF PoliciesOK
  <2>2. CASE used # d
    <3>1. keyPolicy' = used /\ Tear("key", d, keyPolicy)  BY <1>2, <1>3, <2>2
    <3> QED  BY <1>7, <3>1, PutGrows
  <2> QED  BY <2>1, <2>2
<1>9. Grow  BY <1>8, SameExtends DEF Grow
<1>10. GrantKnows(r)' /\ TakenFor(r)'
  BY <1>4, <1>6, <1>8, <1>9, Grown DEF GrantMoved, GrantKnows, TakenFor, PastAccessPoint, PastKey, Grow
<1>11. RestOK' /\ PoliciesOK'  BY <1>1, <1>8 DEF RestOK, PoliciesOK
<1> QED  BY <1>4, <1>5, <1>9, <1>10, <1>11, GrantStepKeeps

(***************************************************************************)
(* The theorems                                                            *)
(***************************************************************************)
\* The initial state satisfies the invariant.
LEMMA InvInit == Init => IInv
<1> SUFFICES ASSUME Init PROVE IInv
  OBVIOUS
<1> DEFINE m == Allow("main-key-share-statement", {Main}, {"kms:*"}, {"*"}, "none")
<1>1. \A c \in Caller : call[c].pc = "new" /\ call[c].account = Nobody
  BY DEF Init, NewCall
<1>2. \A r \in Role : grant[r].pc = "new"  BY DEF Init, NewGrant
<1>3. keyPolicy = {m} /\ bucketPolicy = {} /\ apPolicy = {}  BY DEF Init
<1>4. MainKeyStatement(m) /\ m.principals = {Main}  BY DEF MainKeyStatement, Allow
<1> HIDE DEF m
<1>5. KeyDocument(keyPolicy)
  <2>1. m.actions = {"kms:*"}  BY <1>4, KeyStatements
  <2>2. \A a : UsageStatement(a) \notin keyPolicy /\ AttachStatement(a) \notin keyPolicy
    BY <1>3, <2>1, KeyStatements
  <2> QED  BY <1>3, <1>4, <2>2 DEF KeyDocument, KeyStatement, Principled, Principals
<1>6. BucketDocument(bucketPolicy) /\ AccessPointDocument(apPolicy)
  BY <1>3 DEF BucketDocument, AccessPointDocument, AccessPointFor
<1>7. DocumentsOK  BY <1>1, <1>2, <1>5, <1>6 DEF DocumentsOK
<1>8. TypeOK
  <2>1. \A s \in bucketPolicy \cup keyPolicy \cup apPolicy : StatementOK(s)
    BY <1>5, <1>6, Typed
  <2>2. DOMAIN call = Caller /\ DOMAIN grant = Role  BY DEF Init
  <2>3. targeted \in BOOLEAN  BY DEF Init
  <2>4. faults \in 0..MaxFaults  BY HostingAssumption DEF Init
  <2>5. busPermission = {} /\ rule = {} /\ rows = {} /\ index = {} /\ torn = {}  BY DEF Init
  <2>6. \A c \in Caller : /\ call[c].account \in Account \cup {Nobody}
                          /\ call[c].pc # "new" <=> call[c].account # Nobody
    BY <1>1
  <2> QED  BY <2>1, <2>2, <2>3, <2>4, <2>5, <2>6 DEF TypeOK
<1>9. CallsKnow /\ GrantsKnow /\ GrantedOrTakenFor /\ StoreAlone
  BY <1>1, <1>2
  DEF CallsKnow, CallKnows, GrantsKnow, GrantKnows, GrantedOrTakenFor, TakenFor, PastAccessPoint, PastKey, StoreAlone,
      StoresAlone
<1>10. StoredIsAdmitted /\ OneRowPerAccount /\ RowsKnow /\ AnswersAreTrue
  BY <1>1 DEF Init, StoredIsAdmitted, OneRowPerAccount, RowsKnow, AnswersAreTrue
<1> QED  BY <1>7, <1>8, <1>9, <1>10 DEF IInv

\* Every step keeps the invariant.
LEMMA InvStep == IInv /\ [Next]_vars => IInv'
<1> SUFFICES ASSUME IInv, [Next]_vars PROVE IInv'
  OBVIOUS
<1>1. ASSUME NEW c \in Caller, CallStep(c) \/ CallFails(c) PROVE IInv'
  BY <1>1, PutRuleKeeps, PutTargetsKeeps, PutBucketPolicyKeeps, PutKeyPolicyKeeps,
     ValidateCreateKeeps, StoreAccountKeeps, StoreAwsAccountKeeps, CallFailsKeeps
  DEF CallStep
<1>2. ASSUME NEW r \in Role, GrantStep(r) PROVE IInv'
  BY <1>2, GetAccessPointPolicyKeeps, PutAccessPointPolicyKeeps, ConfigureKmsKeyKeeps
  DEF GrantStep
<1>3. CASE UNCHANGED vars
  BY <1>3
  DEF vars, IInv, TypeOK, DocumentsOK, CallsKnow, CallKnows, InRule, InBucketPolicy,
      InKeyPolicy, StoredIsAdmitted, GrantsKnow, GrantKnows, GrantedOrTakenFor, TakenFor, PastAccessPoint, PastKey,
      OneRowPerAccount, StoreAlone, StoresAlone, RowsKnow, AnswersAreTrue
<1> QED  BY <1>1, <1>2, <1>3, PutPermissionKeeps DEF Next

\* The inductive invariant holds in every reachable state.
THEOREM Invariance == Spec => []IInv
BY InvInit, InvStep, PTL DEF Spec

\* hostingAccountLifecycleService.ts, initializeAccount: an account that has a row
\* is routed and has its access, unless overlapping calls tore a document.
THEOREM StoredAdmitted == Spec => []StoredIsAdmitted
<1>1. IInv => StoredIsAdmitted  BY DEF IInv
<1> QED  BY <1>1, Invariance, PTL

\* The main account keeps its own key, whatever calls overlap: every document that
\* a call holds has the main account in the key's statement.
THEOREM MainKeeps == Spec => []MainKeepsKey
<1>1. IInv => MainKeepsKey
  <2> SUFFICES ASSUME IInv PROVE MainKeepsKey
    OBVIOUS
  <2>1. PICK s \in keyPolicy : MainKeyStatement(s) /\ Main \in s.principals
    BY DEF IInv, DocumentsOK, KeyDocument
  <2>2. s.actions = {"kms:*"} /\ s.resources = {"*"}  BY <2>1 DEF MainKeyStatement, Allow
  <2> QED  BY <2>1, <2>2 DEF MainKeepsKey, Allows
<1> QED  BY <1>1, Invariance, PTL

\* s3DataSetStoragePlugin.ts: after a grant that no put overlapped the role can use
\* the access point, and the key if the call named one, or one that the comparison
\* takes for it can.
THEOREM GrantedOrResembled == Spec => []GrantedOrTakenFor
<1>1. IInv => GrantedOrTakenFor  BY DEF IInv
<1> QED  BY <1>1, Invariance, PTL

\* No ARN is taken for another: no role's characters all occur in another role's ARN,
\* and no account's in another account's.
Distinguishable ==
    /\ \A q, r \in Role : Resembles(q, r) => q = r
    /\ \A a, b \in Account : Resembles(a, b) => a = b

\* The comparison of principals is the only reason why a role that was admitted, with
\* no overlap, may be left out: without such ARNs every grant is kept.
THEOREM GrantedIfDistinguishable ==
    ASSUME Distinguishable
    PROVE  Spec => []GrantedIsAdmitted
<1>1. GrantedOrTakenFor => GrantedIsAdmitted
  BY Parties
  DEF Distinguishable, GrantedOrTakenFor, TakenFor, GrantedIsAdmitted, ReadsInPlaceOf,
      DecryptsInPlaceOf
<1> QED  BY <1>1, GrantedOrResembled, PTL

\* No role is left with half of its access, whatever calls overlap and whichever role
\* is taken for which: the two insertions decide alike.
THEOREM GrantsWhole == Spec => []WholeGrants
<1>1. IInv => WholeGrants
  <2> SUFFICES ASSUME IInv PROVE WholeGrants
    OBVIOUS
  <2>1. PICK P \in SUBSET Role : apPolicy = AccessPointFor(P)
    BY DEF IInv, DocumentsOK, AccessPointDocument
  <2>2. CASE P = {}
    BY <2>1, <2>2 DEF AccessPointFor, WholeGrants, Whole, Allows
  <2>3. CASE P # {}
    <3>1. apPolicy = {ListFor(P), WriteFor(P)}  BY <2>1, <2>3 DEF AccessPointFor
    <3>2. ASSUME NEW r
          PROVE  /\ Allows(apPolicy, r, "s3:ListBucket", "accessPoint") <=> r \in P
                 /\ Allows(apPolicy, r, "s3:PutObject", "accessPoint/object") <=> r \in P
      BY <3>1, AccessPointStatements DEF Allows
    <3> QED  BY <3>2 DEF WholeGrants, Whole
  <2> QED  BY <2>2, <2>3
<1> QED  BY <1>1, Invariance, PTL

\* accountService.ts, create: an AWS account has one row, unless two creations of it
\* overlapped.
THEOREM OneRow == Spec => []OneRowPerAccount
<1>1. IInv => OneRowPerAccount  BY DEF IInv
<1> QED  BY <1>1, Invariance, PTL

\* accountService.ts, _validateCreate: who is told that an account is stored, or that it
\* is known already, is told the truth.
THEOREM AnswersTrue == Spec => []AnswersAreTrue
<1>1. IInv => AnswersAreTrue  BY DEF IInv
<1> QED  BY <1>1, Invariance, PTL

================================================================================
