---------------------------- MODULE PolicyDocuments ----------------------------
(***************************************************************************)
(* IAM policy documents and what IamHelper does with them (iamHelper.ts).  *)
(* A document is a set of statements and a statement's lists are sets: IAM *)
(* gives no meaning to their order, nor to an entry that is there twice.   *)
(***************************************************************************)
CONSTANT Chars      \* the characters that the ARN of a principal is made of

\* An "Allow" statement; only such statements are built in this code.
Allow(sid, principals, actions, resources, condition) ==
    [sid |-> sid, effect |-> "Allow", principals |-> principals, actions |-> actions,
     resources |-> resources, condition |-> condition]

ContainsStatementId(document, sid) == \E s \in document : s.sid = sid

\* Mutants of AddPrincipalToStatement: a principal that is there is taken out;
\* the principal replaces those there are.
TogglePrincipalOfStatement(document, sid, principal) ==
    {IF s.sid = sid
     THEN [s EXCEPT !.principals = (@ \cup {principal}) \ (@ \cap {principal})]
     ELSE s : s \in document}

SetPrincipalOfStatement(document, sid, principal) ==
    {IF s.sid = sid THEN [s EXCEPT !.principals = {principal}] ELSE s : s \in document}

AddPrincipalToStatement(document, sid, principal) ==
    {IF s.sid = sid THEN [s EXCEPT !.principals = @ \cup {principal}] ELSE s : s \in document}

\* compareArrays: isEqual is computed from inSourceNotTarget alone, so the two
\* verdicts are the same.
TargetContainsSource(source, target) == source \subseteq target

\* _doComparePrincipals.  A statement that was parsed has one JsonPrincipal, whose
\* "AWS" entry is a string for one principal and a list for several, and _.every
\* and _.find go through a string as through a list: two lists are compared by
\* their members, two single ARNs by their characters, and a single one and a
\* list have no member in common.
Resembles(p, q) == Chars[p] \subseteq Chars[q]

TargetContainsPrincipals(source, target) ==
    IF \E p \in source, q \in target : source = {p} \/ target = {q}
    THEN \E p \in source, q \in target : source = {p} /\ target = {q} /\ Resembles(p, q)
    ELSE source \subseteq target

\* The five comparisons of policyDocumentContainsStatement, which puts the
\* statement of the document on the source side.
Satisfies(s, searched) ==
    /\ TargetContainsPrincipals(s.principals, searched.principals)
    /\ s.effect = searched.effect
    /\ TargetContainsSource(s.actions, searched.actions)
    /\ TargetContainsSource(s.resources, searched.resources)
    /\ s.condition = searched.condition

\* Mutant of PolicyDocumentContainsStatement: who is admitted is not compared.
ContainsStatementForAnyone(document, searched) ==
    \E s \in document : Satisfies([s EXCEPT !.principals = searched.principals], searched)

PolicyDocumentContainsStatement(document, searched) ==
    \E s \in document : Satisfies(s, searched)

\* A statement that insertStatementIntoDocument may add principals to.
Mergeable(statement, s) ==
    /\ s.effect = "Allow"
    /\ TargetContainsSource(statement.actions, s.actions)
    /\ TargetContainsSource(statement.resources, s.resources)
    /\ statement.condition = s.condition

\* Whom the merge adds: everyone or, where the principals are found in those of s,
\* nobody.
MissingPrincipals(statement, s) ==
    IF TargetContainsPrincipals(statement.principals, s.principals)
    THEN {} ELSE statement.principals

\* documentResult; documentUpdated is set unless the document contains the
\* statement, whether or not anybody was missing.
InsertStatementIntoDocument(statement, document) ==
    LET mergeable == {s \in document : Mergeable(statement, s)}
        first     == CHOOSE s \in mergeable : TRUE
        merged    == [first EXCEPT !.principals = @ \cup MissingPrincipals(statement, first)]
    IN  IF PolicyDocumentContainsStatement(document, statement) THEN document
        ELSE IF mergeable = {} THEN document \cup {statement}
        ELSE (document \ {first}) \cup {merged}

\* What a document allows: a principal may do an action on a resource.
Allows(document, principal, action, resource) ==
    \E s \in document :
        /\ principal \in s.principals
        /\ action \in s.actions
        /\ resource \in s.resources
================================================================================
