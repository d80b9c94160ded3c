--------------------------- MODULE MCAccountHandler ---------------------------
(* Finite values for AccountHandler. *)
EXTENDS AccountHandler

CONSTANTS a1, a2, d1, d2

SomeAccounts == <<a1, a2>>

Policy(name, document) == [name |-> name, document |-> document]

\* as deployed; with a changed and a new policy; with a customer-managed one
SomeRoles ==
    {[trust |-> "t", inline |-> {Policy("p", "old"), Policy("q", "old")}, managed |-> {}],
     [trust |-> "t", inline |-> {Policy("p", "new")}, managed |-> {"aws"}],
     [trust |-> "u", inline |-> {Policy("p", "old")}, managed |-> {"custom"}]}

Party(who, runs, failures) == [who |-> who, runs |-> runs, failures |-> failures]

\* Two people deploy, one of them once more; one deploys twice beside an account's
\* handler; and once beside the handler of two accounts, of which one execution fails.
SomeParties ==
    {Party({d1, d2}, 3, 0), Party({d1, a1}, 2, 0), Party({d1, a1, a2}, 1, 1)}
================================================================================
