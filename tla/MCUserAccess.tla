----------------------------- MODULE MCUserAccess -----------------------------
(* Finite values for UserAccess. *)
EXTENDS UserAccess

CONSTANTS root, researcher

Case(tabs, cookies, calls, n) ==
    [tabs |-> tabs, cookies |-> cookies, calls |-> calls, direct |-> n]

\* the application: the root user and a researcher sign in, or one of them in two
\* tabs; and a client that keeps cookies, with two requests at a time
SomeCases ==
    {Case({<<root, 1>>, <<researcher, 1>>}, FALSE, TRUE, 1),
     Case({<<root, 1>>, <<root, 2>>}, FALSE, FALSE, 0),
     Case({<<root, 1>>, <<root, 2>>}, TRUE, FALSE, 0)}
================================================================================
