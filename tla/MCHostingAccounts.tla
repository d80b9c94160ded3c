--------------------------- MODULE MCHostingAccounts ---------------------------
(* Finite values for HostingAccounts. *)
EXTENDS HostingAccounts, TLC

CONSTANTS a1, a2, c1, c2, r1, r2, r3

SomeRoleAccount == [r \in Role |-> IF r = r2 THEN a2 ELSE a1]

\* The characters of one account's number all occur in the other's; r3 resembles
\* r2, and r1 neither.
SomeChars ==
    Main :> {0} @@ a1 :> {1} @@ a2 :> {1, 2} @@ r1 :> {3} @@ r2 :> {4, 5} @@ r3 :> {4}

\* The same without r3.
CharsOfTwo == [p \in Principals |-> SomeChars[p]]
================================================================================
