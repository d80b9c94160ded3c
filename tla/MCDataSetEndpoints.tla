-------------------------- MODULE MCDataSetEndpoints --------------------------
\* TLC instances of DataSetEndpoints.
EXTENDS DataSetEndpoints, TLC

\* every environment has its instance role; there is one role of each name
MCRoleOf == CHOOSE f \in [Name -> Role] : \A m, n \in Name : f[m] = f[n] => m = n

Symmetry == Permutations(Client)
===============================================================================
