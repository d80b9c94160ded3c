----------------------- MODULE MCEnvironmentLifecycle -----------------------
\* TLC instances of EnvironmentLifecycle: the model values and the symmetry.
EXTENDS EnvironmentLifecycle, TLC

\* Requests, handlers and datasets are interchangeable.  Used by the runs that
\* check safety only.
Symmetry == Permutations(Req) \cup Permutations(Handler) \cup Permutations(Dataset)
=============================================================================
