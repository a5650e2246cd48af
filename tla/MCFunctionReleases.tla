------------------------- MODULE MCFunctionReleases -------------------------
EXTENDS FunctionReleases

CONSTANTS a, b, c, m1, m2

Taken == [NoFiles EXCEPT !.live = Foreign]
Deployed == [releases |-> {a, b}, live |-> a, active |-> a, current |-> a, previous |-> b]
Starts == {Taken, Deployed}
=============================================================================
