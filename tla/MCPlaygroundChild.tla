-------------------------- MODULE MCPlaygroundChild --------------------------
\* Instances of PlaygroundChild for TLC.
EXTENDS PlaygroundChild, TLC

CONSTANTS s1, s2, x1, r1, r2, r3, r4, r5, b1, k1, k2, k3, k4

\* r5 has the arguments of r1.
SharedKey == (r1 :> k1) @@ (r2 :> k2) @@ (r3 :> k3) @@ (r4 :> k4) @@ (r5 :> k1)
==============================================================================
