----------------------------- MODULE MCNetworks -----------------------------
EXTENDS Networks, TLC

CONSTANTS u1, u2, c1, a, b, c

OneOwner == c1 :> u1
TwoAndOne == u1 :> {a, b} @@ u2 :> {c}
TwoPlansAndOne == u1 :> {1, 2} @@ u2 :> {1}
Symmetry == Permutations(Requests) \cup Permutations({a, b})
=============================================================================
