------------------------------- MODULE MCWebUI -------------------------------
EXTENDS WebUI, TLC

CONSTANTS q1, q2, root, ann, bob

MCSymmetry == Permutations({q1, q2}) \cup Permutations({ann, bob})

=============================================================================
