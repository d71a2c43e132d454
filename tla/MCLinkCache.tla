----------------------------- MODULE MCLinkCache -----------------------------
(* Model values for TLC: three calls, and a key on each of two servers, so   *)
(* that every prune has keys it must keep.                                  *)
EXTENDS LinkCache, TLC

CONSTANTS c1, c2, c3

MCKey(s, e) == [server |-> s, epoch |-> e, sub |-> "sub"]
MCTwoServers == {MCKey("s1", 1), MCKey("s2", 1)}
MCThree == {c1, c2, c3}
MCSymmetry == Permutations(MCThree)

=============================================================================
