------------------------------ MODULE MCRefresh ------------------------------
(* Instances of Refresh for TLC.                                            *)
EXTENDS Refresh, TLC

CONSTANTS r1, r2, r3, w, loop, now

\* r1 and r2 share a public host; r3 has no token.
MCHostOf == r1 :> "host" @@ r2 :> "host" @@ r3 :> "host"

MCSymmetry == Permutations({r1, r2})

=============================================================================
