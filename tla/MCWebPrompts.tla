---------------------------- MODULE MCWebPrompts ----------------------------
(* Instances of WebPrompts for TLC. *)
EXTENDS WebPrompts, TLC

CONSTANTS r1, r2, s1, o1

OneSession == [r \in Req |-> s1]
\* Every website was allowed in an earlier run of the wallet.
AllAllowed == {[o \in Origin |-> "allow"]}
Unknown == {NotFound}

\* Neither the requests nor the websites differ from each other.
Alike == {f @@ g : f \in Permutations(Req), g \in Permutations(Origin)}
=============================================================================
