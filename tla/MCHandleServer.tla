--------------------------- MODULE MCHandleServer ---------------------------
(* Instances of HandleServer for TLC. *)
EXTENDS HandleServer, TLC

CONSTANTS r1, r2, s1, s2

\* Each message on a connection of its own.
OwnSession == (r1 :> s1) @@ (r2 :> s2)

\* No list was stored yet: AddToPermissionList stores every other one.
Unknown == {NotFound}

\* No message of the instance is a transaction: what the GUI leaves in RTtxid nobody
\* reads, and those states add nothing.
OnlyAsked == status["RT"] = Refused /\ "RT" \notin answered

\* The two messages play the same part, each with its connection; so do the accounts.
SwapSessions == (r1 :> r2) @@ (r2 :> r1) @@ (s1 :> s2) @@ (s2 :> s1)
Alike == Permutations(Account) \cup {f @@ SwapSessions : f \in Permutations(Account)}
=============================================================================
