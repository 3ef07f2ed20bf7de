----------------------------- MODULE MCGovernor -----------------------------
(* Small instances of Governor for TLC: a user, a push and two change feeds. *)
EXTENDS Governor, TLC

CONSTANTS user, push, feed1, feed2

CallRank == user :> 0 @@ push :> 1 @@ feed1 :> 3 @@ feed2 :> 3
RankOf == [c \in Calls |-> CallRank[c]]
FeedSymmetry == Permutations({feed1, feed2})

\* int(rate_burst * rate_reserve_fraction) for a burst of one.
NoReserve == [r \in 0 .. 4 |-> 0]
=============================================================================
