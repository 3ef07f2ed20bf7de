---------------------------- MODULE QuotaLedger ----------------------------
(***************************************************************************)
(* What the governor promises about a quota day, and nothing of how: a     *)
(* call may hold one unit of a day's quota only while the day has room for *)
(* a call of its class; a unit is given back only if its call never left.  *)
(* Governor.tla (Redis counters, leases, a Lua script) implements it.      *)
(***************************************************************************)
EXTENDS Naturals, FiniteSets

CONSTANTS Calls,    \* admission attempts (lease ids: each is used once)
          Days,     \* quota days
          Daily,    \* the contracted limit of a day
          LimitOf   \* LimitOf[c]: the most units a day may hold once c holds one

LedgerAssumption ==
  /\ IsFiniteSet(Calls)
  /\ Daily \in Nat
  /\ LimitOf \in [Calls -> 0 .. Daily]

VARIABLES held,     \* held[d]: the calls that hold a unit of day d
          spent     \* the calls that left for Zoho

vars == <<held, spent>>

TypeOK ==
  /\ held \in [Days -> SUBSET Calls]
  /\ spent \in SUBSET Calls

Init ==
  /\ held = [d \in Days |-> {}]
  /\ spent = {}

\* c takes a unit of day d if the day has room for its class.
Reserve(c, d) ==
  /\ \A e \in Days : c \notin held[e]
  /\ c \notin spent
  /\ Cardinality(held[d]) + 1 =< LimitOf[c]
  /\ held' = [held EXCEPT ![d] = @ \union {c}]
  /\ UNCHANGED spent

\* c leaves for Zoho: the unit it holds is spent for good.
Spend(c) ==
  /\ \E d \in Days : c \in held[d]
  /\ spent' = spent \union {c}
  /\ UNCHANGED held

\* c never left: its unit goes back to the day.
Refund(c, d) ==
  /\ c \in held[d]
  /\ c \notin spent
  /\ held' = [held EXCEPT ![d] = @ \ {c}]
  /\ UNCHANGED spent

Next ==
  \E c \in Calls :
    \/ Spend(c)
    \/ \E d \in Days : Reserve(c, d) \/ Refund(c, d)

Spec == Init /\ [][Next]_vars

-----------------------------------------------------------------------------
(* For every k, the calls whose class may fill a day up to k hold at most k
   units of it: at k = Daily the contract limit, at k = Hard the traffic that
   may not touch the interactive reserve (governor.py "concurrent workers
   cannot overshoot the ceiling").                                         *)
OfClass(d, k) == {c \in held[d] : LimitOf[c] =< k}

ClassCeilings ==
  \A d \in Days : \A k \in 0 .. Daily : Cardinality(OfClass(d, k)) =< k

(* Every call that left for Zoho still holds the unit it was charged to: a
   refund never covers a call that was sent.                               *)
SpentIsHeld == \A c \in spent : \E d \in Days : c \in held[d]
=============================================================================
