------------------------- MODULE QuotaLedgerProofs -------------------------
(***************************************************************************)
(* The ledger keeps its promise for every set of calls, every number of    *)
(* days and every ceiling.                                                 *)
(***************************************************************************)
EXTENDS QuotaLedger, FiniteSetTheorems, TLAPS

(* A unit is held on one day only; without it a call held on two days could
   be refunded on one while it is spent on the other.                      *)
HeldOnce == \A d, e \in Days : \A c \in held[d] \cap held[e] : d = e

LedgerInv == TypeOK /\ HeldOnce /\ ClassCeilings /\ SpentIsHeld

(* Any set of calls is finite, so that its cardinality is a number. *)
LEMMA CallsFinite ==
  ASSUME LedgerAssumption, NEW S \in SUBSET Calls
  PROVE  IsFiniteSet(S) /\ Cardinality(S) \in Nat
BY FS_Subset, FS_CardinalityType DEF LedgerAssumption

LEMMA LedgerInit == ASSUME LedgerAssumption, Init PROVE LedgerInv
<1>1. Cardinality({}) = 0
  BY FS_EmptySet
<1>2. \A d \in Days : \A k \in 0 .. Daily : OfClass(d, k) = {}
  BY DEF Init, OfClass
<1>3. ClassCeilings
  BY <1>1, <1>2 DEF ClassCeilings, LedgerAssumption
<1>. QED
  BY <1>3 DEF LedgerInv, Init, TypeOK, HeldOnce, SpentIsHeld

LEMMA LedgerStep == ASSUME LedgerAssumption, LedgerInv, [Next]_vars PROVE LedgerInv'
<1>. USE DEF LedgerInv
<1>1. ASSUME NEW c \in Calls, Spend(c) PROVE LedgerInv'
  <2>. USE <1>1 DEF Spend
  <2>1. TypeOK'  BY DEF TypeOK
  <2>2. HeldOnce'  BY DEF HeldOnce
  <2>3. ClassCeilings'  BY DEF ClassCeilings, OfClass
  <2>4. SpentIsHeld'  BY DEF SpentIsHeld
  <2>. QED  BY <2>1, <2>2, <2>3, <2>4
<1>2. ASSUME NEW c \in Calls, NEW d \in Days, Reserve(c, d) PROVE LedgerInv'
  <2>. USE <1>2 DEF Reserve
  <2>1. TypeOK'  BY DEF TypeOK
  <2>2. HeldOnce'  BY DEF HeldOnce, TypeOK
  <2>3. SpentIsHeld'  BY DEF SpentIsHeld, TypeOK
  <2>4. ASSUME NEW e \in Days, NEW k \in 0 .. Daily
        PROVE  Cardinality(OfClass(e, k)') =< k
    <3>1. Cardinality(OfClass(e, k)) =< k
      BY DEF ClassCeilings
    <3>2. CASE e # d \/ ~(LimitOf[c] =< k)
      <4>1. OfClass(e, k)' = OfClass(e, k)
        BY <3>2 DEF OfClass, TypeOK
      <4>. QED  BY <3>1, <4>1
    <3>3. CASE e = d /\ LimitOf[c] =< k
      <4>1. held[d] \in SUBSET Calls /\ held'[d] = held[d] \union {c}
        BY DEF TypeOK
      <4>2. IsFiniteSet(held[d]) /\ Cardinality(held[d]) \in Nat
        BY <4>1, CallsFinite
      <4>3. IsFiniteSet(held'[d]) /\ Cardinality(held'[d]) = Cardinality(held[d]) + 1
        BY <4>1, <4>2, FS_AddElement
      <4>4. OfClass(e, k)' \in SUBSET held'[d]
        BY <3>3 DEF OfClass
      <4>5. /\ Cardinality(OfClass(e, k)') =< Cardinality(held'[d])
            /\ IsFiniteSet(OfClass(e, k)')
        BY <4>3, <4>4, FS_Subset
      <4>6. Cardinality(OfClass(e, k)') \in Nat
        BY <4>5, FS_CardinalityType
      <4>7. LimitOf[c] \in Nat /\ Cardinality(held[d]) + 1 =< LimitOf[c]
        BY DEF LedgerAssumption
      <4>. QED  BY <3>3, <4>2, <4>3, <4>5, <4>6, <4>7
    <3>. QED  BY <3>2, <3>3
  <2>5. ClassCeilings'
    BY <2>4 DEF ClassCeilings
  <2>. QED  BY <2>1, <2>2, <2>3, <2>5
<1>3. ASSUME NEW c \in Calls, NEW d \in Days, Refund(c, d) PROVE LedgerInv'
  <2>. USE <1>3 DEF Refund
  <2>1. TypeOK'  BY DEF TypeOK
  <2>2. HeldOnce'  BY DEF HeldOnce, TypeOK
  <2>3. SpentIsHeld'  BY DEF SpentIsHeld, TypeOK
  <2>4. ASSUME NEW e \in Days, NEW k \in 0 .. Daily
        PROVE  Cardinality(OfClass(e, k)') =< k
    <3>1. Cardinality(OfClass(e, k)) =< k
      BY DEF ClassCeilings
    <3>2. OfClass(e, k)' \in SUBSET OfClass(e, k) /\ OfClass(e, k) \in SUBSET Calls
      BY DEF OfClass, TypeOK
    <3>3. /\ Cardinality(OfClass(e, k)') =< Cardinality(OfClass(e, k))
          /\ Cardinality(OfClass(e, k)') \in Nat
          /\ Cardinality(OfClass(e, k)) \in Nat
      BY <3>2, CallsFinite, FS_Subset
    <3>. QED  BY <3>1, <3>3
  <2>5. ClassCeilings'
    BY <2>4 DEF ClassCeilings
  <2>. QED  BY <2>1, <2>2, <2>3, <2>5
<1>4. CASE UNCHANGED vars
  BY <1>4 DEF vars, TypeOK, HeldOnce, ClassCeilings, OfClass, SpentIsHeld
<1>. QED
  BY <1>1, <1>2, <1>3, <1>4 DEF Next

(* The ledger never lets a class of calls hold more of a day than its ceiling,
   and a spent call keeps the unit it was charged to.                      *)
THEOREM LedgerSafe == ASSUME LedgerAssumption PROVE Spec => [](ClassCeilings /\ SpentIsHeld)
<1>1. Init => LedgerInv
  BY LedgerInit
<1>2. LedgerInv /\ [Next]_vars => LedgerInv'
  BY LedgerStep
<1>3. LedgerInv => ClassCeilings /\ SpentIsHeld
  BY DEF LedgerInv
<1>. QED
  BY <1>1, <1>2, <1>3, PTL DEF Spec
=============================================================================
