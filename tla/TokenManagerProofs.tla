-------------------------- MODULE TokenManagerProofs --------------------------
(***************************************************************************)
(* Proofs about TokenManager for every number of processes, tokens and     *)
(* consents.  The inductive invariant ties the two halves of the lock      *)
(* together: who believes to refresh under it, and whom Redis names.       *)
(***************************************************************************)
EXTENDS TokenManager, TLAPS

\* A worker that refreshes and did not lose its lock is the one Redis names.
Holder == \A w \in Workers : pc[w] \in InRefresh /\ w \notin lost => lock = w

\* Only tokens Zoho has issued are held or cached, and the one a worker is about
\* to drop has been refused.
Issued ==
  /\ cached =< minted
  /\ \A w \in Workers : pc[w] = "cache" => token[w] /= None
  /\ \A w \in Workers : token[w] =< minted /\ memory[w] =< minted
  /\ \A w \in Workers : pc[w] = "drop" => token[w] \notin good

IInv == TypeOK /\ Holder /\ NoSecondRefresh /\ Issued

(* The initial state satisfies the invariant. *)
LEMMA InitInv == Init => IInv
<1> SUFFICES ASSUME Init PROVE IInv
  OBVIOUS
<1> USE DEF Init, InRefresh, None
<1>1. TypeOK
  <2>1. /\ count \in 0 .. Limit + 1 /\ minted \in 0 .. MaxTokens /\ granted \in 0 .. MaxCreds
        /\ errors \in 0 .. MaxErrors
    BY TokenManagerAssumption
  <2>2. /\ good \in SUBSET Tokens /\ alive \in SUBSET Creds
        /\ retried \in SUBSET Workers /\ lost \in SUBSET Workers /\ blind \in SUBSET Workers
    OBVIOUS
  <2>3. pc \in [Workers -> InRefresh \union {"idle", "look", "lock", "wait", "use", "drop"}]
    OBVIOUS
  <2> QED
    BY <2>1, <2>2, <2>3 DEF TypeOK
<1>2. Holder /\ NoSecondRefresh
  BY DEF Holder, NoSecondRefresh, Refreshing
<1>3. Issued
  BY DEF Issued
<1> QED
  BY <1>1, <1>2, <1>3 DEF IInv

(* RedisErrors are counted. *)
LEMMA StepErrors ==
  ASSUME MaxErrors \in Nat, errors \in 0 .. MaxErrors, [Next]_vars PROVE errors' \in 0 .. MaxErrors
<1>1. CASE UNCHANGED errors
  BY <1>1
<1>2. CASE errors < MaxErrors /\ errors' = errors + 1
  BY <1>2
<1> QED
  BY <1>1, <1>2 DEF Next, vars

(* Every step keeps the types. *)
LEMMA StepTypes == ASSUME TypeOK, [Next]_vars PROVE TypeOK'
<1> USE TokenManagerAssumption DEF TypeOK, InRefresh, Tokens, Creds, None, Goto, keys, zoho, mine
<1>0. errors' \in 0 .. MaxErrors
  BY StepErrors
<1> USE <1>0
<1>1. ASSUME NEW w \in Workers, NEW a \in BOOLEAN, Begin(w, a) \/ MissToken(w, a) \/ AwaitRefresh(w) \/ PostFails(w) PROVE TypeOK'
  BY <1>1 DEF Begin, MissToken, AwaitRefresh, PostFails
<1>2. ASSUME NEW w \in Workers, NEW a \in BOOLEAN, FindToken(w, a) PROVE TypeOK'
  BY <1>2 DEF FindToken, Take, CachedToken
<1>3. ASSUME NEW w \in Workers, TakeLock(w) PROVE TypeOK'
  BY <1>3 DEF TakeLock
<1>4. ASSUME NEW w \in Workers, WaitTimesOut(w) \/ Succeed(w) \/ Unauthorized(w) PROVE TypeOK'
  BY <1>4 DEF WaitTimesOut, Succeed, Unauthorized, Leave
<1>5. ASSUME NEW w \in Workers, LockUnavailable(w) PROVE TypeOK'
  BY <1>5 DEF LockUnavailable
<1>6. ASSUME NEW w \in Workers, NEW a \in BOOLEAN, Recheck(w, a) PROVE TypeOK'
  BY <1>6 DEF Recheck, Take, CachedToken
<1>7. ASSUME NEW w \in Workers, Load(w) PROVE TypeOK'
  BY <1>7 DEF Load
<1>8. ASSUME NEW w \in Workers, NEW a \in BOOLEAN, Count(w, a) PROVE TypeOK'
  <2>1. count' \in 0 .. Limit + 1
    BY <1>8 DEF Count, Counted
  <2>2. pc' \in [Workers -> InRefresh \union {"idle", "look", "lock", "wait", "use", "drop"}]
    BY <1>8 DEF Count, Counted
  <2> QED
    BY <1>8, <2>1, <2>2 DEF Count, Counted
<1>9. ASSUME NEW w \in Workers, NEW a \in BOOLEAN, Expire(w, a) PROVE TypeOK'
  <2>1. mortal' \in BOOLEAN
    <3>1. CASE a
      BY <1>9, <3>1 DEF Expire
    <3>2. CASE ~a
      BY <1>9, <3>2 DEF Expire
    <3> QED
      BY <3>1, <3>2
  <2>2. /\ pc' = [pc EXCEPT ![w] = "post"]
        /\ UNCHANGED <<cached, lock, count, paused, stored, mine, admin, zoho, orderly>>
    BY <1>9 DEF Expire
  <2> QED
    BY <2>1, <2>2
<1>10. ASSUME NEW w \in Workers, PostMints(w) PROVE TypeOK'
  BY <1>10 DEF PostMints
<1>11. ASSUME NEW w \in Workers, PostRevoked(w) PROVE TypeOK'
  BY <1>11 DEF PostRevoked
<1>12. ASSUME NEW w \in Workers, NEW a \in BOOLEAN, Cache(w, a) PROVE TypeOK'
  BY <1>12 DEF Cache
<1>13. ASSUME NEW w \in Workers, NEW a \in BOOLEAN, Pause(w, a) PROVE TypeOK'
  BY <1>13 DEF Pause
<1>14. ASSUME NEW w \in Workers, NEW a \in BOOLEAN, Unlock(w, a) PROVE TypeOK'
  BY <1>14 DEF Unlock, Freed, Leave
<1>15. ASSUME NEW w \in Workers, NEW a \in BOOLEAN, Invalidate(w, a) PROVE TypeOK'
  BY <1>15 DEF Invalidate, WithoutToken
<1>16. ASSUME NEW w \in Workers, Crash(w) \/ CopyLapses(w) PROVE TypeOK'
  BY <1>16 DEF Crash, CopyLapses
<1>17. CASE Consent
  BY <1>17 DEF Consent
<1>18. ASSUME NEW a \in BOOLEAN, KeepToken(a) PROVE TypeOK'
  BY <1>18 DEF KeepToken
<1>19. ASSUME NEW a \in BOOLEAN, StoreCredential \/ LiftPause(a) PROVE TypeOK'
  <2>1. granted \in Creds \union {None}
    OBVIOUS
  <2>2. stored' \in Creds \union {None}
    BY <1>19, <2>1 DEF StoreCredential, LiftPause
  <2> QED
    BY <1>19, <2>2 DEF StoreCredential, LiftPause
<1>20. CASE RevokeAtZoho
  BY <1>20 DEF RevokeAtZoho
<1>21. ASSUME NEW a \in BOOLEAN, Forget(a) \/ LockLapses PROVE TypeOK'
  BY <1>21 DEF Forget, LockLapses
<1>22. CASE RevokeStored
  BY <1>22 DEF RevokeStored
<1>23. CASE TokenLapses \/ CountLapses
  <2>1. count' \in 0 .. Limit + 1
    BY <1>23 DEF TokenLapses, CountLapses
  <2> QED
    BY <1>23, <2>1 DEF TokenLapses, CountLapses
<1>24. CASE TokenDies \/ CredentialDies
  BY <1>24 DEF TokenDies, CredentialDies
<1>25. CASE UNCHANGED vars
  BY <1>25 DEF vars
<1> QED
  BY <1>1, <1>2, <1>3, <1>4, <1>5, <1>6, <1>7, <1>8, <1>9, <1>10, <1>11, <1>12, <1>13, <1>14, <1>15, <1>16, <1>17, <1>18, <1>19, <1>20, <1>21, <1>22, <1>23, <1>24, <1>25
  DEF Next, Ask, Work, Tell, Operate

(* The lock changes hands only when its holder takes note: a release frees no
   lock but the worker's own.                                              *)
LEMMA StepHolder == ASSUME TypeOK, Holder, [Next]_vars PROVE Holder'
<1> USE TokenManagerAssumption DEF TypeOK, InRefresh, Tokens, Creds, None, Goto, keys, zoho, mine, Holder
<1>1. ASSUME NEW w \in Workers, NEW a \in BOOLEAN, Begin(w, a) \/ MissToken(w, a) \/ AwaitRefresh(w) \/ PostFails(w) PROVE Holder'
  BY <1>1 DEF Begin, MissToken, AwaitRefresh, PostFails
<1>2. ASSUME NEW w \in Workers, NEW a \in BOOLEAN, FindToken(w, a) PROVE Holder'
  BY <1>2 DEF FindToken, Take, CachedToken
<1>3. ASSUME NEW w \in Workers, TakeLock(w) PROVE Holder'
  BY <1>3 DEF TakeLock
<1>4. ASSUME NEW w \in Workers, WaitTimesOut(w) \/ Succeed(w) \/ Unauthorized(w) PROVE Holder'
  BY <1>4 DEF WaitTimesOut, Succeed, Unauthorized, Leave
<1>5. ASSUME NEW w \in Workers, LockUnavailable(w) PROVE Holder'
  BY <1>5 DEF LockUnavailable
<1>6. ASSUME NEW w \in Workers, NEW a \in BOOLEAN, Recheck(w, a) PROVE Holder'
  BY <1>6 DEF Recheck, Take, CachedToken
<1>7. ASSUME NEW w \in Workers, Load(w) PROVE Holder'
  BY <1>7 DEF Load
<1>8. ASSUME NEW w \in Workers, NEW a \in BOOLEAN, Count(w, a) PROVE Holder'
  BY <1>8 DEF Count, Counted
<1>9. ASSUME NEW w \in Workers, NEW a \in BOOLEAN, Expire(w, a) PROVE Holder'
  BY <1>9 DEF Expire
<1>10. ASSUME NEW w \in Workers, PostMints(w) PROVE Holder'
  BY <1>10 DEF PostMints
<1>11. ASSUME NEW w \in Workers, PostRevoked(w) PROVE Holder'
  BY <1>11 DEF PostRevoked
<1>12. ASSUME NEW w \in Workers, NEW a \in BOOLEAN, Cache(w, a) PROVE Holder'
  BY <1>12 DEF Cache
<1>13. ASSUME NEW w \in Workers, NEW a \in BOOLEAN, Pause(w, a) PROVE Holder'
  BY <1>13 DEF Pause
<1>14. ASSUME NEW w \in Workers, NEW a \in BOOLEAN, Unlock(w, a) PROVE Holder'
  BY <1>14 DEF Unlock, Freed, Leave
<1>15. ASSUME NEW w \in Workers, NEW a \in BOOLEAN, Invalidate(w, a) PROVE Holder'
  BY <1>15 DEF Invalidate, WithoutToken
<1>16. ASSUME NEW w \in Workers, Crash(w) \/ CopyLapses(w) PROVE Holder'
  BY <1>16 DEF Crash, CopyLapses
<1>17. CASE Consent
  BY <1>17 DEF Consent
<1>18. ASSUME NEW a \in BOOLEAN, KeepToken(a) PROVE Holder'
  BY <1>18 DEF KeepToken
<1>19. ASSUME NEW a \in BOOLEAN, StoreCredential \/ LiftPause(a) PROVE Holder'
  BY <1>19 DEF StoreCredential, LiftPause
<1>20. CASE RevokeAtZoho
  BY <1>20 DEF RevokeAtZoho
<1>21. ASSUME NEW a \in BOOLEAN, Forget(a) \/ LockLapses PROVE Holder'
  BY <1>21 DEF Forget, LockLapses
<1>22. CASE RevokeStored
  BY <1>22 DEF RevokeStored
<1>23. CASE TokenLapses \/ CountLapses
  BY <1>23 DEF TokenLapses, CountLapses
<1>24. CASE TokenDies \/ CredentialDies
  BY <1>24 DEF TokenDies, CredentialDies
<1>25. CASE UNCHANGED vars
  BY <1>25 DEF vars
<1> QED
  BY <1>1, <1>2, <1>3, <1>4, <1>5, <1>6, <1>7, <1>8, <1>9, <1>10, <1>11, <1>12, <1>13, <1>14, <1>15, <1>16, <1>17, <1>18, <1>19, <1>20, <1>21, <1>22, <1>23, <1>24, <1>25
  DEF Next, Ask, Work, Tell, Operate

(* A token is cached in good order only by the holder of the lock, and no other
   worker that has the lock is then past its second look.                  *)
LEMMA StepNoSecondRefresh ==
  ASSUME TypeOK, Holder, NoSecondRefresh, [Next]_vars PROVE NoSecondRefresh'
<1> USE TokenManagerAssumption DEF TypeOK, InRefresh, Tokens, Creds, None, Goto, keys, zoho, mine, Holder, NoSecondRefresh, Refreshing
<1>1. ASSUME NEW w \in Workers, NEW a \in BOOLEAN, Begin(w, a) \/ MissToken(w, a) \/ AwaitRefresh(w) \/ PostFails(w) PROVE NoSecondRefresh'
  BY <1>1 DEF Begin, MissToken, AwaitRefresh, PostFails
<1>2. ASSUME NEW w \in Workers, NEW a \in BOOLEAN, FindToken(w, a) PROVE NoSecondRefresh'
  BY <1>2 DEF FindToken, Take, CachedToken
<1>3. ASSUME NEW w \in Workers, TakeLock(w) PROVE NoSecondRefresh'
  BY <1>3 DEF TakeLock
<1>4. ASSUME NEW w \in Workers, WaitTimesOut(w) \/ Succeed(w) \/ Unauthorized(w) PROVE NoSecondRefresh'
  BY <1>4 DEF WaitTimesOut, Succeed, Unauthorized, Leave
<1>5. ASSUME NEW w \in Workers, LockUnavailable(w) PROVE NoSecondRefresh'
  BY <1>5 DEF LockUnavailable
<1>6. ASSUME NEW w \in Workers, NEW a \in BOOLEAN, Recheck(w, a) PROVE NoSecondRefresh'
  BY <1>6 DEF Recheck, Take, CachedToken
<1>7. ASSUME NEW w \in Workers, Load(w) PROVE NoSecondRefresh'
  BY <1>7 DEF Load
<1>8. ASSUME NEW w \in Workers, NEW a \in BOOLEAN, Count(w, a) PROVE NoSecondRefresh'
  BY <1>8 DEF Count, Counted
<1>9. ASSUME NEW w \in Workers, NEW a \in BOOLEAN, Expire(w, a) PROVE NoSecondRefresh'
  BY <1>9 DEF Expire
<1>10. ASSUME NEW w \in Workers, PostMints(w) PROVE NoSecondRefresh'
  BY <1>10 DEF PostMints
<1>11. ASSUME NEW w \in Workers, PostRevoked(w) PROVE NoSecondRefresh'
  BY <1>11 DEF PostRevoked
<1>12. ASSUME NEW w \in Workers, NEW a \in BOOLEAN, Cache(w, a) PROVE NoSecondRefresh'
  BY <1>12 DEF Cache
<1>13. ASSUME NEW w \in Workers, NEW a \in BOOLEAN, Pause(w, a) PROVE NoSecondRefresh'
  BY <1>13 DEF Pause
<1>14. ASSUME NEW w \in Workers, NEW a \in BOOLEAN, Unlock(w, a) PROVE NoSecondRefresh'
  BY <1>14 DEF Unlock, Freed, Leave
<1>15. ASSUME NEW w \in Workers, NEW a \in BOOLEAN, Invalidate(w, a) PROVE NoSecondRefresh'
  BY <1>15 DEF Invalidate, WithoutToken
<1>16. ASSUME NEW w \in Workers, Crash(w) \/ CopyLapses(w) PROVE NoSecondRefresh'
  BY <1>16 DEF Crash, CopyLapses
<1>17. CASE Consent
  BY <1>17 DEF Consent
<1>18. ASSUME NEW a \in BOOLEAN, KeepToken(a) PROVE NoSecondRefresh'
  BY <1>18 DEF KeepToken
<1>19. ASSUME NEW a \in BOOLEAN, StoreCredential \/ LiftPause(a) PROVE NoSecondRefresh'
  BY <1>19 DEF StoreCredential, LiftPause
<1>20. CASE RevokeAtZoho
  BY <1>20 DEF RevokeAtZoho
<1>21. ASSUME NEW a \in BOOLEAN, Forget(a) \/ LockLapses PROVE NoSecondRefresh'
  BY <1>21 DEF Forget, LockLapses
<1>22. CASE RevokeStored
  BY <1>22 DEF RevokeStored
<1>23. CASE TokenLapses \/ CountLapses
  BY <1>23 DEF TokenLapses, CountLapses
<1>24. CASE TokenDies \/ CredentialDies
  BY <1>24 DEF TokenDies, CredentialDies
<1>25. CASE UNCHANGED vars
  BY <1>25 DEF vars
<1> QED
  BY <1>1, <1>2, <1>3, <1>4, <1>5, <1>6, <1>7, <1>8, <1>9, <1>10, <1>11, <1>12, <1>13, <1>14, <1>15, <1>16, <1>17, <1>18, <1>19, <1>20, <1>21, <1>22, <1>23, <1>24, <1>25
  DEF Next, Ask, Work, Tell, Operate

(* Zoho issues tokens in order and never accepts a refused one again. *)
LEMMA StepIssued == ASSUME TypeOK, Issued, [Next]_vars PROVE Issued'
<1> USE TokenManagerAssumption DEF TypeOK, InRefresh, Tokens, Creds, None, Goto, keys, zoho, mine, Issued
<1>1. ASSUME NEW w \in Workers, NEW a \in BOOLEAN, Begin(w, a) \/ MissToken(w, a) \/ AwaitRefresh(w) \/ PostFails(w) PROVE Issued'
  BY <1>1 DEF Begin, MissToken, AwaitRefresh, PostFails
<1>2. ASSUME NEW w \in Workers, NEW a \in BOOLEAN, FindToken(w, a) PROVE Issued'
  BY <1>2 DEF FindToken, Take, CachedToken
<1>3. ASSUME NEW w \in Workers, TakeLock(w) PROVE Issued'
  BY <1>3 DEF TakeLock
<1>4. ASSUME NEW w \in Workers, WaitTimesOut(w) \/ Succeed(w) \/ Unauthorized(w) PROVE Issued'
  BY <1>4 DEF WaitTimesOut, Succeed, Unauthorized, Leave
<1>5. ASSUME NEW w \in Workers, LockUnavailable(w) PROVE Issued'
  BY <1>5 DEF LockUnavailable
<1>6. ASSUME NEW w \in Workers, NEW a \in BOOLEAN, Recheck(w, a) PROVE Issued'
  BY <1>6 DEF Recheck, Take, CachedToken
<1>7. ASSUME NEW w \in Workers, Load(w) PROVE Issued'
  BY <1>7 DEF Load
<1>8. ASSUME NEW w \in Workers, NEW a \in BOOLEAN, Count(w, a) PROVE Issued'
  BY <1>8 DEF Count, Counted
<1>9. ASSUME NEW w \in Workers, NEW a \in BOOLEAN, Expire(w, a) PROVE Issued'
  BY <1>9 DEF Expire
<1>10. ASSUME NEW w \in Workers, PostMints(w) PROVE Issued'
  BY <1>10 DEF PostMints
<1>11. ASSUME NEW w \in Workers, PostRevoked(w) PROVE Issued'
  BY <1>11 DEF PostRevoked
<1>12. ASSUME NEW w \in Workers, NEW a \in BOOLEAN, Cache(w, a) PROVE Issued'
  BY <1>12 DEF Cache
<1>13. ASSUME NEW w \in Workers, NEW a \in BOOLEAN, Pause(w, a) PROVE Issued'
  BY <1>13 DEF Pause
<1>14. ASSUME NEW w \in Workers, NEW a \in BOOLEAN, Unlock(w, a) PROVE Issued'
  BY <1>14 DEF Unlock, Freed, Leave
<1>15. ASSUME NEW w \in Workers, NEW a \in BOOLEAN, Invalidate(w, a) PROVE Issued'
  BY <1>15 DEF Invalidate, WithoutToken
<1>16. ASSUME NEW w \in Workers, Crash(w) \/ CopyLapses(w) PROVE Issued'
  BY <1>16 DEF Crash, CopyLapses
<1>17. CASE Consent
  BY <1>17 DEF Consent
<1>18. ASSUME NEW a \in BOOLEAN, KeepToken(a) PROVE Issued'
  BY <1>18 DEF KeepToken
<1>19. ASSUME NEW a \in BOOLEAN, StoreCredential \/ LiftPause(a) PROVE Issued'
  BY <1>19 DEF StoreCredential, LiftPause
<1>20. CASE RevokeAtZoho
  BY <1>20 DEF RevokeAtZoho
<1>21. ASSUME NEW a \in BOOLEAN, Forget(a) \/ LockLapses PROVE Issued'
  BY <1>21 DEF Forget, LockLapses
<1>22. CASE RevokeStored
  BY <1>22 DEF RevokeStored
<1>23. CASE TokenLapses \/ CountLapses
  BY <1>23 DEF TokenLapses, CountLapses
<1>24. CASE TokenDies \/ CredentialDies
  BY <1>24 DEF TokenDies, CredentialDies
<1>25. CASE UNCHANGED vars
  BY <1>25 DEF vars
<1> QED
  BY <1>1, <1>2, <1>3, <1>4, <1>5, <1>6, <1>7, <1>8, <1>9, <1>10, <1>11, <1>12, <1>13, <1>14, <1>15, <1>16, <1>17, <1>18, <1>19, <1>20, <1>21, <1>22, <1>23, <1>24, <1>25
  DEF Next, Ask, Work, Tell, Operate

LEMMA Invariance == Spec => []IInv
<1>1. IInv /\ [Next]_vars => IInv'
  BY StepTypes, StepHolder, StepNoSecondRefresh, StepIssued DEF IInv
<1> QED
  BY InitInv, <1>1, PTL DEF Spec

(* Type correctness of the token manager. *)
THEOREM TokenManagerTypeOK == Spec => []TypeOK
<1>1. IInv => TypeOK
  BY DEF IInv
<1> QED
  BY Invariance, <1>1, PTL

(* At most one worker refreshes, but for those without their lock. *)
THEOREM RefreshIsSingleFlight == Spec => []SingleFlight
<1>1. IInv => SingleFlight
  BY DEF IInv, Holder, SingleFlight, Refreshing
<1> QED
  BY Invariance, <1>1, PTL

(* No holder of the lock refreshes again what another holder has refreshed. *)
THEOREM RefreshedTokensAreShared == Spec => []NoSecondRefresh
<1>1. IInv => NoSecondRefresh
  BY DEF IInv
<1> QED
  BY Invariance, <1>1, PTL

(* A late 401 never evicts a token Zoho accepts. *)
THEOREM GoodTokensStay == Spec => GoodTokenStays
<1>1. ASSUME IInv, [Next]_vars, cached \in good, cached' = None, ~TokenLapses, ~Forget(TRUE) PROVE FALSE
  <2> USE <1>1, TokenManagerAssumption DEF None
  <2>1. cached \in Tokens /\ cached /= None
    BY DEF IInv, TypeOK, Tokens
  <2>2. ASSUME NEW w \in Workers, NEW a \in BOOLEAN, Cache(w, a) PROVE FALSE
    BY <2>1, <2>2 DEF Cache, IInv, Issued
  <2>3. ASSUME NEW w \in Workers, NEW a \in BOOLEAN, Invalidate(w, a) PROVE FALSE
    BY <2>1, <2>3 DEF Invalidate, WithoutToken, IInv, Issued
  <2>4. ASSUME cached' = cached PROVE FALSE
    BY <2>1, <2>4
  <2>5. ASSUME NEW w \in Workers, NEW a \in BOOLEAN, Ask(w, a) PROVE FALSE
    BY <2>2, <2>3, <2>4, <2>5
    DEF Ask, keys, Begin, FindToken, MissToken, Recheck, Count, Expire, Pause, Unlock
  <2>6. ASSUME NEW w \in Workers, Work(w) \/ LockUnavailable(w) \/ Crash(w) \/ CopyLapses(w) PROVE FALSE
    BY <2>4, <2>6
    DEF Work, keys, TakeLock, AwaitRefresh, WaitTimesOut, LockUnavailable, Load, PostMints, PostRevoked,
        PostFails, Succeed, Unauthorized, Crash, CopyLapses
  <2>7. ASSUME NEW a \in BOOLEAN, KeepToken(a) \/ LiftPause(a) PROVE FALSE
    BY <2>4, <2>7 DEF KeepToken, LiftPause, Tokens
  <2>8. ~Forget(FALSE)
    BY <2>4 DEF Forget
  <2>9. ~Operate
    BY <2>4 DEF Operate, Consent, StoreCredential, RevokeAtZoho, RevokeStored, keys
  <2>10. ~(LockLapses \/ CountLapses \/ TokenDies \/ CredentialDies \/ UNCHANGED vars)
    BY <2>4 DEF LockLapses, CountLapses, TokenDies, CredentialDies, vars, keys
  <2>11. ~Tell(TRUE) /\ ~Tell(FALSE)
    BY <2>7, <2>8 DEF Tell
  <2> QED
    BY <2>5, <2>6, <2>9, <2>10, <2>11 DEF Next
<1>2. IInv /\ [Next]_vars => [(cached \in good /\ cached' = None) => (TokenLapses \/ Forget(TRUE))]_vars
  BY <1>1
<1> QED
  BY Invariance, <1>2, PTL DEF Spec, GoodTokenStays
===============================================================================
