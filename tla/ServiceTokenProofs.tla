------------------------- MODULE ServiceTokenProofs -------------------------
(***************************************************************************)
(* What ServiceToken guarantees for any number of callers, any skew and    *)
(* any lifetimes, however the callers interleave and invalidate().         *)
(***************************************************************************)
EXTENDS ServiceToken, TLAPS

\* Tokens outlive the skew, as any useful configuration has it.
LongLived == \A lifetime \in Lifetimes : Skew < lifetime

\* The lock is held by the caller that is between taking and releasing it.
HolderInv ==
    \A c \in Callers : lock = c <=> pc[c] \in {"locked", "request", "write"}

\* What PairSettled says while the lock is free.
Settled ==
    IF token # NoToken THEN expiresAt \in 1 .. token
                       ELSE expiresAt # 0 <=> emptiedBy = "empty_answer"

\* _expires_at belongs to _token except while a caller is between the writes.
PairInv ==
    /\ Settled \/ \E c \in Callers : pc[c] = "write"
    /\ emptiedBy = "empty_answer" => Hollow

WriteInv ==
    \A c \in Callers : pc[c] = "write" =>
        /\ received[c].token = token
        /\ received[c].expires # 0
        /\ token # NoToken => received[c].expires <= token
        /\ token = NoToken <=> emptiedBy = "empty_answer"

\* Every call running next to the expiry of an empty answer is known to.
HollowInv == Hollow => \A c \in Callers : pc[c] # "idle" => misled[c]

\* A token found stale stays stale while it is being replaced: a lock-free
\* reader that sees the torn pair is sent to wait for the lock.
StaleInv ==
    \A c \in Callers : pc[c] \in {"request", "write"} =>
        expiresAt <= now + Skew \/ Hollow

\* What a caller past the lock-free test will return is fresh, whatever has been
\* written to _token since.
FreshInv ==
    LongLived => \A c \in Callers : pc[c] = "fresh" =>
        \/ misled[c]
        \/ checkedAt[c] <= now /\ (token = NoToken \/ checkedAt[c] + Skew < token)

\* A caller inside get_token() has no outcome yet.
CachedInv ==
    /\ LongLived => CachedMeansFresh
    /\ \A c \in Callers : pc[c] # "idle" => outcome[c] = "none"

\* Whoever has seen or stored a token finds one, unless the call met a reason.
TokenInv ==
    /\ EmptyHasACause
    /\ token = NoToken => \A c \in Callers :
          pc[c] \in {"peeked", "fresh", "write", "tail"} =>
              emptied[c]

IInv ==
    /\ TypeOK
    /\ HolderInv
    /\ PairInv
    /\ WriteInv
    /\ HollowInv
    /\ StaleInv
    /\ FreshInv
    /\ CachedInv
    /\ TokenInv

LEMMA InitIInv == Init => IInv
BY NobodyAssumption
   DEF Init, IInv, TypeOK, Location, Outcome, Answer, HolderInv, PairInv,
       WriteInv, HollowInv, StaleInv, FreshInv, CachedInv, CachedMeansFresh,
       TokenInv, EmptyHasACause, Settled, NoToken, NoAnswer, Cause, Hollow

LEMMA NextTypeOK == TypeOK /\ [Next]_vars => TypeOK'
<1> SUFFICES ASSUME TypeOK, [Next]_vars PROVE TypeOK'
  OBVIOUS
<1> USE NobodyAssumption, LifetimesAssumption, FloorAssumption
    DEF TypeOK, Location, Outcome, Answer, NoAnswer, Goto, Return, history,
        Hollow, NoToken, Cause
<1>1. ASSUME NEW c \in Callers, GetToken(c) PROVE TypeOK'
  <2>1. CASE Peek(c) BY <2>1 DEF Peek
  <2>2. CASE CheckExpiry(c) BY <2>2 DEF CheckExpiry
  <2>3. CASE ReturnCached(c) BY <2>3 DEF ReturnCached
  <2>4. CASE Acquire(c) BY <2>4 DEF Acquire
  <2>5. CASE RecheckHit(c) BY <2>5 DEF RecheckHit
  <2>6. CASE StartRefresh(c) BY <2>6 DEF StartRefresh
  <2>7. CASE StoreToken(c)
    <3>1. PICK lifetime \in Lifetimes, readable \in BOOLEAN, empty \in BOOLEAN :
             /\ token' = IF empty THEN NoToken ELSE now + lifetime
             /\ received' = [received EXCEPT ![c] =
                   [token   |-> IF empty THEN NoToken ELSE now + lifetime,
                    expires |-> ComputedExpiry(lifetime, readable)]]
             /\ IF empty
                THEN Emptied("empty_answer")
                ELSE /\ emptiedBy' = "nothing"
                     /\ UNCHANGED <<expiryOf, emptied, misled>>
      BY <2>7 DEF StoreToken, Assign
    <3>2. ComputedExpiry(lifetime, readable) \in Nat
      BY DEF ComputedExpiry
    <3>3. token' \in Nat /\ received' \in [Callers -> Answer]
      BY <3>1, <3>2
    <3>4. /\ emptiedBy' \in Cause
          /\ expiryOf' \in {"nothing", "token", "empty_token"}
          /\ emptied' \in [Callers -> BOOLEAN] /\ misled' \in [Callers -> BOOLEAN]
      BY <3>1 DEF Emptied
    <3>5. /\ pc' \in [Callers -> Location]
          /\ UNCHANGED <<expiresAt, lock, checkedAt, outcome, got, now>>
      BY <2>7 DEF StoreToken, Assign
    <3> QED BY <3>3, <3>4, <3>5
  <2>8. CASE StoreExpiry(c) BY <2>8 DEF StoreExpiry, Assign
  <2>9. CASE ReturnRefreshed(c) BY <2>9 DEF ReturnRefreshed
  <2>10. CASE RefreshFails(c) BY <2>10 DEF RefreshFails
  <2> QED
    BY <1>1, <2>1, <2>2, <2>3, <2>4, <2>5, <2>6, <2>7, <2>8, <2>9, <2>10
       DEF GetToken
<1>2. CASE Invalidate BY <1>2 DEF Invalidate, Emptied
<1>3. CASE Tick BY <1>3 DEF Tick
<1>4. CASE UNCHANGED vars BY <1>4 DEF vars
<1> QED BY <1>1, <1>2, <1>3, <1>4 DEF Next

\* Only taking and releasing the lock move a caller into or out of the section.
LEMMA NextHolder ==
    IInv /\ [Next]_vars => HolderInv'
<1> SUFFICES ASSUME IInv, [Next]_vars PROVE HolderInv'
  OBVIOUS
<1> USE NobodyAssumption, LifetimesAssumption, SkewAssumption
    DEF TypeOK, Location, Answer, NoAnswer, Goto, Return, history, Hollow,
        IInv, HolderInv
<1>1. ASSUME NEW c \in Callers, GetToken(c) PROVE HolderInv'
  <2>1. CASE Peek(c) BY <2>1 DEF Peek
  <2>2. CASE CheckExpiry(c) BY <2>2 DEF CheckExpiry, StillFresh
  <2>3. CASE ReturnCached(c) BY <2>3 DEF ReturnCached
  <2>4. CASE Acquire(c) BY <2>4 DEF Acquire
  <2>5. CASE RecheckHit(c) BY <2>5 DEF RecheckHit, StillFresh
  <2>6. CASE StartRefresh(c) BY <2>6 DEF StartRefresh, StillFresh
  <2>7. CASE StoreToken(c) BY <2>7 DEF StoreToken, Assign, ComputedExpiry, Emptied
  <2>8. CASE StoreExpiry(c) BY <2>8 DEF StoreExpiry, Assign
  <2>9. CASE ReturnRefreshed(c) BY <2>9 DEF ReturnRefreshed
  <2>10. CASE RefreshFails(c) BY <2>10 DEF RefreshFails
  <2> QED
    BY <1>1, <2>1, <2>2, <2>3, <2>4, <2>5, <2>6, <2>7, <2>8, <2>9, <2>10
       DEF GetToken
<1>2. CASE Invalidate BY <1>2 DEF Invalidate, Emptied
<1>3. CASE Tick BY <1>3 DEF Tick
<1>4. CASE UNCHANGED vars BY <1>4 DEF vars
<1> QED BY <1>1, <1>2, <1>3, <1>4 DEF Next

\* The two assignments of _refresh leave a settled pair behind.
LEMMA NextPair ==
    IInv /\ [Next]_vars => (PairInv /\ WriteInv /\ HollowInv)'
<1> SUFFICES ASSUME IInv, [Next]_vars PROVE (PairInv /\ WriteInv /\ HollowInv)'
  OBVIOUS
<1> USE NobodyAssumption, LifetimesAssumption, SkewAssumption
    DEF TypeOK, Location, Answer, NoAnswer, Goto, Return, history, Hollow,
        IInv, HolderInv, PairInv,
        WriteInv, HollowInv, Settled, NoToken
<1>1. ASSUME NEW c \in Callers, GetToken(c) PROVE (PairInv /\ WriteInv /\ HollowInv)'
  <2>1. CASE Peek(c) BY <2>1 DEF Peek
  <2>2. CASE CheckExpiry(c) BY <2>2 DEF CheckExpiry, StillFresh
  <2>3. CASE ReturnCached(c) BY <2>3 DEF ReturnCached
  <2>4. CASE Acquire(c) BY <2>4 DEF Acquire
  <2>5. CASE RecheckHit(c) BY <2>5 DEF RecheckHit, StillFresh
  <2>6. CASE StartRefresh(c) BY <2>6 DEF StartRefresh, StillFresh
  <2>7. CASE StoreToken(c)
    <3>1. PICK lifetime \in Lifetimes, readable \in BOOLEAN, empty \in BOOLEAN :
             /\ token' = IF empty THEN NoToken ELSE now + lifetime
             /\ expiresAt' = expiresAt
             /\ received' = [received EXCEPT ![c] =
                   [token   |-> IF empty THEN NoToken ELSE now + lifetime,
                    expires |-> ComputedExpiry(lifetime, readable)]]
             /\ IF empty
                THEN Emptied("empty_answer")
                ELSE /\ emptiedBy' = "nothing"
                     /\ UNCHANGED <<expiryOf, emptied, misled>>
      BY <2>7 DEF StoreToken, Assign
    <3>2. /\ pc[c] = "request" /\ pc'[c] = "write"
          /\ \A d \in Callers : d # c => pc'[d] # "write" /\ pc'[d] = pc[d]
      BY <2>7 DEF StoreToken
    <3>3. PairInv'
      BY <3>1, <3>2 DEF Emptied
    <3>4. /\ ComputedExpiry(lifetime, readable) \in Nat \ {0}
          /\ ComputedExpiry(lifetime, readable) <= now + lifetime
      BY FloorAssumption DEF ComputedExpiry
    <3>5. /\ received'[c].expires = ComputedExpiry(lifetime, readable)
          /\ received'[c].token = token'
      BY <3>1
    <3>6. token' = NoToken <=> empty
      BY <3>1 DEF NoToken
    <3>7. WriteInv'
      BY <3>1, <3>2, <3>4, <3>5, <3>6 DEF Emptied
    <3>8. HollowInv'
      BY <3>1, <3>2 DEF Emptied, HollowInv
    <3> QED BY <3>3, <3>7, <3>8
  <2>8. CASE StoreExpiry(c) BY <2>8 DEF StoreExpiry, Assign
  <2>9. CASE ReturnRefreshed(c) BY <2>9 DEF ReturnRefreshed
  <2>10. CASE RefreshFails(c) BY <2>10 DEF RefreshFails
  <2> QED
    BY <1>1, <2>1, <2>2, <2>3, <2>4, <2>5, <2>6, <2>7, <2>8, <2>9, <2>10
       DEF GetToken
<1>2. CASE Invalidate BY <1>2 DEF Invalidate, Emptied
<1>3. CASE Tick BY <1>3 DEF Tick
<1>4. CASE UNCHANGED vars BY <1>4 DEF vars
<1> QED BY <1>1, <1>2, <1>3, <1>4 DEF Next

\* Nobody but the refresher writes _expires_at, and time only moves on.
LEMMA NextStale ==
    IInv /\ [Next]_vars => StaleInv'
<1> SUFFICES ASSUME IInv, [Next]_vars PROVE StaleInv'
  OBVIOUS
<1> USE NobodyAssumption, LifetimesAssumption, SkewAssumption
    DEF TypeOK, Location, Answer, NoAnswer, Goto, Return, history, Hollow,
        IInv, HolderInv, PairInv,
        HollowInv, StaleInv, NoToken
<1>1. ASSUME NEW c \in Callers, GetToken(c) PROVE StaleInv'
  <2>1. CASE Peek(c) BY <2>1 DEF Peek
  <2>2. CASE CheckExpiry(c) BY <2>2 DEF CheckExpiry, StillFresh
  <2>3. CASE ReturnCached(c) BY <2>3 DEF ReturnCached
  <2>4. CASE Acquire(c) BY <2>4 DEF Acquire
  <2>5. CASE RecheckHit(c) BY <2>5 DEF RecheckHit, StillFresh
  <2>6. CASE StartRefresh(c)
    <3>1. Settled
      BY <2>6 DEF StartRefresh
    <3>2. expiresAt <= now + Skew \/ Hollow
      BY <2>6, <3>1 DEF StartRefresh, StillFresh, Settled
    <3> QED BY <2>6, <3>2 DEF StartRefresh
  <2>7. CASE StoreToken(c) BY <2>7 DEF StoreToken, Assign, ComputedExpiry, Emptied
  <2>8. CASE StoreExpiry(c) BY <2>8 DEF StoreExpiry, Assign
  <2>9. CASE ReturnRefreshed(c) BY <2>9 DEF ReturnRefreshed
  <2>10. CASE RefreshFails(c) BY <2>10 DEF RefreshFails
  <2> QED
    BY <1>1, <2>1, <2>2, <2>3, <2>4, <2>5, <2>6, <2>7, <2>8, <2>9, <2>10
       DEF GetToken
<1>2. CASE Invalidate BY <1>2 DEF Invalidate, Emptied
<1>3. CASE Tick BY <1>3 DEF Tick
<1>4. CASE UNCHANGED vars BY <1>4 DEF vars
<1> QED BY <1>1, <1>2, <1>3, <1>4 DEF Next

\* A token stored under a caller that is about to return outlives its test too.
LEMMA NextFresh ==
    IInv /\ [Next]_vars => (FreshInv /\ CachedInv)'
<1> SUFFICES ASSUME IInv, [Next]_vars PROVE (FreshInv /\ CachedInv)'
  OBVIOUS
<1> USE NobodyAssumption, LifetimesAssumption, SkewAssumption
    DEF TypeOK, Location, Answer, NoAnswer, Goto, Return, history, Hollow,
        IInv, HolderInv, PairInv,
        WriteInv, HollowInv, StaleInv,
        FreshInv, CachedInv, CachedMeansFresh, LongLived, NoToken, Outcome
<1>1. ASSUME NEW c \in Callers, GetToken(c) PROVE (FreshInv /\ CachedInv)'
  <2>1. CASE Peek(c) BY <2>1 DEF Peek
  <2>2. CASE CheckExpiry(c)
    <3>1. CachedInv'
      BY <2>2 DEF CheckExpiry
    <3>2. StillFresh => misled[c] \/ token = NoToken \/ now + Skew < token
      BY <2>2 DEF StillFresh, Settled, CheckExpiry
    <3>3. FreshInv'
      BY <2>2, <3>2 DEF CheckExpiry
    <3> QED BY <3>1, <3>3
  <2>3. CASE ReturnCached(c) BY <2>3 DEF ReturnCached
  <2>4. CASE Acquire(c) BY <2>4 DEF Acquire
  <2>5. CASE RecheckHit(c)
    <3>1. Settled
      BY <2>5 DEF RecheckHit
    <3>2. now + Skew < token
      BY <2>5, <3>1 DEF RecheckHit, StillFresh, Settled
    <3>3. CachedInv'
      BY <2>5, <3>2 DEF RecheckHit
    <3>4. FreshInv'
      BY <2>5 DEF RecheckHit
    <3> QED BY <3>3, <3>4
  <2>6. CASE StartRefresh(c) BY <2>6 DEF StartRefresh, StillFresh
  <2>7. CASE StoreToken(c) BY <2>7 DEF StoreToken, Assign, ComputedExpiry, Emptied
  <2>8. CASE StoreExpiry(c) BY <2>8 DEF StoreExpiry, Assign
  <2>9. CASE ReturnRefreshed(c) BY <2>9 DEF ReturnRefreshed
  <2>10. CASE RefreshFails(c)
    <3>1. CachedInv'
      <4>1. CASE token # NoToken
        <5>1. outcome' = [outcome EXCEPT ![c] = "fallback"]
          BY <2>10, <4>1 DEF RefreshFails
        <5>2. got' = [got EXCEPT ![c] = token]
          BY <2>10, <4>1 DEF RefreshFails
        <5> QED BY <2>10, <5>1, <5>2 DEF RefreshFails
      <4>2. CASE token = NoToken
        <5>1. outcome' = [outcome EXCEPT ![c] = "unavailable"]
          BY <2>10, <4>2 DEF RefreshFails
        <5>2. got' = [got EXCEPT ![c] = NoToken]
          BY <2>10, <4>2 DEF RefreshFails
        <5> QED BY <2>10, <5>1, <5>2 DEF RefreshFails
      <4> QED BY <4>1, <4>2
    <3>2. FreshInv'
      BY <2>10 DEF RefreshFails
    <3> QED BY <3>1, <3>2
  <2> QED
    BY <1>1, <2>1, <2>2, <2>3, <2>4, <2>5, <2>6, <2>7, <2>8, <2>9, <2>10
       DEF GetToken
<1>2. CASE Invalidate BY <1>2 DEF Invalidate, Emptied
<1>3. CASE Tick BY <1>3 DEF Tick
<1>4. CASE UNCHANGED vars BY <1>4 DEF vars
<1> QED BY <1>1, <1>2, <1>3, <1>4 DEF Next

\* Only invalidate() and an empty answer empty the cache.
LEMMA NextToken ==
    IInv /\ [Next]_vars => TokenInv'
<1> SUFFICES ASSUME IInv, [Next]_vars PROVE TokenInv'
  OBVIOUS
<1> USE NobodyAssumption, LifetimesAssumption, SkewAssumption
    DEF TypeOK, Location, Answer, NoAnswer, Goto, Return, history, Hollow,
        IInv, HolderInv, WriteInv,
        TokenInv, EmptyHasACause, NoToken,
        Outcome
<1>1. ASSUME NEW c \in Callers, GetToken(c) PROVE TokenInv'
  <2>1. CASE Peek(c) BY <2>1 DEF Peek
  <2>2. CASE CheckExpiry(c) BY <2>2 DEF CheckExpiry, StillFresh
  <2>3. CASE ReturnCached(c) BY <2>3 DEF ReturnCached
  <2>4. CASE Acquire(c) BY <2>4 DEF Acquire
  <2>5. CASE RecheckHit(c) BY <2>5 DEF RecheckHit, StillFresh
  <2>6. CASE StartRefresh(c) BY <2>6 DEF StartRefresh, StillFresh
  <2>7. CASE StoreToken(c) BY <2>7 DEF StoreToken, Assign, ComputedExpiry, Emptied
  <2>8. CASE StoreExpiry(c) BY <2>8 DEF StoreExpiry, Assign
  <2>9. CASE ReturnRefreshed(c) BY <2>9 DEF ReturnRefreshed
  <2>10. CASE RefreshFails(c) BY <2>10 DEF RefreshFails
  <2> QED
    BY <1>1, <2>1, <2>2, <2>3, <2>4, <2>5, <2>6, <2>7, <2>8, <2>9, <2>10
       DEF GetToken
<1>2. CASE Invalidate BY <1>2 DEF Invalidate, Emptied
<1>3. CASE Tick BY <1>3 DEF Tick
<1>4. CASE UNCHANGED vars BY <1>4 DEF vars
<1> QED BY <1>1, <1>2, <1>3, <1>4 DEF Next

LEMMA NextIInv == IInv /\ [Next]_vars => IInv'
BY NextTypeOK, NextHolder, NextPair, NextStale, NextFresh, NextToken DEF IInv

\* IInv holds of every reachable state.
THEOREM Invariant == Spec => []IInv
BY InitIInv, NextIInv, PTL DEF Spec

\* Type correctness of the token manager.
THEOREM TypeCorrect == Spec => []TypeOK
BY Invariant, PTL DEF IInv

\* At most one token request is in flight.
THEOREM SingleRefresh == Spec => []OneRefreshInFlight
<1>1. IInv => OneRefreshInFlight
  BY DEF IInv, HolderInv, OneRefreshInFlight
<1> QED BY <1>1, Invariant, PTL

\* While the lock is free the expiry kept is never past that of the token kept,
\* and without a token there is none, unless both are of an empty answer.
THEOREM PairConsistent == Spec => []PairSettled
<1>1. IInv => PairSettled
  BY NobodyAssumption DEF IInv, HolderInv, PairInv, PairSettled, Settled
<1> QED BY <1>1, Invariant, PTL

\* Tokens served from the cache were fresh, the lock-free path included, except
\* next to the expiry of an empty answer.
THEOREM CacheServesFresh == LongLived => (Spec => []CachedMeansFresh)
<1>1. LongLived /\ IInv => CachedMeansFresh
  BY DEF IInv, CachedInv
<1> SUFFICES ASSUME LongLived PROVE Spec => []CachedMeansFresh
  OBVIOUS
<1>2. IInv => CachedMeansFresh
  BY <1>1
<1> QED BY <1>2, Invariant, PTL

\* get_token() returns "" only if invalidate() ran, or rudra answered with an empty
\* token, during the call.
THEOREM EmptyForACause == Spec => []EmptyHasACause
<1>1. IInv => EmptyHasACause
  BY DEF IInv, TokenInv
<1> QED BY <1>1, Invariant, PTL
-----------------------------------------------------------------------------
(* The refinement.  `answer` is the array of AnswerTo; a step of caller c   *)
(* changes its entry for c alone.                                           *)

LEMMA InitPromise == Init => Promise!Init
BY DEF Init, Promise!Init, AnswerTo, NoToken

\* As long as nobody else's call moves, nobody else's answer does.
LEMMA OthersKeepTheirAnswer ==
    ASSUME TypeOK, NEW c \in Callers, NEW there, NEW how, NEW what,
           pc' = [pc EXCEPT ![c] = there],
           \/ outcome' = [outcome EXCEPT ![c] = how] /\ got' = [got EXCEPT ![c] = what]
           \/ UNCHANGED <<outcome, got>>
    PROVE  [d \in Callers |-> AnswerTo(d)]' =
               [[d \in Callers |-> AnswerTo(d)] EXCEPT ![c] = AnswerTo(c)']
<1>1. ASSUME NEW d \in Callers, d # c PROVE AnswerTo(d)' = AnswerTo(d)
  <2>1. pc'[d] = pc[d] /\ outcome'[d] = outcome[d] /\ got'[d] = got[d]
    BY <1>1 DEF TypeOK
  <2> QED BY <2>1 DEF AnswerTo
<1> QED BY <1>1

\* Nobody's answer moves while c is, and stays, inside the call.
LEMMA InsideKeepsAnswers ==
    ASSUME TypeOK, NEW c \in Callers, NEW there, there # "idle",
           pc[c] # "idle", pc' = [pc EXCEPT ![c] = there], UNCHANGED <<outcome, got>>
    PROVE  UNCHANGED [d \in Callers |-> AnswerTo(d)]
<1>1. AnswerTo(c) = "asked" /\ AnswerTo(c)' = "asked"
  BY DEF TypeOK, AnswerTo
<1> QED BY <1>1, OthersKeepTheirAnswer

\* A call that ends with what the cache holds then, or with an error if that is
\* nothing, is a Reply.
LEMMA ReturnReplies ==
    ASSUME TypeOK, NEW c \in Callers, pc[c] # "idle",
           NEW how \in {"cached", "refreshed", "fallback", "unavailable"},
           how = "unavailable" => token = NoToken,
           pc' = [pc EXCEPT ![c] = "idle"], UNCHANGED <<token, emptiedBy>>,
           Return(c, how, token)
    PROVE  Promise!Reply(c)
<1>1. pc'[c] = "idle" /\ outcome'[c] = how /\ got'[c] = token
  BY DEF TypeOK, Return
<1>2. AnswerTo(c)' = IF how = "unavailable" THEN "unavailable"
                     ELSE IF token = NoToken THEN "empty" ELSE "token"
  BY <1>1 DEF AnswerTo, NoToken
<1>3. AnswerTo(c) = "asked"
  BY DEF AnswerTo
<1>4. [d \in Callers |-> AnswerTo(d)]' =
          [[d \in Callers |-> AnswerTo(d)] EXCEPT ![c] = AnswerTo(c)']
  BY OthersKeepTheirAnswer DEF Return
<1> QED BY <1>2, <1>3, <1>4 DEF Promise!Reply

LEMMA NextPromise ==
    IInv /\ [Next]_vars => [Promise!Next]_(Promise!tvars)
<1> SUFFICES ASSUME IInv, [Next]_vars PROVE [Promise!Next]_(Promise!tvars)
  OBVIOUS
<1>0. TypeOK
  BY DEF IInv
<1>1. ASSUME NEW c \in Callers, GetToken(c) PROVE [Promise!Next]_(Promise!tvars)
  <2>1. CASE Peek(c)
    <3>1. AnswerTo(c) # "asked" /\ AnswerTo(c)' = "asked"
      BY <1>0, <2>1 DEF Peek, Goto, TypeOK, Outcome, AnswerTo
    <3>2. [d \in Callers |-> AnswerTo(d)]' =
              [[d \in Callers |-> AnswerTo(d)] EXCEPT ![c] = AnswerTo(c)']
      BY <1>0, <2>1, OthersKeepTheirAnswer DEF Peek, Goto, Return
    <3>3. Promise!Ask(c)
      BY <2>1, <3>1, <3>2 DEF Peek, Promise!Ask
    <3> QED BY <3>3 DEF Promise!Next
  <2>2. CASE CheckExpiry(c) \/ Acquire(c) \/ StartRefresh(c) \/ StoreExpiry(c)
    <3>1. UNCHANGED [d \in Callers |-> AnswerTo(d)]
      BY <1>0, <2>2, InsideKeepsAnswers
         DEF CheckExpiry, Acquire, StartRefresh, StoreExpiry, Goto
    <3>2. UNCHANGED <<token, emptiedBy>>
      BY <2>2
         DEF CheckExpiry, Acquire, StartRefresh, StoreExpiry, Assign, history
    <3> QED BY <3>1, <3>2 DEF Promise!tvars
  <2>3. CASE StoreToken(c)
    <3>1. UNCHANGED [d \in Callers |-> AnswerTo(d)]
      BY <1>0, <2>3, InsideKeepsAnswers DEF StoreToken, Goto
    <3>2. Promise!Refreshing
      BY <2>3 DEF StoreToken, Promise!Refreshing, AnswerTo
    <3>3. \/ token' # NoToken /\ emptiedBy' = "nothing"
          \/ token' = NoToken /\ emptiedBy' = "empty_answer"
      BY <1>0, <2>3, LifetimesAssumption
         DEF StoreToken, Assign, Emptied, TypeOK, NoToken
    <3>4. Promise!Obtain \/ Promise!ObtainEmpty
      BY <3>1, <3>2, <3>3 DEF Promise!Obtain, Promise!ObtainEmpty
    <3> QED BY <3>4 DEF Promise!Next
  <2>4. CASE ReturnCached(c) \/ RecheckHit(c) \/ ReturnRefreshed(c) \/ RefreshFails(c)
    <3>1. PICK how \in {"cached", "refreshed", "fallback", "unavailable"} :
              /\ how = "unavailable" => token = NoToken
              /\ pc[c] # "idle" /\ pc' = [pc EXCEPT ![c] = "idle"]
              /\ UNCHANGED <<token, emptiedBy>> /\ Return(c, how, token)
      BY <2>4
         DEF ReturnCached, RecheckHit, ReturnRefreshed, RefreshFails, Goto, history
    <3>2. Promise!Reply(c)
      BY <1>0, <3>1, ReturnReplies
    <3> QED BY <3>2 DEF Promise!Next
  <2> QED BY <1>1, <2>1, <2>2, <2>3, <2>4 DEF GetToken
<1>2. CASE Invalidate
  <2>1. UNCHANGED [d \in Callers |-> AnswerTo(d)]
    BY <1>2 DEF Invalidate, AnswerTo
  <2>2. Promise!Invalidate
    BY <1>2, <2>1 DEF Invalidate, Emptied, Promise!Invalidate
  <2> QED BY <2>2 DEF Promise!Next
<1>3. CASE Tick \/ UNCHANGED vars
  <2>1. UNCHANGED <<token, emptiedBy, [d \in Callers |-> AnswerTo(d)]>>
    BY <1>3 DEF Tick, vars, history, AnswerTo
  <2> QED BY <2>1 DEF Promise!tvars
<1> QED BY <1>1, <1>2, <1>3 DEF Next

\* ServiceToken implements TokenPromise: a call is answered with a token whenever one
\* is held as it is answered, and a token held is given up at invalidate() or at an
\* empty answer of rudra, never by a refresh that starts, fails or is overtaken.
THEOREM TokenKeepsPromise == Spec => KeepsPromise
BY InitPromise, NextPromise, Invariant, PTL DEF Spec, KeepsPromise, Promise!Spec
=============================
