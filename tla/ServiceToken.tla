---------------------------- MODULE ServiceToken ----------------------------
(***************************************************************************)
(* ServiceTokenManager of common/auth/service_token.py: one cached service *)
(* token, read without the lock, refreshed from rudra under it.            *)
(*                                                                         *)
(* get_token() is split where another thread can come between: _is_fresh() *)
(* reads _token and then _expires_at, the return statement reads _token    *)
(* once more, and _refresh() writes the two fields one after the other.    *)
(* What runs under the lock and touches nothing a lock-free reader sees is *)
(* one step.  A token is represented by the instant at which rudra stops   *)
(* accepting it; the empty string is NoToken.  Time is time.time(), taken  *)
(* not to go backwards.  rudra issues a token at the instant its answer    *)
(* arrives: a tick is longer than a round trip, and shorter than the skew. *)
(* Its answer may also hold an empty access_token, which the code keeps.   *)
(*                                                                         *)
(* A definition X_<mistake>, placed before X, is X with a plausible        *)
(* mistake, swapped in for X to confirm that some property notices.        *)
(***************************************************************************)
EXTENDS Naturals

CONSTANTS
    Callers,      \* the threads that call get_token()
    Nobody,       \* the lock is free
    Skew,         \* refresh_skew
    Lifetimes,    \* how long the tokens that rudra issues live
    Floor,        \* the 60 seconds _compute_expiry falls back to
    MaxTime       \* bound on the clock

ASSUME NobodyAssumption == Nobody \notin Callers
ASSUME SkewAssumption == Skew \in Nat
ASSUME LifetimesAssumption == Lifetimes \subseteq Nat \ {0}
\* "A conservative floor": no token is shorter-lived.
ASSUME FloorAssumption ==
    Floor \in Nat \ {0} /\ \A lifetime \in Lifetimes : Floor <= lifetime
ASSUME MaxTimeAssumption == MaxTime \in Nat

VARIABLES
    token,      \* _token
    expiresAt,  \* _expires_at
    lock,       \* who holds _lock
    pc,         \* where each caller is in get_token()
    checkedAt,  \* the instant at which a caller's freshness test read the clock
    received,   \* rudra's answer in the hands of a refreshing caller
    outcome,    \* how each caller's last get_token() ended
    got,        \* the token it returned
    now,        \* time.time()
    emptiedBy,  \* history: what emptied the cache, "nothing" if it is not empty
    expiryOf,   \* history: what _expires_at came with
    emptied,    \* history: the cache was emptied during the caller's get_token()
    misled      \* history: it ran next to the expiry of an empty answer

history == <<emptiedBy, expiryOf, emptied, misled>>

vars == <<token, expiresAt, lock, pc, checkedAt, received, outcome, got, now,
          history>>

NoToken == 0

Location == {"idle", "peeked", "fresh", "wait", "locked", "request", "write",
             "tail"}

Outcome == {"none", "cached", "refreshed", "fallback", "unavailable"}

\* Why there is no token: none was asked for yet, invalidate() dropped it, or
\* rudra answered with an empty one.
Cause == {"never", "invalidate", "empty_answer", "nothing"}

Answer == [token : Nat, expires : Nat]

NoAnswer == [token |-> NoToken, expires |-> 0]

TypeOK ==
    /\ token \in Nat
    /\ expiresAt \in Nat
    /\ lock \in Callers \union {Nobody}
    /\ pc \in [Callers -> Location]
    /\ checkedAt \in [Callers -> Nat]
    /\ received \in [Callers -> Answer]
    /\ outcome \in [Callers -> Outcome]
    /\ got \in [Callers -> Nat]
    /\ now \in Nat
    /\ emptiedBy \in Cause
    /\ expiryOf \in {"nothing", "token", "empty_token"}
    /\ emptied \in [Callers -> BOOLEAN]
    /\ misled \in [Callers -> BOOLEAN]

Init ==
    /\ token = NoToken
    /\ expiresAt = 0
    /\ lock = Nobody
    /\ pc = [c \in Callers |-> "idle"]
    /\ checkedAt = [c \in Callers |-> 0]
    /\ received = [c \in Callers |-> NoAnswer]
    /\ outcome = [c \in Callers |-> "none"]
    /\ got = [c \in Callers |-> NoToken]
    /\ now = 0
    /\ emptiedBy = "never"
    /\ expiryOf = "nothing"
    /\ emptied = [c \in Callers |-> FALSE]
    /\ misled = [c \in Callers |-> FALSE]

-----------------------------------------------------------------------------
Goto(c, location) == pc' = [pc EXCEPT ![c] = location]

Return(c, how, what) ==
    /\ outcome' = [outcome EXCEPT ![c] = how]
    /\ got' = [got EXCEPT ![c] = what]

StillFresh == now + Skew < expiresAt

Hollow == expiryOf = "empty_token"

\* _is_fresh() without the lock: first whether there is a token at all ...
Peek(c) ==
    /\ pc[c] = "idle"
    /\ Goto(c, IF token # NoToken THEN "peeked" ELSE "wait")
    /\ Return(c, "none", NoToken)
    /\ checkedAt' = [checkedAt EXCEPT ![c] = 0]
    /\ emptied' = [emptied EXCEPT ![c] = FALSE]
    /\ misled' = [misled EXCEPT ![c] = Hollow]
    /\ UNCHANGED <<token, expiresAt, lock, received, now, emptiedBy, expiryOf>>

\* ... then whether it is far enough from its expiry ...
CheckExpiry(c) ==
    /\ pc[c] = "peeked"
    /\ Goto(c, IF StillFresh THEN "fresh" ELSE "wait")
    /\ checkedAt' = [checkedAt EXCEPT ![c] = IF StillFresh THEN now ELSE 0]
    /\ UNCHANGED <<token, expiresAt, lock, received, outcome, got, now,
                   history>>

\* ... and `return self._token`, which reads the field again.
ReturnCached(c) ==
    /\ pc[c] = "fresh"
    /\ Goto(c, "idle")
    /\ Return(c, "cached", token)
    /\ UNCHANGED <<token, expiresAt, lock, checkedAt, received, now, history>>

Acquire_WithoutLock(c) ==
    /\ pc[c] = "wait"
    /\ lock' = c
    /\ Goto(c, "locked")
    /\ UNCHANGED <<token, expiresAt, checkedAt, received, outcome, got, now,
                   history>>

Acquire(c) ==
    /\ pc[c] = "wait"
    /\ lock = Nobody
    /\ lock' = c
    /\ Goto(c, "locked")
    /\ UNCHANGED <<token, expiresAt, checkedAt, received, outcome, got, now,
                   history>>

\* The second _is_fresh(), under the lock: another caller refreshed meanwhile.
RecheckHit(c) ==
    /\ pc[c] = "locked"
    /\ token # NoToken /\ StillFresh
    /\ lock' = Nobody
    /\ Goto(c, "idle")
    /\ Return(c, "cached", token)
    /\ checkedAt' = [checkedAt EXCEPT ![c] = now]
    /\ UNCHANGED <<token, expiresAt, received, now, history>>

StartRefresh_Clears(c) ==
    /\ pc[c] = "locked"
    /\ ~(token # NoToken /\ StillFresh)
    /\ token' = NoToken
    /\ Goto(c, "request")
    /\ UNCHANGED <<expiresAt, lock, checkedAt, received, outcome, got, now,
                   history>>

\* The request to rudra goes out; what is cached stays.
StartRefresh(c) ==
    /\ pc[c] = "locked"
    /\ ~(token # NoToken /\ StillFresh)
    /\ Goto(c, "request")
    /\ UNCHANGED <<token, expiresAt, lock, checkedAt, received, outcome, got,
                   now, history>>

\* _compute_expiry(): the exp claim if it can be read, else the floor.
ComputedExpiry(lifetime, readable) ==
    now + (IF readable THEN lifetime ELSE Floor)

\* The two assignments that end _refresh(), in their order.
Assign_ExpiryFirst(nth, answer) ==
    IF nth = 1 THEN expiresAt' = answer.expires /\ UNCHANGED token
               ELSE token' = answer.token /\ UNCHANGED expiresAt

Assign(nth, answer) ==
    IF nth = 1 THEN token' = answer.token /\ UNCHANGED expiresAt
               ELSE expiresAt' = answer.expires /\ UNCHANGED token

\* The cache is emptied under the eyes of every call that is running.
Emptied(why) ==
    /\ emptiedBy' = why
    /\ expiryOf' = IF why = "invalidate" THEN "nothing" ELSE "empty_token"
    /\ emptied' = [c \in Callers |-> emptied[c] \/ pc[c] # "idle"]
    /\ misled' = [c \in Callers |->
                     misled[c] \/ (why = "empty_answer" /\ pc[c] # "idle")]

\* The answer arrives; _refresh() computes the expiry and stores the token.
\* Only the presence of access_token is tested, so an empty one is stored too:
\* its expiry is then the answer's expires_in, or the floor.
StoreToken(c) ==
    /\ pc[c] = "request"
    /\ \E lifetime \in Lifetimes, readable, empty \in BOOLEAN :
          LET answer == [token   |-> IF empty THEN NoToken ELSE now + lifetime,
                         expires |-> ComputedExpiry(lifetime, readable)]
          IN  /\ Assign(1, answer)
              /\ received' = [received EXCEPT ![c] = answer]
              /\ IF empty
                 THEN Emptied("empty_answer")
                 ELSE /\ emptiedBy' = "nothing"
                      /\ UNCHANGED <<expiryOf, emptied, misled>>
    /\ Goto(c, "write")
    /\ UNCHANGED <<lock, checkedAt, outcome, got, now>>

\* It stores the expiry, and get_token() leaves the `with` block.
StoreExpiry(c) ==
    /\ pc[c] = "write"
    /\ Assign(2, received[c])
    /\ received' = [received EXCEPT ![c] = NoAnswer]
    /\ expiryOf' = IF received[c].token = NoToken THEN "empty_token" ELSE "token"
    /\ lock' = Nobody
    /\ Goto(c, "tail")
    /\ UNCHANGED <<checkedAt, outcome, got, now, emptiedBy, emptied, misled>>

\* The last line of get_token(), outside the lock.
ReturnRefreshed(c) ==
    /\ pc[c] = "tail"
    /\ Goto(c, "idle")
    /\ Return(c, "refreshed", token)
    /\ UNCHANGED <<token, expiresAt, lock, checkedAt, received, now, history>>

RefreshFails_TriesAgain(c) ==
    /\ pc[c] = "request"
    /\ Goto(c, "locked")
    /\ UNCHANGED <<token, expiresAt, lock, checkedAt, received, outcome, got,
                   now, history>>

RefreshFails_ReturnsAnyway(c) ==
    /\ pc[c] = "request"
    /\ lock' = Nobody
    /\ Goto(c, "idle")
    /\ Return(c, "fallback", token)
    /\ UNCHANGED <<token, expiresAt, checkedAt, received, now, history>>

\* rudra is unreachable, answers with an error or with an unexpected body: the
\* cached token if there is one, else ServiceTokenUnavailableError.
RefreshFails(c) ==
    /\ pc[c] = "request"
    /\ lock' = Nobody
    /\ Goto(c, "idle")
    /\ IF token # NoToken THEN Return(c, "fallback", token)
                          ELSE Return(c, "unavailable", NoToken)
    /\ UNCHANGED <<token, expiresAt, checkedAt, received, now, history>>

\* invalidate().  Its two writes are one step: a reader between them decides as
\* one just before or just after does.
Invalidate ==
    /\ lock = Nobody
    /\ token' = NoToken
    /\ expiresAt' = 0
    /\ Emptied("invalidate")
    /\ UNCHANGED <<lock, pc, checkedAt, received, outcome, got, now>>

Tick ==
    /\ now < MaxTime
    /\ now' = now + 1
    /\ UNCHANGED <<token, expiresAt, lock, pc, checkedAt, received, outcome,
                   got, history>>

-----------------------------------------------------------------------------
GetToken(c) ==
    \/ Peek(c)
    \/ CheckExpiry(c)
    \/ ReturnCached(c)
    \/ Acquire(c)
    \/ RecheckHit(c)
    \/ StartRefresh(c)
    \/ StoreToken(c)
    \/ StoreExpiry(c)
    \/ ReturnRefreshed(c)
    \/ RefreshFails(c)

Next == (\E c \in Callers : GetToken(c)) \/ Invalidate \/ Tick

Spec == Init /\ [][Next]_vars

\* A caller that has started get_token() goes on: the request has a timeout and
\* no step between taking the lock and releasing it waits for anything else.
FairSpec == Spec /\ \A c \in Callers : WF_vars(pc[c] # "idle" /\ GetToken(c))

-----------------------------------------------------------------------------
\* "Only a single outbound request is in flight" however many callers find the
\* token stale at once.
OneRefreshInFlight ==
    \A c, d \in Callers :
        /\ pc[c] \in {"request", "write"}
        /\ pc[d] \in {"request", "write"}
        => c = d

\* While nobody holds the lock, _expires_at and _token are of one mind: the expiry
\* kept is never past the token's own, and where there is no token there is no
\* expiry, unless both came with an empty answer.  The pair is torn only inside a
\* refresh.
PairSettled ==
    lock = Nobody =>
        IF token # NoToken THEN expiresAt \in 1 .. token
                           ELSE expiresAt # 0 <=> emptiedBy = "empty_answer"

\* A token served from the cache, by the lock-free path too, was valid for at
\* least refresh_skew longer when its freshness was tested, although the fields
\* are written one at a time while lock-free readers look at them.  Except next to
\* the expiry of an empty answer: that one is read together with the new token
\* until the new expiry is written, and may let a token pass that is about to end.
\* (The empty token is the subject of EmptyHasACause.)
CachedMeansFresh ==
    \A c \in Callers :
        outcome[c] = "cached" /\ got[c] # NoToken /\ ~misled[c]
            => checkedAt[c] + Skew < got[c]

\* get_token() returns a token or raises.  The empty string gets out of it only
\* when, during the call, invalidate() ran or rudra answered with an empty token;
\* a failed or a concurrent refresh is never the reason, and an empty token of an
\* earlier call is never served again.
EmptyHasACause ==
    \A c \in Callers :
        outcome[c] \in {"cached", "refreshed", "fallback"} /\ got[c] = NoToken
            => emptied[c]

\* The lock is always released again.
LockReleased == \A c \in Callers : lock = c ~> lock # c

-----------------------------------------------------------------------------
\* What a caller makes of the end of get_token().
AnswerTo(c) ==
    IF pc[c] # "idle" THEN "asked"
    ELSE CASE outcome[c] \in {"none", "unavailable"} -> outcome[c]
           [] OTHER -> IF got[c] = NoToken THEN "empty" ELSE "token"

Promise == INSTANCE TokenPromise WITH
    held   <- token # NoToken,
    cause  <- emptiedBy,
    answer <- [c \in Callers |-> AnswerTo(c)]

\* get_token() answers with a token whenever one is cached as it answers, and
\* what is cached, only invalidate() and an empty answer of rudra take away: the
\* start of a refresh, its failure or a concurrent one never does.
KeepsPromise == Promise!Spec
=============================================================================
