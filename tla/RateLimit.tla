----------------------------- MODULE RateLimit -----------------------------
(***************************************************************************)
(* The request limiter that asgi.py installs, FastAPIRateLimitMiddleware   *)
(* of common/middleware/ratelimiting.py: it counts a client's requests of  *)
(* this minute and of this hour.  (The one for Django in the same file is  *)
(* not modelled: its __call__ never reaches the methods that count.)       *)
(*                                                                         *)
(* A worker is a process: a check holds its event loop.  They share the    *)
(* cache, and each call of the cache is a step.  Any of them may raise,    *)
(* and then the request is let through.  Time is in ticks, one to the      *)
(* second; `through` is a history of what was let through.                 *)
(*                                                                         *)
(* A definition X_<mistake>, placed before X, is X with a plausible        *)
(* mistake, swapped in for X to confirm that some property notices.        *)
(***************************************************************************)
EXTENDS Naturals, Sequences, FiniteSets, Functions

CONSTANTS
    Workers,
    Requests,           \* [user, forwarded, host] of the requests that arrive
    Absent,             \* no user, no X-Forwarded-For header
    RequestsPerMinute, RequestsPerHour,    \* the limits
    Minute, Hour,       \* their lengths in ticks
    MaxTime,            \* bound on the clock
    MaxRequests         \* bound on the requests that are limited

\* Worker processes: no more than there are is all that is asked of them.
ASSUME WorkersAssumption == IsFiniteSet(Workers)
ASSUME TimeAssumption ==
    Minute \in Nat \ {0} /\ Hour \in Nat /\ Minute <= Hour /\ MaxTime \in Nat
ASSUME LimitAssumption == {RequestsPerMinute, RequestsPerHour, MaxRequests} \subseteq Nat

VARIABLES
    cache,     \* the counters: from keys to [count, expires]
    now,
    pc,        \* each worker: idle, get or set
    client,    \* the client of the request it checks
    time,      \* current_time of that check
    at,        \* the limit it is at
    seen,      \* the counts it has read
    outcome,   \* of its last request: passed or refused
    through,   \* history: when each request was let through, by client
    arrived,   \* how many requests have been limited
    disturbed  \* history: clients with overlapping checks or a cache that failed

limitVars == <<cache, now, pc, client, time, at, seen, outcome, through, arrived,
               disturbed>>

-----------------------------------------------------------------------------
\* _get_client_id.  (Nothing in src sets request.state.user_id: requests come without
\* a user.)
ClientId(request) ==
    IF request.user # Absent           THEN <<"user", request.user>>
    ELSE IF request.forwarded # Absent THEN <<"ip", request.forwarded>>
                                       ELSE <<"ip", request.host>>

Clients == {ClientId(request) : request \in Requests}

\* What is counted: how much of it, in windows of which length, and for how long the
\* counter is kept.
MinuteTtl_Half == Minute \div 2
MinuteTtl == 2 * Minute

Limits ==
    << [name |-> "minute", max |-> RequestsPerMinute, span |-> Minute, ttl |-> MinuteTtl],
       [name |-> "hour", max |-> RequestsPerHour, span |-> Hour, ttl |-> 2 * Hour] >>

Window(limit, t) == t \div limit.span

Key_WithoutClient(limit, c, t) == <<limit.name, Window(limit, t)>>
Key(limit, c, t) == <<limit.name, c, Window(limit, t)>>

\* cache.get(key, 0)
Count(key) ==
    IF key \in DOMAIN cache /\ now < cache[key].expires THEN cache[key].count ELSE 0

-----------------------------------------------------------------------------
LimitInit ==
    /\ cache = <<>>
    /\ now = 0
    /\ pc = [w \in Workers |-> "idle"]
    /\ client = [w \in Workers |-> Absent]
    /\ time = [w \in Workers |-> 0]
    /\ at = [w \in Workers |-> 1]
    /\ seen = [w \in Workers |-> <<>>]
    /\ outcome = [w \in Workers |-> "passed"]
    /\ through = [c \in Clients |-> <<>>]
    /\ arrived = 0
    /\ disturbed = {}

Checking(c) == {w \in Workers : pc[w] # "idle" /\ client[w] = c}

\* The request has an answer: 429, or that of the next middleware.
End(w, what) ==
    /\ pc' = [pc EXCEPT ![w] = "idle"]
    /\ outcome' = [outcome EXCEPT ![w] = what]
    /\ client' = [client EXCEPT ![w] = Absent]
    /\ time' = [time EXCEPT ![w] = 0]
    /\ at' = [at EXCEPT ![w] = 1]
    /\ seen' = [seen EXCEPT ![w] = <<>>]

LetThrough(w) ==
    /\ End(w, "passed")
    /\ through' = [through EXCEPT ![client[w]] = Append(@, time[w])]

\* Exempt paths, a limiter that is switched off, and preflights, which
\* CORSMiddleware answers before.
Exempt(w) ==
    /\ pc[w] = "idle"
    /\ outcome' = [outcome EXCEPT ![w] = "passed"]
    /\ UNCHANGED <<cache, now, pc, client, time, at, seen, through, arrived,
                   disturbed>>

\* A request arrives at _is_rate_limited.
Arrive(w, request) ==
    LET c == ClientId(request) IN
    /\ pc[w] = "idle" /\ arrived < MaxRequests
    /\ pc' = [pc EXCEPT ![w] = "get"]
    /\ client' = [client EXCEPT ![w] = c]
    /\ time' = [time EXCEPT ![w] = now]
    /\ outcome' = [outcome EXCEPT ![w] = "passed"]
    /\ arrived' = arrived + 1
    /\ disturbed' = IF Checking(c) = {} THEN disturbed ELSE disturbed \union {c}
    /\ UNCHANGED <<cache, now, at, seen, through>>

AtLimit(count, limit) == count >= limit.max

GetCounter(w) ==
    LET limit == Limits[at[w]]
        count == Count(Key(limit, client[w], time[w]))
        last == at[w] = Len(Limits) IN
    /\ pc[w] = "get"
    /\ IF AtLimit(count, limit)
       THEN End(w, "refused")
       ELSE /\ seen' = [seen EXCEPT ![w] = Append(@, count)]
            /\ at' = [at EXCEPT ![w] = IF last THEN 1 ELSE @ + 1]
            /\ pc' = [pc EXCEPT ![w] = IF last THEN "set" ELSE "get"]
            /\ UNCHANGED <<client, time, outcome>>
    /\ UNCHANGED <<cache, now, through, arrived, disturbed>>

Entry_TtlInMilliseconds(w) ==
    [count |-> seen[w][at[w]] + 1, expires |-> now + 1000 * Limits[at[w]].ttl]
Entry(w) ==
    [count |-> seen[w][at[w]] + 1, expires |-> now + Limits[at[w]].ttl]

\* cache.set
Put(key, entry) ==
    [k \in DOMAIN cache \union {key} |-> IF k = key THEN entry ELSE cache[k]]

SetCounter(w) ==
    /\ pc[w] = "set"
    /\ cache' = Put(Key(Limits[at[w]], client[w], time[w]), Entry(w))
    /\ IF at[w] = Len(Limits)
       THEN LetThrough(w)
       ELSE /\ at' = [at EXCEPT ![w] = @ + 1]
            /\ UNCHANGED <<pc, client, time, seen, outcome, through>>
    /\ UNCHANGED <<now, arrived, disturbed>>

\* "Fail open".
CacheFails(w) ==
    /\ pc[w] # "idle"
    /\ LetThrough(w)
    /\ disturbed' = disturbed \union {client[w]}
    /\ UNCHANGED <<cache, now, arrived>>

\* An entry whose time is over is as good as gone.  Bound: no check takes a minute.
ClockTicks ==
    /\ now < MaxTime
    /\ \A w \in Workers : pc[w] # "idle" => now + 1 < time[w] + Minute
    /\ now' = now + 1
    /\ cache' = [key \in {k \in DOMAIN cache : cache[k].expires > now'} |-> cache[key]]
    /\ UNCHANGED <<pc, client, time, at, seen, outcome, through, arrived,
                   disturbed>>

-----------------------------------------------------------------------------
Check(w) == GetCounter(w) \/ SetCounter(w) \/ CacheFails(w)

LimitNext ==
    \/ \E w \in Workers :
          Check(w) \/ Exempt(w) \/ \E request \in Requests : Arrive(w, request)
    \/ ClockTicks

LimitSpec == LimitInit /\ [][LimitNext]_limitVars

-----------------------------------------------------------------------------
LimitTypeOK ==
    /\ \A key \in DOMAIN cache : cache[key] \in
           [count : 1..MaxRequests, expires : now..MaxTime + 2 * Hour]
    /\ now \in 0..MaxTime
    /\ pc \in [Workers -> {"idle", "get", "set"}]
    /\ client \in [Workers -> Clients \union {Absent}]
    /\ time \in [Workers -> 0..MaxTime]
    /\ at \in [Workers -> 1..Len(Limits)]
    /\ seen \in [Workers -> Seq(Nat)]
    /\ outcome \in [Workers -> {"passed", "refused"}]
    /\ through \in [Clients -> Seq(0..MaxTime)]
    /\ arrived \in 0..MaxRequests
    /\ disturbed \subseteq Clients

\* How many of a client's requests were let through, and how many are being counted,
\* at these times.
Number(c, times) == Cardinality({i \in DOMAIN through[c] : through[c][i] \in times})
BeingCounted(c, times) ==
    Cardinality({w \in Workers : pc[w] = "set" /\ client[w] = c /\ time[w] \in times})

\* Less than the limit's span apart.
Around(limit, t) == {u \in 0..MaxTime : u < t + limit.span /\ t < u + limit.span}

\* A client is refused only when, within the last minute or the last hour, as many
\* of its requests were let through as the limit allows ("Maximum requests allowed
\* per window"): whatever others do, whatever fails and however checks interleave.
HadItsShare(w) == \E limit \in Range(Limits) :
    LET recent == Around(limit, time[w])
    IN  Number(client[w], recent) + BeingCounted(client[w], recent) >= limit.max

Refuses(w) == pc[w] # "idle" /\ pc'[w] = "idle" /\ outcome'[w] = "refused"

RefusedHadItsShare == [][\A w \in Workers :
    Refuses(w) => HadItsShare(w)]_limitVars

\* The times in one window of the limit with t.
Together(limit, t) == {u \in 0..MaxTime : Window(limit, u) = Window(limit, t)}

\* Unless its checks overlapped or the cache failed, a client never gets more than the
\* limit through in a minute or an hour of the clock.
WithinLimit == \A c \in Clients \ disturbed, limit \in Range(Limits), t \in 0..now :
    Number(c, Together(limit, t)) <= limit.max
=============================================================================
