---------------------------- MODULE LimitsProofs ----------------------------
(***************************************************************************)
(* What the service limits: the calls that go out, by CircuitBreaker, and  *)
(* the requests that come in, by RateLimit.  For each, an inductive        *)
(* invariant and the theorems that follow from it.                         *)
(***************************************************************************)
EXTENDS CircuitBreaker, RateLimit, FiniteSetTheorems, TLAPS

-----------------------------------------------------------------------------
(* The circuit breaker.                                                    *)

\* An open breaker that is not probing has had its timer restarted at or after
\* the last probe: what makes a full timer imply a full gap between probes.
TimerCoversProbe == state = "open" /\ ~probing => failureAge <= probeAge

\* The flag belongs to a probe that is still running, or it has leaked.
FlagHasOwner == probing => Probes # {} \/ leaked

IInv ==
    /\ TypeOK
    /\ OpenIffThresholdReached
    /\ ProbingOnlyWhileOpen
    /\ TimerCoversProbe
    /\ FlagHasOwner

LEMMA InitIInv == Init => IInv
<1> SUFFICES ASSUME Init PROVE IInv
  OBVIOUS
<1> USE ThresholdAssumption, TimeoutAssumption
<1>1. calls \in [Threads -> CallStatus]
  BY DEF Init, CallStatus
<1>2. failureCount \in 0..FailureThreshold
      /\ failureAge \in 0..RecoveryTimeout /\ probeAge \in 0..RecoveryTimeout
  BY DEF Init
<1>3. state \in {"closed", "open"} /\ probing \in BOOLEAN /\ leaked \in BOOLEAN
  BY DEF Init
<1>4. TypeOK
  BY <1>1, <1>2, <1>3 DEF TypeOK
<1>5. OpenIffThresholdReached /\ ProbingOnlyWhileOpen /\ TimerCoversProbe
  BY DEF Init, OpenIffThresholdReached, ProbingOnlyWhileOpen, TimerCoversProbe
<1>6. FlagHasOwner
  BY DEF Init, FlagHasOwner
<1> QED BY <1>4, <1>5, <1>6 DEF IInv

\* Each action keeps IInv.  The flag's owner is the only conjunct that speaks of
\* a particular thread, so it gets a step of its own where calls changes.
LEMMA NextIInv == IInv /\ [Next]_vars => IInv'
<1> SUFFICES ASSUME IInv, [Next]_vars PROVE IInv'
  OBVIOUS
<1> USE ThresholdAssumption, TimeoutAssumption
    DEF IInv, TypeOK, CallStatus, OpenIffThresholdReached,
        ProbingOnlyWhileOpen, TimerCoversProbe
<1>1. ASSUME NEW t \in Threads, Admit(t) PROVE IInv'
  <2>1. FlagHasOwner'
    BY <1>1 DEF Admit, FlagHasOwner, Probes
  <2> QED BY <1>1, <2>1 DEF Admit
<1>2. ASSUME NEW t \in Threads, AdmitProbe(t) PROVE IInv'
  <2>1. FlagHasOwner'
    BY <1>2 DEF AdmitProbe, FlagHasOwner, Probes
  <2> QED BY <1>2, <2>1 DEF AdmitProbe, MayProbe
<1>3. ASSUME NEW t \in Threads, Reject(t) PROVE IInv'
  <2>1. FlagHasOwner'
    BY <1>3 DEF Reject, FlagHasOwner, Probes
  <2> QED BY <1>3, <2>1 DEF Reject
<1>4. ASSUME NEW t \in Threads, HandleRejection(t) PROVE IInv'
  <2>1. FlagHasOwner'
    BY <1>4 DEF HandleRejection, FlagHasOwner, Probes
  <2> QED BY <1>4, <2>1 DEF HandleRejection
<1>5. ASSUME NEW t \in Threads, RecordFailure(t) PROVE IInv'
  <2>1. FlagHasOwner'
    BY <1>5 DEF RecordFailure, ClearFlag, RestartTimer, FlagHasOwner
  <2>2. TypeOK'
    <3>1. calls' \in [Threads -> CallStatus]
      BY <1>5 DEF RecordFailure, ClearFlag, RestartTimer
    <3>2. failureCount' \in 0..FailureThreshold /\ failureAge' \in 0..RecoveryTimeout
      BY <1>5 DEF RecordFailure, ClearFlag, RestartTimer, Counted
    <3>3. state' \in {"closed", "open"} /\ probing' \in BOOLEAN
          /\ probeAge' \in 0..RecoveryTimeout /\ leaked' \in BOOLEAN
      BY <1>5 DEF RecordFailure, ClearFlag, RestartTimer
    <3> QED BY <3>1, <3>2, <3>3
  <2>3. OpenIffThresholdReached'
    BY <1>5 DEF RecordFailure, ClearFlag, RestartTimer, Counted
  <2>4. ProbingOnlyWhileOpen'
    BY <1>5 DEF RecordFailure, ClearFlag, RestartTimer
  <2>5. TimerCoversProbe'
    BY <1>5 DEF RecordFailure, ClearFlag, RestartTimer
  <2> QED BY <2>1, <2>2, <2>3, <2>4, <2>5
<1>6. ASSUME NEW t \in Threads, RecordSuccess(t) PROVE IInv'
  <2>1. FlagHasOwner'
    BY <1>6 DEF RecordSuccess, ClearFlag, CloseCircuit, FlagHasOwner
  <2>2. TypeOK'
    <3>1. calls' \in [Threads -> CallStatus]
      BY <1>6 DEF RecordSuccess, ClearFlag, CloseCircuit
    <3>2. failureCount' \in 0..FailureThreshold
      BY <1>6 DEF RecordSuccess, ClearFlag, CloseCircuit
    <3>3. state' \in {"closed", "open"} /\ probing' \in BOOLEAN
          /\ leaked' \in BOOLEAN
      BY <1>6 DEF RecordSuccess, ClearFlag, CloseCircuit
    <3> QED BY <1>6, <3>1, <3>2, <3>3 DEF RecordSuccess, ClearFlag, CloseCircuit
  <2>3. (OpenIffThresholdReached /\ ProbingOnlyWhileOpen /\ TimerCoversProbe)'
    BY <1>6 DEF RecordSuccess, ClearFlag, CloseCircuit
  <2> QED BY <2>1, <2>2, <2>3
<1>7. ASSUME NEW t \in Threads, Escape(t) PROVE IInv'
  <2>1. FlagHasOwner'
    <3> SUFFICES ASSUME probing, ~leaked, Probes # {t} PROVE Probes' # {}
      BY <1>7 DEF Escape, FlagHasOwner
    <3>1. PICK u \in Probes : u # t
      BY DEF FlagHasOwner
    <3>2. u \in Probes'
      BY <1>7, <3>1 DEF Escape, Probes
    <3> QED BY <3>2
  <2> QED BY <1>7, <2>1 DEF Escape
<1>8. ASSUME Tick PROVE IInv'
  BY <1>8 DEF Tick, Older, FlagHasOwner, Probes
<1>9. CASE UNCHANGED vars
  BY <1>9 DEF vars, FlagHasOwner, Probes
<1> QED
  BY <1>1, <1>2, <1>3, <1>4, <1>5, <1>6, <1>7, <1>8, <1>9 DEF Next

\* IInv holds of every reachable state.
THEOREM Invariant == Spec => []IInv
BY InitIInv, NextIInv, PTL DEF Spec

\* Type correctness of the breaker.
THEOREM TypeCorrect == Spec => []TypeOK
BY Invariant, PTL DEF IInv

\* The stored state and the failure counter never disagree.
THEOREM OpenMeansThreshold == Spec => []OpenIffThresholdReached
BY Invariant, PTL DEF IInv

\* The probing flag never survives on a closed breaker.
THEOREM ProbingMeansOpen == Spec => []ProbingOnlyWhileOpen
BY Invariant, PTL DEF IInv

\* A half-open breaker has a probe running or would take one, unless the last
\* probe escaped it.
THEOREM HalfOpenProbed == Spec => []HalfOpenHasProbe
<1>1. IInv => HalfOpenHasProbe
  BY DEF IInv, TypeOK, FlagHasOwner, HalfOpenHasProbe, ReportedState, MayProbe
<1> QED BY <1>1, Invariant, PTL

\* Two probes are at least recovery_timeout apart.
THEOREM ProbeGap == Spec => ProbesSpaced
<1>1. IInv /\ [Next]_vars =>
        [(\E t \in Threads : calls[t] = "idle" /\ calls'[t] = "half_open")
            => probeAge = RecoveryTimeout]_vars
  <2> SUFFICES ASSUME IInv, Next, NEW u \in Threads,
                      calls[u] = "idle", calls'[u] = "half_open"
               PROVE  probeAge = RecoveryTimeout
    BY DEF vars
  <2>1. MayProbe
    BY DEF IInv, TypeOK, CallStatus, Next, Admit, AdmitProbe, Reject,
           HandleRejection, RecordFailure, RecordSuccess, Escape, Tick
  <2> QED
    BY <2>1, TimeoutAssumption
       DEF MayProbe, RecoveryTimeoutElapsed, IInv, TypeOK, TimerCoversProbe
<1> QED BY <1>1, Invariant, PTL DEF Spec, ProbesSpaced

-----------------------------------------------------------------------------
LEMMA InitPromise == Init => Promise!Init
BY TimeoutAssumption DEF Init, Promise!Init, Quiet, InFlight

\* Every step of the breaker is a step of the promise, or changes nothing in it.
LEMMA NextPromise == IInv /\ [Next]_vars => [Promise!Next]_(Promise!pvars)
<1> SUFFICES ASSUME IInv, [Next]_vars PROVE [Promise!Next]_(Promise!pvars)
  OBVIOUS
<1> USE TimeoutAssumption, ThresholdAssumption DEF IInv, TypeOK, CallStatus
<1> DEFINE Passed == {t \in Threads : InFlight(t)}
<1>1. ASSUME NEW t \in Threads, Admit(t) PROVE Promise!LetThrough(t)
  BY <1>1 DEF Admit, Promise!LetThrough, Quiet, InFlight
<1>2. ASSUME NEW t \in Threads, AdmitProbe(t) PROVE Promise!LetThrough(t)
  <2>1. Quiet = RecoveryTimeout /\ Quiet' = 0
    BY <1>2 DEF AdmitProbe, MayProbe, RecoveryTimeoutElapsed, Quiet,
                TimerCoversProbe
  <2> QED BY <1>2, <2>1 DEF AdmitProbe, MayProbe, Promise!LetThrough, InFlight
<1>3. ASSUME NEW t \in Threads, Reject(t) \/ HandleRejection(t)
      PROVE UNCHANGED Promise!pvars
  BY <1>3 DEF Reject, HandleRejection, Promise!pvars, Quiet, InFlight
<1>4. ASSUME NEW t \in Threads, RecordFailure(t) PROVE Promise!Fail(t)
  <2>1. Quiet' = 0
    BY <1>4 DEF RecordFailure, ClearFlag, RestartTimer, Quiet
  <2>2. (state = "open")' \in {state = "open", TRUE}
    BY <1>4 DEF RecordFailure, ClearFlag, RestartTimer
  <2>3. t \in Passed /\ Passed' = Passed \ {t}
    BY <1>4 DEF RecordFailure, ClearFlag, RestartTimer, InFlight
  <2> QED BY <2>1, <2>2, <2>3 DEF Promise!Fail
<1>5. ASSUME NEW t \in Threads, RecordSuccess(t) PROVE Promise!Succeed(t)
  BY <1>5 DEF RecordSuccess, ClearFlag, CloseCircuit, Promise!Succeed, Quiet, InFlight
<1>6. ASSUME NEW t \in Threads, Escape(t) PROVE Promise!Abandon(t)
  BY <1>6 DEF Escape, Promise!Abandon, Quiet, InFlight
<1>7. ASSUME Tick PROVE Promise!Tick \/ UNCHANGED Promise!pvars
  BY <1>7 DEF Tick, Older, Promise!Tick, Promise!pvars, Quiet, InFlight
<1>8. CASE UNCHANGED vars
  BY <1>8 DEF vars, Promise!pvars, Quiet, InFlight
<1> QED
  BY <1>1, <1>2, <1>3, <1>4, <1>5, <1>6, <1>7, <1>8 DEF Next, Promise!Next

\* CircuitBreaker implements BreakerPromise.
THEOREM BreakerKeepsPromise == Spec => KeepsPromise
BY InitPromise, NextPromise, Invariant, PTL DEF Spec, KeepsPromise, Promise!Spec

-----------------------------------------------------------------------------
(* The request limiters.                                                   *)

Times == 0..MaxTime
Indices == 1..Len(Limits)

-----------------------------------------------------------------------------
(* The limits, windows and keys.                                           *)

\* What the proofs need of a limit: its window is at least a minute, and its counter
\* lives for two of them.
LimitOK(limit) ==
    /\ limit.max \in Nat /\ limit.span \in Nat \ {0} /\ limit.ttl \in Nat
    /\ limit.ttl <= 2 * Hour
    /\ limit.ttl = limit.span + limit.span /\ Minute <= limit.span

LEMMA LimitsType ==
    /\ Len(Limits) = 2 /\ DOMAIN Limits = Indices /\ Indices = {1, 2}
    /\ \A i \in Indices : LimitOK(Limits[i])
    /\ \A i, j \in Indices : Limits[i].name = Limits[j].name => i = j
<1> USE TimeAssumption, LimitAssumption
<1>1. Len(Limits) = 2 /\ DOMAIN Limits = 1..2
  BY DEF Limits
<1>2. Indices = {1, 2} /\ DOMAIN Limits = Indices
  BY <1>1 DEF Indices
<1>3. LimitOK(Limits[1])
  BY DEF Limits, LimitOK, MinuteTtl
<1>4. LimitOK(Limits[2])
  BY DEF Limits, LimitOK
<1>5. Limits[1].name # Limits[2].name
  BY DEF Limits
<1> QED BY <1>1, <1>2, <1>3, <1>4, <1>5

\* Two times of one window are less than its length apart.
LEMMA OneWindow ==
    ASSUME NEW m \in Nat \ {0}, NEW t \in Nat, NEW u \in Nat, t \div m = u \div m
    PROVE  t < u + m
OBVIOUS

LEMMA WindowType ==
    ASSUME NEW limit, limit.span \in Nat \ {0}, NEW t \in Nat
    PROVE  Window(limit, t) \in Nat
BY DEF Window

LEMMA SameKey ==
    ASSUME NEW l, NEW m, NEW c, NEW d, NEW t, NEW u
    PROVE  Key(l, c, t) = Key(m, d, u) <=>
               l.name = m.name /\ c = d /\ Window(l, t) = Window(m, u)
BY DEF Key

-----------------------------------------------------------------------------
(* What is counted.                                                        *)

\* How many of a sequence of times are in a set, and which checks are between their
\* last get and their last set for a client at a set of times.
HowMany(q, times) == Cardinality({i \in DOMAIN q : q[i] \in times})
CountingIn(p, cl, tm, c, times) ==
    {w \in Workers : p[w] = "set" /\ cl[w] = c /\ tm[w] \in times}

LEMMA SeqElements ==
    ASSUME NEW S, NEW q \in Seq(S)
    PROVE  Len(q) \in Nat /\ DOMAIN q = 1..Len(q) /\ \A j \in DOMAIN q : q[j] \in S
OBVIOUS

LEMMA SeqWider ==
    ASSUME NEW S, NEW T, S \subseteq T, NEW q \in Seq(S)
    PROVE  q \in Seq(T)
OBVIOUS

LEMMA HowManyType ==
    ASSUME NEW S, NEW q \in Seq(S), NEW times
    PROVE  /\ IsFiniteSet({i \in DOMAIN q : q[i] \in times})
           /\ HowMany(q, times) \in Nat
<1>1. Len(q) \in Nat /\ DOMAIN q = 1..Len(q)
  OBVIOUS
<1>2. IsFiniteSet(1..Len(q))
  BY <1>1, FS_Interval
<1>3. {i \in DOMAIN q : q[i] \in times} \subseteq 1..Len(q)
  BY <1>1
<1>4. IsFiniteSet({i \in DOMAIN q : q[i] \in times})
  BY <1>2, <1>3, FS_Subset
<1> QED BY <1>4, FS_CardinalityType DEF HowMany

LEMMA HowManyLess ==
    ASSUME NEW S, NEW q \in Seq(S), NEW times, NEW more,
           \A i \in DOMAIN q : q[i] \in times => q[i] \in more
    PROVE  HowMany(q, times) <= HowMany(q, more)
<1>1. IsFiniteSet({i \in DOMAIN q : q[i] \in more})
  BY HowManyType
<1>2. {i \in DOMAIN q : q[i] \in times} \subseteq {i \in DOMAIN q : q[i] \in more}
  OBVIOUS
<1> QED BY <1>1, <1>2, FS_Subset DEF HowMany

LEMMA HowManyNone ==
    ASSUME NEW q, NEW times, \A i \in DOMAIN q : q[i] \notin times
    PROVE  HowMany(q, times) = 0
<1>1. {i \in DOMAIN q : q[i] \in times} = {}
  OBVIOUS
<1> QED BY <1>1, FS_EmptySet DEF HowMany

LEMMA HowManyAppend ==
    ASSUME NEW S, NEW q \in Seq(S), NEW x \in S, NEW times
    PROVE  HowMany(Append(q, x), times) =
               HowMany(q, times) + (IF x \in times THEN 1 ELSE 0)
<1> DEFINE r == Append(q, x)
           A == {i \in DOMAIN q : q[i] \in times}
           B == {i \in DOMAIN r : r[i] \in times}
           n == Len(q)
<1>1. n \in Nat /\ DOMAIN q = 1..n /\ DOMAIN r = 1..(n + 1)
      /\ (\A i \in 1..n : r[i] = q[i]) /\ r[n + 1] = x
  OBVIOUS
<1>2. IsFiniteSet(A) /\ Cardinality(A) \in Nat
  BY HowManyType DEF HowMany
<1>3. n + 1 \notin A
  BY <1>1
<1>6. HowMany(r, times) = Cardinality(B) /\ HowMany(q, times) = Cardinality(A)
  BY DEF HowMany
<1>4. CASE x \in times
  <2>1. B = A \union {n + 1}
    BY <1>1, <1>4
  <2>2. Cardinality(A \union {n + 1}) = Cardinality(A) + 1
    BY <1>2, <1>3, FS_AddElement
  <2> HIDE DEF A, B, r
  <2>3. HowMany(r, times) = HowMany(q, times) + 1
    BY <1>6, <2>1, <2>2
  <2> QED BY <1>4, <2>3 DEF r
<1>5. CASE x \notin times
  <2>1. B = A
    BY <1>1, <1>5
  <2> HIDE DEF A, B, r
  <2>2. HowMany(r, times) = HowMany(q, times) + 0
    BY <1>2, <1>6, <2>1
  <2> QED BY <1>5, <2>2 DEF r
<1> QED BY <1>4, <1>5

LEMMA WorkersFinite ==
    ASSUME NEW A \in SUBSET Workers
    PROVE  IsFiniteSet(A) /\ Cardinality(A) \in Nat
BY WorkersAssumption, FS_Subset, FS_CardinalityType

LEMMA WorkersMore ==
    ASSUME NEW A \in SUBSET Workers, NEW B \in SUBSET Workers, A \subseteq B
    PROVE  Cardinality(A) <= Cardinality(B)
BY WorkersFinite, FS_Subset

LEMMA WorkersOneMore ==
    ASSUME NEW A \in SUBSET Workers, NEW w \in Workers, w \notin A
    PROVE  Cardinality(A \union {w}) = Cardinality(A) + 1
BY WorkersFinite, FS_AddElement

LEMMA WorkersOneLess ==
    ASSUME NEW A \in SUBSET Workers, NEW w \in A
    PROVE  Cardinality(A) = Cardinality(A \ {w}) + 1
<1>1. A = (A \ {w}) \union {w}
  OBVIOUS
<1>2. Cardinality((A \ {w}) \union {w}) = Cardinality(A \ {w}) + 1
  BY WorkersOneMore
<1> QED BY <1>1, <1>2

\* Bounds that a request's own end cannot break: when a step has it let through, the
\* check that stops counting is made up for by the request that is now counted.
LEMMA StillCounted ==
    ASSUME NEW q \in Seq(Nat), NEW x \in Nat, NEW times,
           NEW A \in SUBSET Workers, NEW B \in SUBSET Workers, NEW w \in Workers,
           A \subseteq B \union {w}, w \in A => x \in times
    PROVE  HowMany(q, times) + Cardinality(A) <= HowMany(Append(q, x), times) + Cardinality(B)
<1>0. HowMany(q, times) \in Nat
  BY HowManyType
<1>1. HowMany(Append(q, x), times) =
          HowMany(q, times) + (IF x \in times THEN 1 ELSE 0)
  BY HowManyAppend
<1>2. Cardinality(A) \in Nat /\ Cardinality(B) \in Nat
  BY WorkersFinite
<1>3. CASE w \in A
  <2>1. A \ {w} \subseteq B /\ A \ {w} \in SUBSET Workers
    OBVIOUS
  <2>2. Cardinality(A) = Cardinality(A \ {w}) + 1
    BY <1>3, WorkersOneLess
  <2>3. Cardinality(A \ {w}) <= Cardinality(B) /\ Cardinality(A \ {w}) \in Nat
    BY <2>1, WorkersMore, WorkersFinite
  <2> QED BY <1>0, <1>1, <1>2, <1>3, <2>2, <2>3
<1>4. CASE w \notin A
  <2>1. Cardinality(A) <= Cardinality(B)
    BY <1>4, WorkersMore
  <2> QED BY <1>0, <1>1, <1>2, <2>1
<1> QED BY <1>3, <1>4

-----------------------------------------------------------------------------
(* The inductive invariant.                                                *)

\* How far a check has come, and that it went on only below every limit it has read.
ProgressOK == \A w \in Workers :
    /\ pc[w] = "idle" => at[w] = 1 /\ seen[w] = <<>>
    /\ pc[w] = "get" => Len(seen[w]) = at[w] - 1
    /\ pc[w] = "set" => Len(seen[w]) = Len(Limits)
    /\ pc[w] # "idle" => client[w] \in Clients /\ time[w] <= now /\ now < time[w] + Minute
    /\ \A i \in DOMAIN seen[w] : i \in Indices /\ seen[w][i] < Limits[i].max

PastOK == \A c \in Clients : \A j \in DOMAIN through[c] : through[c][j] <= now

\* No counter is ahead of the requests that have arrived: those of limit i that are
\* still to be written leave it room.
UnwrittenIn(p, a, i) == {w \in Workers : p[w] = "get" \/ (p[w] = "set" /\ a[w] <= i)}
CountsOK ==
    /\ \A i \in Indices : Cardinality(UnwrittenIn(pc, at, i)) <= arrived
    /\ \A key \in DOMAIN cache : \E i \in Indices, c \in Clients, t \in Times :
           /\ key = Key(Limits[i], c, t)
           /\ cache[key].count + Cardinality(UnwrittenIn(pc, at, i)) <= arrived
    /\ \A w \in Workers : \A i \in DOMAIN seen[w] :
           seen[w][i] + Cardinality(UnwrittenIn(pc, at, i)) <= arrived

\* From above: a counter, and a count that was read, stands for requests let through in
\* its window and for others that are being counted.
CounterBacked(i, c, t) ==
    LET key == Key(Limits[i], c, t)
        times == Together(Limits[i], t)
    IN  key \in DOMAIN cache =>
            cache[key].count <=
                HowMany(through[c], times) + Cardinality(CountingIn(pc, client, time, c, times))
SeenBacked(w, i) ==
    LET times == Together(Limits[i], time[w])
    IN  seen[w][i] <= HowMany(through[client[w]], times) +
            Cardinality(CountingIn(pc, client, time, client[w], times) \ {w})
UpperOK ==
    /\ \A i \in Indices, c \in Clients, t \in Times : CounterBacked(i, c, t)
    /\ \A w \in Workers : \A i \in DOMAIN seen[w] : SeenBacked(w, i)

\* From below, of a client whose checks never overlapped and never failed: while the
\* requests of a time may still be joined by another, the counter that holds them is
\* there and counts them all, and so does what its check has read and written.
KeptFor(c, limit, t) ==
    LET key == Key(limit, c, t)
        times == Together(limit, t)
    IN  now < t + Minute => \A j \in DOMAIN through[c] :
            through[c][j] \in times =>
                /\ key \in DOMAIN cache
                /\ cache[key].expires >= through[c][j] + limit.ttl
                /\ cache[key].count >= HowMany(through[c], times)
ReadAll(w, i) == \A t \in Times :
    Window(Limits[i], t) = Window(Limits[i], time[w]) /\ now < t + Minute =>
        seen[w][i] >= HowMany(through[client[w]], Together(Limits[i], t))
HasWritten(w, i) ==
    LET key == Key(Limits[i], client[w], time[w])
    IN  /\ key \in DOMAIN cache
        /\ cache[key].expires >= time[w] + Limits[i].ttl
        /\ cache[key].count >= seen[w][i] + 1

CheckWell(w) ==
    /\ \A i \in DOMAIN seen[w] : ReadAll(w, i)
    /\ pc[w] = "set" => \A i \in 1..(at[w] - 1) : HasWritten(w, i)

Busy(w, c) == pc[w] # "idle" /\ client[w] = c
ChecksAlone(c) == \A v, w \in Workers : Busy(v, c) /\ Busy(w, c) => v = w
ChecksWell(c) == \A w \in Workers : Busy(w, c) => CheckWell(w)
AllKept(c) == \A i \in Indices, t \in Times : KeptFor(c, Limits[i], t)
GotItsLimit(c) == \A i \in Indices, t \in Times :
    HowMany(through[c], Together(Limits[i], t)) <= Limits[i].max

LowerFor(c) == ChecksAlone(c) /\ ChecksWell(c) /\ AllKept(c) /\ GotItsLimit(c)
LowerOK == \A c \in Clients \ disturbed : LowerFor(c)

LimitIInv == LimitTypeOK /\ ProgressOK /\ PastOK /\ CountsOK /\ UpperOK /\ LowerOK

LEMMA LimitInitIInv == LimitInit => LimitIInv
<1> SUFFICES ASSUME LimitInit PROVE LimitIInv
  OBVIOUS
<1> USE TimeAssumption, LimitAssumption DEF LimitInit
<1>0. Len(Limits) \in Nat \ {0}
  BY LimitsType
<1>1. LimitTypeOK
  <2>1. DOMAIN cache = {}
    OBVIOUS
  <2>2. at \in [Workers -> 1..Len(Limits)]
    BY <1>0
  <2>3. through \in [Clients -> Seq(0..MaxTime)] /\ seen \in [Workers -> Seq(Nat)]
    OBVIOUS
  <2> QED BY <2>1, <2>2, <2>3 DEF LimitTypeOK
<1>2. ProgressOK
  BY DEF ProgressOK
<1>3. PastOK
  BY DEF PastOK
<1>4. CountsOK
  <2>1. \A i : UnwrittenIn(pc, at, i) = {}
    BY DEF UnwrittenIn
  <2>2. Cardinality({}) = 0
    BY FS_EmptySet
  <2>3. DOMAIN cache = {} /\ arrived = 0 /\ \A w \in Workers : DOMAIN seen[w] = {}
    OBVIOUS
  <2>4. \A i : Cardinality(UnwrittenIn(pc, at, i)) = 0
    BY ONLY <2>1, <2>2
  <2> QED BY ONLY <2>3, <2>4 DEF CountsOK
<1>5. UpperOK
  BY DEF UpperOK, CounterBacked
<1>6. LowerOK
  <2> SUFFICES ASSUME NEW c \in Clients PROVE LowerFor(c)
    BY DEF LowerOK
  <2>1. through[c] = <<>>
    OBVIOUS
  <2>2. \A times : HowMany(<<>>, times) = 0
    BY HowManyNone
  <2>3. \A i \in Indices : Limits[i].max \in Nat
    BY LimitsType DEF LimitOK
  <2>4. AllKept(c)
    BY <2>1 DEF AllKept, KeptFor
  <2>5. ChecksAlone(c) /\ ChecksWell(c)
    BY DEF ChecksAlone, ChecksWell, Busy
  <2>6. GotItsLimit(c)
    BY <2>1, <2>2, <2>3 DEF GotItsLimit
  <2> QED BY <2>4, <2>5, <2>6 DEF LowerFor
<1> QED BY <1>1, <1>2, <1>3, <1>4, <1>5, <1>6 DEF LimitIInv

-----------------------------------------------------------------------------
(* What each action does, worker by worker and client by client.           *)

WorkerKept(v) == /\ pc'[v] = pc[v] /\ client'[v] = client[v] /\ time'[v] = time[v]
                 /\ at'[v] = at[v] /\ seen'[v] = seen[v]
OthersKept(w) == \A v \in Workers \ {w} : WorkerKept(v)
Ended(w) == /\ pc'[w] = "idle" /\ client'[w] = Absent /\ time'[w] = 0 /\ at'[w] = 1
            /\ seen'[w] = <<>>

LEMMA EndEffect ==
    ASSUME LimitTypeOK, NEW w \in Workers, NEW what, End(w, what)
    PROVE  OthersKept(w) /\ Ended(w)
BY DEF LimitTypeOK, End, OthersKept, WorkerKept, Ended

LEMMA ArriveEffect ==
    ASSUME LimitTypeOK, NEW w \in Workers, NEW request \in Requests, Arrive(w, request)
    PROVE  LET c == ClientId(request) IN
           /\ c \in Clients /\ OthersKept(w)
           /\ pc[w] = "idle" /\ pc'[w] = "get" /\ client'[w] = c /\ time'[w] = now
           /\ at'[w] = at[w] /\ seen'[w] = seen[w]
           /\ arrived < MaxRequests /\ arrived' = arrived + 1
           /\ disturbed \subseteq disturbed'
           /\ c \notin disturbed' => \A v \in Workers : ~Busy(v, c)
           /\ UNCHANGED <<cache, now, through>>
<1> DEFINE c == ClientId(request)
<1>1. c \in Clients
  BY DEF Clients
<1>2. OthersKept(w)
  BY DEF LimitTypeOK, Arrive, OthersKept, WorkerKept
<1>3. c \notin disturbed' => \A v \in Workers : ~Busy(v, c)
  BY DEF Arrive, Checking, Busy
<1> QED BY <1>1, <1>2, <1>3 DEF LimitTypeOK, Arrive

LEMMA CountType ==
    ASSUME LimitTypeOK, NEW key
    PROVE  Count(key) \in Nat
BY DEF LimitTypeOK, Count

LEMMA ReadEffect ==
    ASSUME LimitTypeOK, NEW w \in Workers, GetCounter(w)
    PROVE  LET limit == Limits[at[w]]
               count == Count(Key(limit, client[w], time[w])) IN
           /\ pc[w] = "get" /\ OthersKept(w) /\ at[w] \in Indices /\ count \in Nat
           /\ \/ count >= limit.max /\ Ended(w)
              \/ /\ count < limit.max
                 /\ seen'[w] = Append(seen[w], count)
                 /\ at[w] = Len(Limits) => at'[w] = 1 /\ pc'[w] = "set"
                 /\ at[w] # Len(Limits) => at'[w] = at[w] + 1 /\ pc'[w] = "get"
                 /\ client'[w] = client[w] /\ time'[w] = time[w]
           /\ UNCHANGED <<cache, now, through, arrived, disturbed>>
<1> DEFINE limit == Limits[at[w]]
           count == Count(Key(limit, client[w], time[w]))
<1>1. at[w] \in Indices
  BY DEF LimitTypeOK, Indices
<1>2. limit.max \in Nat
  BY <1>1, LimitsType DEF LimitTypeOK, LimitOK
<1>3. count \in Nat
  BY CountType
<1>4. CASE AtLimit(count, limit)
  <2>1. End(w, "refused")
    BY <1>4 DEF GetCounter
  <2>2. OthersKept(w) /\ Ended(w)
    BY <2>1, EndEffect
  <2>3. count >= limit.max
    BY <1>4 DEF AtLimit
  <2> QED BY <1>1, <1>3, <2>2, <2>3 DEF GetCounter
<1>5. CASE ~AtLimit(count, limit)
  <2>1. count < limit.max
    BY <1>2, <1>3, <1>5 DEF AtLimit
  <2>2. OthersKept(w)
    BY <1>5 DEF GetCounter, LimitTypeOK, OthersKept, WorkerKept
  <2>3. /\ seen'[w] = Append(seen[w], count)
        /\ at[w] = Len(Limits) => at'[w] = 1 /\ pc'[w] = "set"
        /\ at[w] # Len(Limits) => at'[w] = at[w] + 1 /\ pc'[w] = "get"
        /\ client'[w] = client[w] /\ time'[w] = time[w]
    BY <1>5 DEF GetCounter, LimitTypeOK
  <2> QED BY <1>1, <1>3, <2>1, <2>2, <2>3 DEF GetCounter
<1> QED BY <1>4, <1>5

LEMMA PassEffect ==
    ASSUME LimitTypeOK, ProgressOK, NEW w \in Workers, pc[w] # "idle", LetThrough(w)
    PROVE  /\ OthersKept(w) /\ Ended(w)
           /\ client[w] \in Clients /\ time[w] \in Times /\ time[w] <= now
           /\ through'[client[w]] = Append(through[client[w]], time[w])
           /\ \A c \in Clients \ {client[w]} : through'[c] = through[c]
<1>1. OthersKept(w) /\ Ended(w)
  BY EndEffect DEF LetThrough
<1>2. client[w] \in Clients
  BY DEF ProgressOK
<1>3. time[w] \in Times /\ time[w] <= now
  BY DEF LimitTypeOK, ProgressOK, Times
<1>4. /\ through'[client[w]] = Append(through[client[w]], time[w])
      /\ \A c \in Clients \ {client[w]} : through'[c] = through[c]
  BY <1>2 DEF LimitTypeOK, LetThrough
<1> QED BY <1>1, <1>2, <1>3, <1>4

LEMMA WriteEffect ==
    ASSUME LimitTypeOK, ProgressOK, NEW w \in Workers, SetCounter(w)
    PROVE  LET key == Key(Limits[at[w]], client[w], time[w]) IN
           /\ pc[w] = "set" /\ OthersKept(w) /\ at[w] \in Indices
           /\ DOMAIN cache' = DOMAIN cache \union {key} /\ cache'[key] = Entry(w)
           /\ \A k \in DOMAIN cache : k # key => cache'[k] = cache[k]
           /\ at[w] = Len(Limits) => LetThrough(w)
           /\ at[w] # Len(Limits) =>
                  /\ at'[w] = at[w] + 1 /\ pc'[w] = "set" /\ seen'[w] = seen[w]
                  /\ client'[w] = client[w] /\ time'[w] = time[w]
                  /\ through' = through /\ outcome' = outcome
           /\ UNCHANGED <<now, arrived, disturbed>>
<1>1. at[w] \in Indices
  BY DEF LimitTypeOK, Indices
<1>2. OthersKept(w)
  <2>1. CASE at[w] = Len(Limits)
    BY <2>1, EndEffect DEF SetCounter, LetThrough
  <2>2. CASE at[w] # Len(Limits)
    BY <2>2 DEF SetCounter, LimitTypeOK, OthersKept, WorkerKept
  <2> QED BY <2>1, <2>2
<1>3. at[w] # Len(Limits) => at'[w] = at[w] + 1
  BY DEF SetCounter, LimitTypeOK
<1> DEFINE key == Key(Limits[at[w]], client[w], time[w])
<1>4. /\ DOMAIN cache' = DOMAIN cache \union {key} /\ cache'[key] = Entry(w)
      /\ \A k \in DOMAIN cache : k # key => cache'[k] = cache[k]
  BY DEF SetCounter, Put
<1> QED BY <1>1, <1>2, <1>3, <1>4 DEF SetCounter

LEMMA TickEffect ==
    ASSUME ClockTicks
    PROVE  /\ now < MaxTime /\ now' = now + 1
           /\ \A w \in Workers : pc[w] # "idle" => now' < time[w] + Minute
           /\ \A key : key \in DOMAIN cache' <=>
                  key \in DOMAIN cache /\ cache[key].expires > now'
           /\ \A key \in DOMAIN cache' : cache'[key] = cache[key]
           /\ UNCHANGED <<pc, client, time, at, seen, outcome, through,
                          arrived, disturbed>>
BY DEF ClockTicks

-----------------------------------------------------------------------------
(* Types, progress and the past.                                           *)

LEMMA EntryType ==
    ASSUME LimitTypeOK, ProgressOK, CountsOK, NEW w \in Workers, pc[w] = "set"
    PROVE  /\ at[w] \in DOMAIN seen[w] /\ seen[w][at[w]] \in Nat
           /\ Entry(w).count = seen[w][at[w]] + 1 /\ Entry(w).count \in 1..arrived
           /\ Entry(w).expires = now + Limits[at[w]].ttl
           /\ Entry(w) \in [count : 1..arrived,
                            expires : now..MaxTime + 2 * Hour]
<1> DEFINE i == at[w]
           s == seen[w][i]
           U == UnwrittenIn(pc, at, i)
           ttl == Limits[i].ttl
<1>1. i \in Indices /\ seen[w] \in Seq(Nat) /\ Len(seen[w]) = Len(Limits)
  BY DEF LimitTypeOK, ProgressOK, Indices
<1>2. i \in DOMAIN seen[w] /\ s \in Nat
  BY <1>1 DEF Indices
<1>3. w \in U /\ U \in SUBSET Workers
  BY <1>1 DEF UnwrittenIn, Indices
<1>4. Cardinality(U) = Cardinality(U \ {w}) + 1 /\ Cardinality(U \ {w}) \in Nat
  BY <1>3, WorkersOneLess, WorkersFinite
<1>5. s + Cardinality(U) <= arrived
  BY <1>2 DEF CountsOK
<1>6. ttl \in Nat /\ ttl <= 2 * Hour
  BY <1>1, LimitsType DEF LimitTypeOK, LimitOK
<1> HIDE DEF U, s, ttl
<1>7. arrived \in Nat /\ now \in 0..MaxTime
  BY LimitAssumption DEF LimitTypeOK
<1>8. s + 1 \in 1..arrived
  BY <1>2, <1>4, <1>5, <1>7
<1>9. now + ttl \in now..MaxTime + 2 * Hour
  BY <1>6, <1>7, TimeAssumption, LimitAssumption
<1>10. Entry(w) = [count |-> s + 1, expires |-> now + ttl]
  BY DEF Entry, s, ttl
<1> HIDE DEF i
<1> QED BY <1>2, <1>8, <1>9, <1>10 DEF i, s, ttl

LEMMA TypeKept == LimitIInv /\ [LimitNext]_limitVars => LimitTypeOK'
<1> SUFFICES ASSUME LimitIInv, [LimitNext]_limitVars PROVE LimitTypeOK'
  OBVIOUS
<1> USE TimeAssumption, LimitAssumption
<1>0. LimitTypeOK /\ ProgressOK /\ CountsOK
  BY DEF LimitIInv
<1>t. Len(Limits) \in Nat \ {0}
  BY LimitsType
<1>n. ASSUME NEW w \in Workers PROVE at[w] # Len(Limits) => at[w] + 1 \in 1..Len(Limits)
  <2>1. at[w] \in 1..Len(Limits)
    BY <1>0 DEF LimitTypeOK
  <2> QED BY ONLY <1>t, <2>1
<1>e. ASSUME NEW w \in Workers, NEW what \in {"passed", "refused"}, End(w, what)
      PROVE  /\ pc' \in [Workers -> {"idle", "get", "set"}]
             /\ client' \in [Workers -> Clients \union {Absent}]
             /\ time' \in [Workers -> 0..MaxTime]
             /\ at' \in [Workers -> 1..Len(Limits)]
             /\ seen' \in [Workers -> Seq(Nat)]
             /\ outcome' \in [Workers -> {"passed", "refused"}]
  BY <1>0, <1>t, <1>e DEF LimitTypeOK, End
<1>p. ASSUME NEW w \in Workers, pc[w] # "idle", LetThrough(w)
      PROVE  through' \in [Clients -> Seq(0..MaxTime)]
  <2>1. time[w] \in 0..MaxTime /\ client[w] \in Clients
    BY <1>0, <1>p, PassEffect DEF Times
  <2>2. through[client[w]] \in Seq(0..MaxTime)
    BY <1>0, <2>1 DEF LimitTypeOK
  <2>3. Append(through[client[w]], time[w]) \in Seq(0..MaxTime)
    BY ONLY <2>1, <2>2
  <2> QED BY <1>0, <1>p, <2>3 DEF LimitTypeOK, LetThrough
<1>1. ASSUME NEW w \in Workers, NEW request \in Requests, Arrive(w, request)
      PROVE  LimitTypeOK'
  <2>1. ClientId(request) \in Clients /\ arrived' \in 0..MaxRequests
    BY <1>0, <1>1, ArriveEffect DEF LimitTypeOK
  <2> QED BY <1>0, <1>1, <2>1 DEF LimitTypeOK, Arrive
<1>2. ASSUME NEW w \in Workers, GetCounter(w) PROVE LimitTypeOK'
  <2> DEFINE count == Count(Key(Limits[at[w]], client[w], time[w]))
  <2>1. UNCHANGED <<cache, now, through, arrived, disturbed>>
    BY <1>2 DEF GetCounter
  <2>2. CASE AtLimit(count, Limits[at[w]])
    <3>1. End(w, "refused")
      BY <1>2, <2>2 DEF GetCounter
    <3> QED BY <1>0, <1>e, <2>1, <3>1 DEF LimitTypeOK
  <2>3. CASE ~AtLimit(count, Limits[at[w]])
    <3>1. count \in Nat
      BY <1>0, CountType
    <3>2. seen[w] \in Seq(Nat)
      BY <1>0 DEF LimitTypeOK
    <3>3. Append(seen[w], count) \in Seq(Nat)
      BY ONLY <3>1, <3>2
    <3>4. seen' \in [Workers -> Seq(Nat)]
      BY <1>0, <1>2, <2>3, <3>3 DEF LimitTypeOK, GetCounter
    <3>5. at' \in [Workers -> 1..Len(Limits)]
      <4>1. at' = [at EXCEPT ![w] = IF at[w] = Len(Limits) THEN 1 ELSE at[w] + 1]
        BY <1>2, <2>3 DEF GetCounter
      <4>2. (IF at[w] = Len(Limits) THEN 1 ELSE at[w] + 1) \in 1..Len(Limits)
        BY <1>n, <1>t
      <4> QED BY <1>0, <4>1, <4>2 DEF LimitTypeOK
    <3>7. pc' \in [Workers -> {"idle", "get", "set"}]
      BY <1>0, <1>2, <2>3 DEF LimitTypeOK, GetCounter
    <3>6. UNCHANGED <<client, time, outcome>>
      BY <1>2, <2>3 DEF GetCounter
    <3> QED BY <1>0, <2>1, <3>4, <3>5, <3>6, <3>7 DEF LimitTypeOK
  <2> QED BY <2>2, <2>3
<1>3. ASSUME NEW w \in Workers, SetCounter(w) PROVE LimitTypeOK'
  <2> DEFINE key == Key(Limits[at[w]], client[w], time[w])
  <2>1. UNCHANGED <<now, arrived, disturbed>>
    BY <1>3 DEF SetCounter
  <2>2. pc[w] = "set" /\ cache' = Put(key, Entry(w))
    BY <1>3 DEF SetCounter
  <2>3. arrived \in 0..MaxRequests
    BY <1>0 DEF LimitTypeOK
  <2>4. Entry(w).count \in 1..arrived
        /\ Entry(w) \in [count : 1..arrived,
                         expires : now..MaxTime + 2 * Hour]
    BY <1>0, <2>2, EntryType
  <2>5. Entry(w) \in [count : 1..MaxRequests,
                      expires : now..MaxTime + 2 * Hour]
    BY <2>3, <2>4
  <2>6. \A k \in DOMAIN cache' : cache'[k] \in
            [count : 1..MaxRequests, expires : now..MaxTime + 2 * Hour]
    <3> DEFINE R == [count : 1..MaxRequests,
                     expires : now..MaxTime + 2 * Hour]
    <3>1. \A k \in DOMAIN cache : cache[k] \in R
      BY <1>0 DEF LimitTypeOK
    <3>2. Entry(w) \in R
      BY <2>5
    <3>4. /\ DOMAIN cache' = DOMAIN cache \union {key} /\ cache'[key] = Entry(w)
          /\ \A k \in DOMAIN cache : k # key => cache'[k] = cache[k]
      BY <2>2 DEF Put
    <3> HIDE DEF R, key
    <3>3. \A k \in DOMAIN cache' : cache'[k] \in R
      BY ONLY <3>1, <3>2, <3>4
    <3> QED BY <3>3 DEF R
  <2>7. CASE at[w] = Len(Limits)
    <3>1. LetThrough(w) /\ End(w, "passed")
      BY <1>3, <2>7 DEF SetCounter, LetThrough
    <3>2. through' \in [Clients -> Seq(0..MaxTime)]
      BY <1>p, <2>2, <3>1
    <3> QED BY <1>0, <1>e, <2>1, <2>6, <3>1, <3>2 DEF LimitTypeOK
  <2>8. CASE at[w] # Len(Limits)
    <3>1. at' \in [Workers -> 1..Len(Limits)]
      BY <1>0, <1>3, <1>n, <2>8 DEF LimitTypeOK, SetCounter
    <3>2. UNCHANGED <<pc, client, time, seen, outcome, through>>
      BY <1>3, <2>8 DEF SetCounter
    <3> QED BY <1>0, <2>1, <2>6, <3>1, <3>2 DEF LimitTypeOK
  <2> QED BY <2>7, <2>8
<1>4. ASSUME NEW w \in Workers, CacheFails(w) PROVE LimitTypeOK'
  <2>1. UNCHANGED <<cache, now, arrived>>
        /\ pc[w] # "idle" /\ LetThrough(w) /\ End(w, "passed")
    BY <1>4 DEF CacheFails, LetThrough
  <2>2. through' \in [Clients -> Seq(0..MaxTime)]
    BY <1>p, <2>1
  <2>3. disturbed' \subseteq Clients
    BY <1>0, <1>4 DEF LimitTypeOK, ProgressOK, CacheFails
  <2> QED BY <1>0, <1>e, <2>1, <2>2, <2>3 DEF LimitTypeOK
<1>5. ASSUME NEW w \in Workers, Exempt(w) PROVE LimitTypeOK'
  <2> QED BY <1>0, <1>5 DEF LimitTypeOK, Exempt
<1>6. CASE ClockTicks
  <2>2. now \in 0..MaxTime /\ now' \in 0..MaxTime
    BY <1>0, <1>6, TickEffect DEF LimitTypeOK
  <2>3. ASSUME NEW k \in DOMAIN cache'
        PROVE  cache'[k] \in [count : 1..MaxRequests,
                              expires : now'..MaxTime + 2 * Hour]
    <3> DEFINE entry == cache[k]
               last == MaxTime + 2 * Hour
    <3>1. k \in DOMAIN cache /\ cache'[k] = entry /\ entry.expires > now'
      BY <1>6, TickEffect
    <3>2. entry \in [count : 1..MaxRequests, expires : now..last]
      BY <1>0, <3>1 DEF LimitTypeOK
    <3>3. last \in Nat
      OBVIOUS
    <3> HIDE DEF entry, last
    <3>4. entry \in [count : 1..MaxRequests, expires : now'..last]
      BY ONLY <2>2, <3>1, <3>2, <3>3
    <3> QED BY <3>1, <3>4 DEF last
  <2> QED BY <1>0, <1>6, <2>2, <2>3, TickEffect DEF LimitTypeOK
<1>7. CASE UNCHANGED limitVars
  BY <1>0, <1>7 DEF LimitTypeOK, limitVars, Limits
<1> QED BY <1>1, <1>2, <1>3, <1>4, <1>5, <1>6, <1>7 DEF LimitNext, Check

LEMMA ProgressKept == LimitIInv /\ [LimitNext]_limitVars => ProgressOK'
<1> SUFFICES ASSUME LimitIInv, [LimitNext]_limitVars PROVE ProgressOK'
  OBVIOUS
<1> USE TimeAssumption
<1> DEFINE Fine(v) ==
        /\ pc'[v] = "idle" => at'[v] = 1 /\ seen'[v] = <<>>
        /\ pc'[v] = "get" => Len(seen'[v]) = at'[v] - 1
        /\ pc'[v] = "set" => Len(seen'[v]) = Len(Limits)
        /\ pc'[v] # "idle" =>
               client'[v] \in Clients /\ time'[v] <= now' /\ now' < time'[v] + Minute
        /\ \A i \in DOMAIN seen'[v] : i \in Indices /\ seen'[v][i] < Limits[i].max
<1>0. LimitTypeOK /\ ProgressOK /\ CountsOK
  BY DEF LimitIInv
<1>s. ASSUME \A v \in Workers : Fine(v) PROVE ProgressOK'
  BY <1>s DEF ProgressOK
<1>k. ASSUME NEW v \in Workers, WorkerKept(v), UNCHANGED <<now>>
      PROVE  Fine(v)
  <2> QED BY <1>0, <1>k DEF ProgressOK, WorkerKept
<1>e. ASSUME NEW v \in Workers, Ended(v) PROVE Fine(v)
  BY <1>e DEF Ended
<1>o. ASSUME NEW w \in Workers, OthersKept(w), Fine(w), UNCHANGED <<now>>
      PROVE  ProgressOK'
  <2>1. ASSUME NEW v \in Workers PROVE Fine(v)
    <3>1. CASE v = w
      BY <1>o, <3>1
    <3>2. CASE v # w
      <4>1. WorkerKept(v)
        BY <1>o, <3>2 DEF OthersKept
      <4> QED BY <1>k, <1>o, <4>1
    <3> QED BY <3>1, <3>2
  <2> QED BY <1>s, <2>1
<1>1. ASSUME NEW w \in Workers, NEW request \in Requests, Arrive(w, request)
      PROVE  ProgressOK'
  <2>1. /\ OthersKept(w) /\ UNCHANGED <<now>>
        /\ pc[w] = "idle" /\ pc'[w] = "get" /\ client'[w] \in Clients /\ time'[w] = now
        /\ at'[w] = at[w] /\ seen'[w] = seen[w]
    BY <1>0, <1>1, ArriveEffect
  <2>2. at[w] = 1 /\ seen[w] = <<>> /\ now \in Nat
    BY <1>0, <2>1 DEF ProgressOK, LimitTypeOK
  <2>3. Fine(w)
    BY <2>1, <2>2
  <2> QED BY <1>o, <2>1, <2>3
<1>2. ASSUME NEW w \in Workers, GetCounter(w) PROVE ProgressOK'
  <2> DEFINE i == at[w]
             count == Count(Key(Limits[i], client[w], time[w]))
  <2>1. pc[w] = "get" /\ OthersKept(w) /\ i \in Indices /\ count \in Nat
        /\ UNCHANGED <<now>>
    BY <1>0, <1>2, ReadEffect
  <2>2. CASE Ended(w)
    BY <1>e, <1>o, <2>1, <2>2
  <2>3. CASE ~Ended(w)
    <3>1. /\ count < Limits[i].max
          /\ seen'[w] = Append(seen[w], count)
          /\ i = Len(Limits) => at'[w] = 1 /\ pc'[w] = "set"
          /\ i # Len(Limits) => at'[w] = i + 1 /\ pc'[w] = "get"
          /\ client'[w] = client[w] /\ time'[w] = time[w]
      BY <1>0, <1>2, <2>3, ReadEffect
    <3>3. /\ seen[w] \in Seq(Nat) /\ Len(seen[w]) = i - 1 /\ i \in Nat
          /\ client[w] \in Clients /\ time[w] <= now /\ now < time[w] + Minute
          /\ \A j \in DOMAIN seen[w] : j \in Indices /\ seen[w][j] < Limits[j].max
      BY <1>0, <2>1 DEF LimitTypeOK, ProgressOK, Indices
    <3> HIDE DEF i, count
    <3>4. /\ Len(seen'[w]) = i
          /\ \A j \in DOMAIN seen'[w] : \/ j \in DOMAIN seen[w] /\ seen'[w][j] = seen[w][j]
                                        \/ j = i /\ seen'[w][j] = count
      BY <2>1, <3>1, <3>3
    <3>5. \A j \in DOMAIN seen'[w] : j \in Indices /\ seen'[w][j] < Limits[j].max
      BY <2>1, <3>1, <3>3, <3>4
    <3>6. pc'[w] # "idle" =>
               client'[w] \in Clients /\ time'[w] <= now' /\ now' < time'[w] + Minute
      BY <2>1, <3>1, <3>3
    <3>7. /\ pc'[w] = "get" => Len(seen'[w]) = at'[w] - 1
          /\ pc'[w] = "set" => Len(seen'[w]) = Len(Limits)
          /\ pc'[w] # "idle"
      BY <3>1, <3>3, <3>4
    <3>8. Fine(w)
      BY <3>5, <3>6, <3>7
    <3> QED BY <1>o, <2>1, <3>8
  <2> QED BY <2>2, <2>3
<1>3. ASSUME NEW w \in Workers, SetCounter(w) PROVE ProgressOK'
  <2>1. /\ pc[w] = "set" /\ OthersKept(w) /\ UNCHANGED <<now>>
        /\ at[w] = Len(Limits) => LetThrough(w)
        /\ at[w] # Len(Limits) =>
               /\ at'[w] = at[w] + 1 /\ pc'[w] = "set" /\ seen'[w] = seen[w]
               /\ client'[w] = client[w] /\ time'[w] = time[w]
    BY <1>0, <1>3, WriteEffect
  <2>2. CASE at[w] = Len(Limits)
    BY <1>0, <1>e, <1>o, <2>1, <2>2, PassEffect
  <2>3. CASE at[w] # Len(Limits)
    <3>2. Fine(w)
      BY <1>0, <2>1, <2>3 DEF ProgressOK
    <3> QED BY <1>o, <2>1, <3>2
  <2> QED BY <2>2, <2>3
<1>4. ASSUME NEW w \in Workers, CacheFails(w) PROVE ProgressOK'
  <2>1. pc[w] # "idle" /\ LetThrough(w) /\ UNCHANGED <<now>>
    BY <1>4 DEF CacheFails
  <2> QED BY <1>0, <1>e, <1>o, <2>1, PassEffect
<1>5. CASE UNCHANGED limitVars \/ \E w \in Workers : Exempt(w)
  <2>1. UNCHANGED <<now>> /\ \A v \in Workers : WorkerKept(v)
    BY <1>5 DEF limitVars, Exempt, WorkerKept
  <2> QED BY <1>k, <1>s, <2>1
<1>6. CASE ClockTicks
  <2>2. now' = now + 1 /\ now \in Nat
        /\ \A v \in Workers : WorkerKept(v) /\ (pc[v] # "idle" => now' < time[v] + Minute)
    BY <1>0, <1>6, TickEffect DEF LimitTypeOK, WorkerKept
  <2>3. ASSUME NEW v \in Workers PROVE Fine(v)
    <3>1. time[v] \in Nat
      BY <1>0 DEF LimitTypeOK
    <3> QED BY <1>0, <2>2, <3>1 DEF ProgressOK, WorkerKept
  <2> QED BY <1>s, <2>3
<1> QED BY <1>1, <1>2, <1>3, <1>4, <1>5, <1>6 DEF LimitNext, Check

LEMMA PastKept == LimitIInv /\ [LimitNext]_limitVars => PastOK'
<1> SUFFICES ASSUME LimitIInv, [LimitNext]_limitVars PROVE PastOK'
  OBVIOUS
<1>0. LimitTypeOK /\ ProgressOK /\ PastOK
  BY DEF LimitIInv
<1>1. ASSUME NEW w \in Workers, pc[w] # "idle", LetThrough(w), now' = now PROVE PastOK'
  <2> SUFFICES ASSUME NEW c \in Clients, NEW j \in DOMAIN through'[c]
               PROVE  through'[c][j] <= now'
    BY DEF PastOK
  <2> DEFINE q == through[c]
             x == time[w]
  <2>1. x \in Times /\ x <= now /\ (through'[c] = q \/ through'[c] = Append(q, x))
    BY <1>0, <1>1, PassEffect
  <2>2. q \in Seq(Times) /\ \A i \in DOMAIN q : q[i] <= now
    BY <1>0 DEF LimitTypeOK, PastOK, Times
  <2> HIDE DEF q, x
  <2>3. \A i \in DOMAIN Append(q, x) : Append(q, x)[i] <= now
    BY <2>1, <2>2
  <2> QED BY <1>1, <2>1, <2>2, <2>3
<1>2. ASSUME NEW w \in Workers, SetCounter(w) PROVE PastOK'
  <2>1. CASE at[w] = Len(Limits)
    BY <1>1, <1>2, <2>1 DEF SetCounter
  <2>2. CASE at[w] # Len(Limits)
    BY <1>0, <1>2, <2>2 DEF SetCounter, PastOK
  <2> QED BY <2>1, <2>2
<1>3. ASSUME NEW w \in Workers, CacheFails(w) PROVE PastOK'
  BY <1>1, <1>3 DEF CacheFails
<1>4. CASE through' = through /\ now' = now
  BY <1>0, <1>4 DEF PastOK
<1>5. CASE ClockTicks
  <2>1. now \in Nat /\ now' = now + 1 /\ through' = through
    BY <1>0, <1>5, TickEffect DEF LimitTypeOK
  <2>2. \A c \in Clients : \A j \in DOMAIN through[c] :
            through[c][j] \in Nat /\ through[c][j] <= now
    <3> SUFFICES ASSUME NEW c \in Clients PROVE \A j \in DOMAIN through[c] :
                     through[c][j] \in Nat /\ through[c][j] <= now
      OBVIOUS
    <3>1. through[c] \in Seq(0..MaxTime)
      BY <1>0 DEF LimitTypeOK
    <3>2. \A j \in DOMAIN through[c] : through[c][j] \in 0..MaxTime
      BY <3>1, SeqElements
    <3> QED BY <1>0, <3>2 DEF PastOK
  <2>3. ASSUME NEW c \in Clients, NEW j \in DOMAIN through'[c]
        PROVE  through'[c][j] <= now'
    <3> DEFINE x == through[c][j]
    <3>1. x \in Nat /\ x <= now
      BY <2>1, <2>2
    <3> HIDE DEF x
    <3>2. x <= now'
      BY ONLY <2>1, <3>1
    <3> QED BY <2>1, <3>2 DEF x
  <2> QED BY <2>3 DEF PastOK
<1> QED BY <1>2, <1>3, <1>4, <1>5
        DEF LimitNext, Check, Exempt, Arrive, GetCounter, limitVars

-----------------------------------------------------------------------------
(* The counters stay behind the requests that have arrived.                *)

RoomFor(p, a, n, i, r) == n + Cardinality(UnwrittenIn(p, a, i)) <= r

\* No step takes the room that a count had.
LEMMA RoomKept ==
    ASSUME NEW p, NEW a, NEW p2, NEW a2, NEW w \in Workers, NEW r \in Nat,
           \A v \in Workers \ {w} : p2[v] = p[v] /\ a2[v] = a[v],
           NEW n \in Nat, NEW i, RoomFor(p, a, n, i, r)
    PROVE  /\ RoomFor(p2, a2, n, i, r + 1)
           /\ p2[w] = "idle" => RoomFor(p2, a2, n, i, r)
           /\ w \in UnwrittenIn(p, a, i) => RoomFor(p2, a2, n, i, r)
           /\ w \in UnwrittenIn(p, a, i) /\ w \notin UnwrittenIn(p2, a2, i) =>
                  RoomFor(p2, a2, n + 1, i, r)
           /\ w \notin UnwrittenIn(p2, a2, i) => RoomFor(p2, a2, n, i, r)
<1> DEFINE U == UnwrittenIn(p, a, i)
           V == UnwrittenIn(p2, a2, i)
<1>1. U \in SUBSET Workers /\ V \in SUBSET Workers
  BY DEF UnwrittenIn
<1>2. V \ {w} = U \ {w}
  BY DEF UnwrittenIn
<1>3. p2[w] = "idle" => w \notin V
  BY DEF UnwrittenIn
<1>4. n + Cardinality(U) <= r
  BY DEF RoomFor
<1>5. /\ Cardinality(U) \in Nat /\ Cardinality(V) \in Nat /\ Cardinality(U \ {w}) \in Nat
      /\ w \in U => Cardinality(U) = Cardinality(U \ {w}) + 1
      /\ w \notin U => Cardinality(U) = Cardinality(U \ {w})
      /\ w \in V => Cardinality(V) = Cardinality(U \ {w}) + 1
      /\ w \notin V => Cardinality(V) = Cardinality(U \ {w})
  <2>1. w \in U => Cardinality(U) = Cardinality(U \ {w}) + 1
    BY <1>1, WorkersOneLess
  <2>2. w \in V => Cardinality(V) = Cardinality(V \ {w}) + 1
    BY <1>1, WorkersOneLess
  <2>3. (w \notin U => U = U \ {w}) /\ (w \notin V => V = V \ {w})
    OBVIOUS
  <2>4. Cardinality(U) \in Nat /\ Cardinality(V) \in Nat /\ Cardinality(U \ {w}) \in Nat
    BY <1>1, WorkersFinite
  <2> HIDE DEF U, V
  <2> QED BY <1>2, <2>1, <2>2, <2>3, <2>4
<1>6. \A m : RoomFor(p2, a2, m, i, r) <=> m + Cardinality(V) <= r
  BY DEF RoomFor
<1>7. RoomFor(p2, a2, n, i, r + 1) <=> n + Cardinality(V) <= r + 1
  BY DEF RoomFor
<1> HIDE DEF U, V
<1>8. /\ n + Cardinality(V) <= r + 1
      /\ w \in U => n + Cardinality(V) <= r
      /\ w \notin V => n + Cardinality(V) <= r
      /\ w \in U /\ w \notin V => n + 1 + Cardinality(V) <= r
  BY <1>4, <1>5
<1> QED BY <1>3, <1>6, <1>7, <1>8 DEF U, V

LEMMA CountsKept == LimitIInv /\ [LimitNext]_limitVars => CountsOK'
<1> SUFFICES ASSUME LimitIInv, [LimitNext]_limitVars PROVE CountsOK'
  OBVIOUS
<1> DEFINE Room(n, i) == RoomFor(pc, at, n, i, arrived)
           Room2(n, i) == RoomFor(pc', at', n, i, arrived')
<1>0. LimitTypeOK /\ ProgressOK /\ CountsOK /\ LimitTypeOK'
  BY TypeKept DEF LimitIInv
<1>c. /\ \A i \in Indices : Room(0, i)
      /\ \A key \in DOMAIN cache : \E i \in Indices, c \in Clients, t \in Times :
             key = Key(Limits[i], c, t) /\ Room(cache[key].count, i)
      /\ \A w \in Workers : \A i \in DOMAIN seen[w] : Room(seen[w][i], i)
  <2>1. \A i \in Indices : Cardinality(UnwrittenIn(pc, at, i)) \in Nat
    BY WorkersFinite DEF UnwrittenIn
  <2>2. \A i \in Indices : Room(0, i)
    BY <1>0, <2>1 DEF CountsOK, RoomFor
  <2> QED BY <1>0, <2>2 DEF CountsOK, RoomFor
<1>t. /\ arrived \in Nat /\ \A key \in DOMAIN cache : cache[key].count \in Nat
      /\ \A w \in Workers : seen[w] \in Seq(Nat)
      /\ \A w \in Workers : \A i \in DOMAIN seen[w] : i \in Indices /\ seen[w][i] \in Nat
  BY <1>0 DEF LimitTypeOK, ProgressOK
<1>s. ASSUME \A i \in Indices : Room2(0, i),
             \A key \in DOMAIN cache' : \E i \in Indices, c \in Clients, t \in Times :
                 key = Key(Limits[i], c, t) /\ Room2(cache'[key].count, i),
             \A w \in Workers : \A i \in DOMAIN seen'[w] : Room2(seen'[w][i], i)
      PROVE  CountsOK'
  <2>2. \A i \in Indices : Cardinality(UnwrittenIn(pc', at', i)) \in Nat
    BY WorkersFinite DEF UnwrittenIn
  <2>3. \A i \in Indices : Cardinality(UnwrittenIn(pc', at', i)) <= arrived'
    BY <1>s, <2>2 DEF RoomFor
  <2> QED BY <1>s, <2>3 DEF CountsOK, RoomFor
\* Steps that read and write nothing.
<1>q. ASSUME \A n \in Nat : \A i \in Indices : Room(n, i) => Room2(n, i),
             \A key \in DOMAIN cache' : key \in DOMAIN cache /\ cache'[key] = cache[key],
             \A v \in Workers : seen'[v] = seen[v] \/ seen'[v] = <<>>
      PROVE  CountsOK'
  <2>1. \A i \in Indices : Room2(0, i)
    BY <1>c, <1>q
  <2>2. \A key \in DOMAIN cache' : \E i \in Indices, c \in Clients, t \in Times :
            key = Key(Limits[i], c, t) /\ Room2(cache'[key].count, i)
    BY <1>c, <1>q, <1>t
  <2>3. \A w \in Workers : \A i \in DOMAIN seen'[w] : Room2(seen'[w][i], i)
    BY <1>c, <1>q, <1>t
  <2> HIDE DEF Room2
  <2> QED BY <1>q, <1>s, <2>1, <2>2, <2>3
<1>e. ASSUME NEW w \in Workers, OthersKept(w), pc'[w] = "idle", arrived' = arrived,
             NEW n \in Nat, NEW i, Room(n, i)
      PROVE  Room2(n, i)
  <2>1. \A v \in Workers \ {w} : pc'[v] = pc[v] /\ at'[v] = at[v]
    BY <1>e DEF OthersKept, WorkerKept
  <2>2. RoomFor(pc', at', n, i, arrived)
    BY <1>e, <1>t, <2>1, RoomKept
  <2> QED BY <1>e, <2>2
<1>1. ASSUME NEW w \in Workers, NEW request \in Requests, Arrive(w, request)
      PROVE  CountsOK'
  <2>1. /\ OthersKept(w) /\ seen'[w] = seen[w] /\ arrived' = arrived + 1
        /\ UNCHANGED <<cache>>
    BY <1>0, <1>1, ArriveEffect
  <2>2. \A v \in Workers \ {w} : pc'[v] = pc[v] /\ at'[v] = at[v] /\ seen'[v] = seen[v]
    BY <2>1 DEF OthersKept, WorkerKept
  <2>3. ASSUME NEW n \in Nat, NEW i \in Indices, Room(n, i) PROVE Room2(n, i)
    <3>1. RoomFor(pc', at', n, i, arrived + 1)
      <4>1. arrived \in Nat
        BY <1>t
      <4>2. \A v \in Workers \ {w} : pc'[v] = pc[v] /\ at'[v] = at[v]
        BY <2>2
      <4> QED BY <2>3, <4>1, <4>2, RoomKept
    <3> QED BY <2>1, <3>1
  <2> HIDE DEF Room, Room2
  <2> QED BY <1>q, <2>1, <2>2, <2>3
<1>2. ASSUME NEW w \in Workers, GetCounter(w) PROVE CountsOK'
  <2> DEFINE k == at[w]
             key == Key(Limits[k], client[w], time[w])
             count == Count(key)
  <2>1. pc[w] = "get" /\ OthersKept(w) /\ k \in Indices /\ count \in Nat
        /\ UNCHANGED <<cache, arrived>>
    BY <1>0, <1>2, ReadEffect
  <2>2. \A v \in Workers \ {w} : pc'[v] = pc[v] /\ at'[v] = at[v] /\ seen'[v] = seen[v]
    BY <2>1 DEF OthersKept, WorkerKept
  <2>3. CASE Ended(w)
    <3>1. pc'[w] = "idle" /\ seen'[w] = <<>>
      BY <2>3 DEF Ended
    <3>2. \A n \in Nat : \A i \in Indices : Room(n, i) => Room2(n, i)
      BY <1>e, <2>1, <3>1
    <3> HIDE DEF Room, Room2
    <3> QED BY <1>q, <2>1, <2>2, <3>1, <3>2
  <2>4. CASE ~Ended(w)
    <3>1. seen'[w] = Append(seen[w], count) /\ Len(seen[w]) = k - 1 /\ k \in Nat
      BY <1>0, <1>2, <2>1, <2>4, ReadEffect DEF ProgressOK, Indices
    <3>2. \A i \in Indices : w \in UnwrittenIn(pc, at, i)
      BY <2>1 DEF UnwrittenIn
    <3>3. ASSUME NEW n \in Nat, NEW i \in Indices, Room(n, i) PROVE Room2(n, i)
      <4>1. RoomFor(pc', at', n, i, arrived)
        BY <1>t, <2>2, <3>2, <3>3, RoomKept
      <4> QED BY <2>1, <4>1
    <3>4. Room(count, k)
      <4>1. CASE count = 0
        BY <1>c, <2>1, <4>1
      <4>2. CASE count # 0
        <5>1. key \in DOMAIN cache /\ count = cache[key].count
          BY <4>2 DEF Count
        <5>2. PICK i \in Indices, c \in Clients, t \in Times :
                  key = Key(Limits[i], c, t) /\ Room(cache[key].count, i)
          BY <1>c, <5>1
        <5>3. Limits[i].name = Limits[k].name
          BY <5>2 DEF Key
        <5>5. \A x, y \in Indices : Limits[x].name = Limits[y].name => x = y
          BY LimitsType
        <5>6. i = k
          BY <2>1, <5>3, <5>5
        <5> QED BY <5>1, <5>2, <5>6
      <4> QED BY <4>1, <4>2
    <3> HIDE DEF Room, Room2, k, key, count
    <3>5. \A i \in Indices : Room2(0, i)
      BY <1>c, <3>3
    <3>6. \A x \in DOMAIN cache' : \E i \in Indices, c \in Clients, t \in Times :
              x = Key(Limits[i], c, t) /\ Room2(cache'[x].count, i)
      BY <1>c, <1>t, <2>1, <3>3
    <3>7. ASSUME NEW v \in Workers, NEW i \in DOMAIN seen'[v] PROVE Room2(seen'[v][i], i)
      <4>1. CASE v # w
        BY <1>c, <1>t, <2>2, <3>3, <4>1
      <4>2. CASE v = w
        <5>1. \/ i \in DOMAIN seen[w] /\ seen'[w][i] = seen[w][i]
              \/ i = k /\ seen'[w][i] = count
          BY <1>t, <2>1, <3>1, <4>2
        <5> QED BY <1>c, <1>t, <2>1, <3>3, <3>4, <4>2, <5>1
      <4> QED BY <4>1, <4>2
    <3> QED BY <1>s, <2>1, <3>5, <3>6, <3>7
  <2> QED BY <2>3, <2>4
<1>3. ASSUME NEW w \in Workers, SetCounter(w) PROVE CountsOK'
  <2> DEFINE k == at[w]
             key == Key(Limits[k], client[w], time[w])
             n1 == seen[w][k]
  <2>1. /\ pc[w] = "set" /\ OthersKept(w) /\ k \in Indices
        /\ DOMAIN cache' = DOMAIN cache \union {key} /\ cache'[key] = Entry(w)
        /\ \A x \in DOMAIN cache : x # key => cache'[x] = cache[x]
        /\ UNCHANGED <<arrived>>
    BY <1>0, <1>3, WriteEffect
  <2>2. \A v \in Workers \ {w} : pc'[v] = pc[v] /\ at'[v] = at[v] /\ seen'[v] = seen[v]
    BY <2>1 DEF OthersKept, WorkerKept
  <2>3. k \in DOMAIN seen[w] /\ n1 \in Nat /\ Entry(w).count = n1 + 1
    BY <1>0, <2>1, EntryType
  <2>4. client[w] \in Clients /\ time[w] \in Times
    BY <1>0, <2>1 DEF ProgressOK, LimitTypeOK, Times
  <2>5. /\ seen'[w] = seen[w] \/ seen'[w] = <<>>
        /\ pc'[w] = "idle" \/ (pc'[w] = "set" /\ at'[w] = k + 1)
    <3>1. CASE k = Len(Limits)
      BY <1>0, <1>3, <2>1, <3>1, PassEffect, WriteEffect DEF Ended
    <3>2. CASE k # Len(Limits)
      BY <1>0, <1>3, <3>2, WriteEffect
    <3> QED BY <3>1, <3>2
  <2>6. k \in Nat
    BY <2>1 DEF Indices
  <2>7. w \in UnwrittenIn(pc, at, k) /\ w \notin UnwrittenIn(pc', at', k)
    BY <2>1, <2>5, <2>6 DEF UnwrittenIn
  <2>8. ASSUME NEW n \in Nat, NEW i \in Indices, Room(n, i) PROVE Room2(n, i)
    <3>1. w \in UnwrittenIn(pc, at, i) \/ w \notin UnwrittenIn(pc', at', i)
      BY <2>1, <2>5, <2>6, <2>8 DEF UnwrittenIn, Indices
    <3>2. RoomFor(pc', at', n, i, arrived)
      BY <1>t, <2>2, <2>8, <3>1, RoomKept
    <3> QED BY <2>1, <3>2
  <2>9. Room2(n1 + 1, k)
    <3>1. Room(n1, k)
      BY <1>c, <2>3
    <3>2. RoomFor(pc', at', n1 + 1, k, arrived)
      BY <1>t, <2>2, <2>3, <2>7, <3>1, RoomKept
    <3> QED BY <2>1, <3>2
  <2> HIDE DEF Room, Room2, k, key, n1
  <2>10. \A i \in Indices : Room2(0, i)
    BY <1>c, <2>8
  <2>11. ASSUME NEW x \in DOMAIN cache'
         PROVE  \E i \in Indices, c \in Clients, t \in Times :
                    x = Key(Limits[i], c, t) /\ Room2(cache'[x].count, i)
    <3>1. CASE x = key
      BY <2>1, <2>3, <2>4, <2>9, <3>1 DEF key
    <3>2. CASE x # key
      BY <1>c, <1>t, <2>1, <2>8, <3>2
    <3> QED BY <3>1, <3>2
  <2>12. \A v \in Workers : \A i \in DOMAIN seen'[v] : Room2(seen'[v][i], i)
    BY <1>c, <1>t, <2>2, <2>5, <2>8
  <2> QED BY <1>s, <2>1, <2>10, <2>11, <2>12
<1>4. ASSUME NEW w \in Workers, CacheFails(w) PROVE CountsOK'
  <2>1. OthersKept(w) /\ Ended(w) /\ UNCHANGED <<cache, arrived>>
    BY <1>0, <1>4, PassEffect DEF CacheFails
  <2>2. \A v \in Workers : seen'[v] = seen[v] \/ seen'[v] = <<>>
    BY <2>1 DEF OthersKept, WorkerKept, Ended
  <2>3. pc'[w] = "idle"
    BY <2>1 DEF Ended
  <2>4. \A n \in Nat : \A i \in Indices : Room(n, i) => Room2(n, i)
    BY <1>e, <2>1, <2>3
  <2> HIDE DEF Room, Room2
  <2> QED BY <1>q, <2>1, <2>2, <2>4
<1>5. ASSUME UNCHANGED <<pc, at, seen, arrived>>,
             \A key \in DOMAIN cache' : key \in DOMAIN cache /\ cache'[key] = cache[key]
      PROVE  CountsOK'
  BY <1>5, <1>q
<1>6. CASE ClockTicks
  BY <1>5, <1>6, TickEffect
<1>7. CASE UNCHANGED limitVars
  BY <1>5, <1>7 DEF limitVars
<1>8. ASSUME NEW w \in Workers, Exempt(w) PROVE CountsOK'
  BY <1>0, <1>5, <1>8 DEF Exempt
<1> QED BY <1>1, <1>2, <1>3, <1>4, <1>6, <1>7, <1>8 DEF LimitNext, Check

-----------------------------------------------------------------------------
(* The counters from above.                                                *)

\* What a request's check is to the counters: it goes on being counted, and when
\* it stops being counted its request is let through, at its time.
Continues(w) ==
    \/ /\ \A c \in Clients : through'[c] = through[c]
       /\ pc[w] = "set" => pc'[w] = "set" /\ client'[w] = client[w] /\ time'[w] = time[w]
    \/ pc[w] # "idle" /\ LetThrough(w)

LEMMA CountedStays ==
    ASSUME LimitTypeOK, ProgressOK,
           NEW w \in Workers, OthersKept(w), Continues(w),
           NEW c \in Clients, NEW times, NEW X, w \notin X
    PROVE  HowMany(through[c], times)
               + Cardinality(CountingIn(pc, client, time, c, times) \ X)
           <= HowMany(through'[c], times)
               + Cardinality(CountingIn(pc', client', time', c, times) \ X)
<1> DEFINE A == CountingIn(pc, client, time, c, times) \ X
           B == CountingIn(pc', client', time', c, times) \ X
           q == through[c]
<1>1. A \in SUBSET Workers /\ B \in SUBSET Workers
  BY DEF CountingIn
<1>2. \A v \in Workers \ {w} : v \in A <=> v \in B
  BY DEF CountingIn, OthersKept, WorkerKept
<1>3. q \in Seq(Times)
  BY DEF LimitTypeOK, Times
<1>4. HowMany(q, times) \in Nat /\ Cardinality(A) \in Nat /\ Cardinality(B) \in Nat
  BY <1>1, <1>3, HowManyType, WorkersFinite
<1>5. ASSUME through'[c] = q, A \subseteq B
      PROVE  HowMany(q, times) + Cardinality(A) <= HowMany(through'[c], times) + Cardinality(B)
  <2>1. Cardinality(A) <= Cardinality(B)
    BY <1>1, <1>5, WorkersMore
  <2> HIDE DEF A, B, q
  <2> QED BY <1>4, <1>5, <2>1
<1>6. CASE /\ \A d \in Clients : through'[d] = through[d]
           /\ pc[w] = "set" =>
                  pc'[w] = "set" /\ client'[w] = client[w] /\ time'[w] = time[w]
  <2>1. w \in A => w \in B
    BY <1>6 DEF CountingIn
  <2>2. A \subseteq B
    BY <1>1, <1>2, <2>1
  <2> QED BY <1>5, <1>6, <2>2
<1>7. CASE pc[w] # "idle" /\ LetThrough(w)
  <2>2. CASE c = client[w]
    <3>1. through'[c] = Append(q, time[w]) /\ time[w] \in Nat
      BY <1>7, <2>2, PassEffect DEF Times
    <3>2. A \subseteq B \union {w} /\ (w \in A => time[w] \in times)
      BY <1>1, <1>2 DEF CountingIn
    <3>3. q \in Seq(Nat)
      <4>1. Times \subseteq Nat
        BY DEF Times
      <4> QED BY <1>3, <4>1, SeqWider
    <3> HIDE DEF A, B, q
    <3>4. HowMany(q, times) + Cardinality(A)
              <= HowMany(Append(q, time[w]), times) + Cardinality(B)
      BY <1>1, <3>1, <3>2, <3>3, StillCounted
    <3> QED BY <3>1, <3>4 DEF A, B, q
  <2>3. CASE c # client[w]
    <3>1. through'[c] = q
      BY <1>7, <2>3, PassEffect
    <3>2. w \notin A
      BY <2>3 DEF CountingIn
    <3>3. A \subseteq B
      BY <1>1, <1>2, <3>2
    <3> QED BY <1>5, <3>1, <3>3
  <2> QED BY <2>2, <2>3
<1> QED BY <1>6, <1>7 DEF Continues

\* Every step of a worker continues its check.
LEMMA StepContinues ==
    ASSUME LimitTypeOK, ProgressOK, NEW w \in Workers,
           Check(w) \/ \E request \in Requests : Arrive(w, request)
    PROVE  Continues(w) /\ OthersKept(w) /\ UNCHANGED <<now>>
<1>1. ASSUME NEW request \in Requests, Arrive(w, request)
      PROVE  Continues(w) /\ OthersKept(w) /\ UNCHANGED <<now>>
  BY <1>1, ArriveEffect DEF Continues
<1>2. CASE GetCounter(w)
  <2>1. pc[w] = "get" /\ OthersKept(w) /\ UNCHANGED <<now, through>>
    BY <1>2, ReadEffect
  <2> QED BY <2>1 DEF Continues
<1>3. CASE SetCounter(w)
  <2>1. pc[w] = "set" /\ OthersKept(w) /\ UNCHANGED <<now>>
    BY <1>3, WriteEffect
  <2>2. Continues(w)
    BY <1>3, <2>1, WriteEffect DEF Continues
  <2> QED BY <2>1, <2>2
<1>4. CASE CacheFails(w)
  BY <1>4, PassEffect DEF CacheFails, Continues
<1> QED BY <1>1, <1>2, <1>3, <1>4 DEF Check

LEMMA UpperKept == LimitIInv /\ [LimitNext]_limitVars => UpperOK'
<1> SUFFICES ASSUME LimitIInv, [LimitNext]_limitVars PROVE UpperOK'
  BY DEF UpperOK
<1> DEFINE Sum(c, times, X) == HowMany(through[c], times) +
               Cardinality(CountingIn(pc, client, time, c, times) \ X)
           Sum2(c, times, X) == HowMany(through'[c], times) +
               Cardinality(CountingIn(pc', client', time', c, times) \ X)
           At(i, t) == Together(Limits[i], t)
<1>0. LimitTypeOK /\ ProgressOK /\ CountsOK /\ UpperOK
  BY DEF LimitIInv
<1>n. \A c \in Clients : \A times, X : Sum(c, times, X) \in Nat /\ Sum2(c, times, X) \in Nat
  <2>1. LimitTypeOK'
    BY TypeKept
  <2>2. \A c \in Clients : through[c] \in Seq(Times) /\ through'[c] \in Seq(Times)
    BY <1>0, <2>1 DEF LimitTypeOK, Times
  <2>3. \A c \in Clients : \A times :
            HowMany(through[c], times) \in Nat /\ HowMany(through'[c], times) \in Nat
    BY <2>2, HowManyType
  <2>4. \A c, times, X :
            /\ Cardinality(CountingIn(pc, client, time, c, times) \ X) \in Nat
            /\ Cardinality(CountingIn(pc', client', time', c, times) \ X) \in Nat
    BY WorkersFinite DEF CountingIn
  <2> SUFFICES ASSUME NEW c \in Clients, NEW times, NEW X
               PROVE  Sum(c, times, X) \in Nat /\ Sum2(c, times, X) \in Nat
    OBVIOUS
  <2>5. HowMany(through[c], times) \in Nat /\ HowMany(through'[c], times) \in Nat
    BY <2>3
  <2>6. /\ Cardinality(CountingIn(pc, client, time, c, times) \ X) \in Nat
        /\ Cardinality(CountingIn(pc', client', time', c, times) \ X) \in Nat
    BY <2>4
  <2> QED BY ONLY <2>5, <2>6
<1>c. /\ \A i \in Indices, c \in Clients, t \in Times :
             LET key == Key(Limits[i], c, t)
             IN  key \in DOMAIN cache => cache[key].count <= Sum(c, At(i, t), {})
      /\ \A w \in Workers : \A i \in DOMAIN seen[w] :
             seen[w][i] <= Sum(client[w], At(i, time[w]), {w})
  <2>1. \A c, times : CountingIn(pc, client, time, c, times) \ {} =
                      CountingIn(pc, client, time, c, times)
    OBVIOUS
  <2> QED BY <1>0, <2>1 DEF UpperOK, CounterBacked, SeenBacked
<1>s. ASSUME \A i \in Indices, c \in Clients, t \in Times :
                 LET key == Key(Limits[i], c, t)
                 IN  key \in DOMAIN cache' => cache'[key].count <= Sum2(c, At(i, t), {}),
             \A w \in Workers : \A i \in DOMAIN seen'[w] :
                 seen'[w][i] <= Sum2(client'[w], At(i, time'[w]), {w})
      PROVE  UpperOK'
  <2>1. \A c, times : CountingIn(pc', client', time', c, times) \ {} =
                      CountingIn(pc', client', time', c, times)
    OBVIOUS
  <2> QED BY <1>s, <2>1 DEF UpperOK, CounterBacked, SeenBacked
<1>t. /\ \A key \in DOMAIN cache : cache[key].count \in Nat
      /\ \A w \in Workers : seen[w] \in Seq(Nat) /\ time[w] \in Times
      /\ \A w \in Workers : \A i \in DOMAIN seen[w] :
             seen[w][i] \in Nat /\ client[w] \in Clients /\ i \in Indices
  <2>1. \A w \in Workers : seen[w] \in Seq(Nat) /\ time[w] \in Times
    BY <1>0 DEF LimitTypeOK, Times
  <2>2. \A w \in Workers : \A i \in DOMAIN seen[w] : pc[w] # "idle"
    BY <1>0 DEF ProgressOK
  <2> QED BY <1>0, <2>1, <2>2 DEF LimitTypeOK, ProgressOK
<1>1. ASSUME NEW w \in Workers,
             Check(w) \/ \E request \in Requests : Arrive(w, request)
      PROVE  UpperOK'
  <2>1. Continues(w) /\ OthersKept(w)
    BY <1>0, <1>1, StepContinues
  <2>2. ASSUME NEW c \in Clients, NEW times, NEW X, w \notin X
        PROVE  Sum(c, times, X) <= Sum2(c, times, X)
    BY <1>0, <2>1, <2>2, CountedStays
  <2>3. ASSUME NEW c \in Clients, NEW times, NEW n \in Nat, n <= Sum(c, times, {})
        PROVE  n <= Sum2(c, times, {})
    <3>1. Sum(c, times, {}) <= Sum2(c, times, {})
      BY <2>2
    <3> HIDE DEF Sum, Sum2
    <3> QED BY <1>n, <2>3, <3>1
  <2>4. ASSUME NEW v \in Workers, v # w, NEW i \in DOMAIN seen'[v]
        PROVE  seen'[v][i] <= Sum2(client'[v], At(i, time'[v]), {v})
    <3> DEFINE n == seen[v][i]
               c == client[v]
               times == At(i, time[v])
    <3>1. seen'[v] = seen[v] /\ client'[v] = c /\ time'[v] = time[v]
      BY <2>1, <2>4 DEF OthersKept, WorkerKept
    <3>2. n \in Nat /\ c \in Clients /\ n <= Sum(c, times, {v})
      BY <1>c, <1>t, <2>4, <3>1
    <3>3. Sum(c, times, {v}) <= Sum2(c, times, {v})
      BY <2>2, <2>4, <3>2
    <3>4. n <= Sum2(c, times, {v})
      <4> HIDE DEF n, c, times, Sum, Sum2
      <4> QED BY <1>n, <3>2, <3>3
    <3> QED BY <3>1, <3>4
  \* What w has read stands for requests and checks of others.
  <2>5. ASSUME NEW c \in Clients, NEW times, through'[c] = through[c]
        PROVE  Sum2(c, times, {w}) = Sum(c, times, {w})
    <3>1. CountingIn(pc', client', time', c, times) \ {w} =
          CountingIn(pc, client, time, c, times) \ {w}
      BY <2>1 DEF OthersKept, WorkerKept, CountingIn
    <3> QED BY <2>5, <3>1
  <2>6. ASSUME cache' = cache, seen'[w] = <<>> PROVE UpperOK'
    <3>1. \A i \in Indices, c \in Clients, t \in Times :
              LET key == Key(Limits[i], c, t)
              IN  key \in DOMAIN cache' => cache'[key].count <= Sum2(c, At(i, t), {})
      <4> HIDE DEF Sum, Sum2, At
      <4> QED BY <1>c, <1>t, <2>3, <2>6
    <3>2. \A v \in Workers : \A i \in DOMAIN seen'[v] :
              seen'[v][i] <= Sum2(client'[v], At(i, time'[v]), {v})
      <4> HIDE DEF Sum, Sum2, At
      <4> QED BY <2>4, <2>6
    <3> HIDE DEF Sum, Sum2, At
    <3> QED BY <1>s, <3>1, <3>2
  <2>7. ASSUME NEW request \in Requests, Arrive(w, request) PROVE UpperOK'
    <3>1. cache' = cache /\ pc[w] = "idle" /\ seen'[w] = seen[w]
      BY <1>0, <2>7, ArriveEffect
    <3>2. seen[w] = <<>>
      BY <1>0, <3>1 DEF ProgressOK
    <3> QED BY <2>6, <3>1, <3>2
  <2>8. CASE CacheFails(w)
    <3>1. cache' = cache /\ Ended(w)
      BY <1>0, <2>8, PassEffect DEF CacheFails
    <3> QED BY <2>6, <3>1 DEF Ended
  <2>9. CASE GetCounter(w)
    <3> DEFINE k == at[w]
               key == Key(Limits[k], client[w], time[w])
               count == Count(key)
    <3>1. pc[w] = "get" /\ k \in Indices /\ count \in Nat /\ cache' = cache
          /\ through' = through
      BY <1>0, <2>9, ReadEffect
    <3>2. CASE Ended(w)
      BY <2>6, <3>1, <3>2 DEF Ended
    <3>3. CASE ~Ended(w)
      <4>1. /\ seen'[w] = Append(seen[w], count) /\ Len(seen[w]) = k - 1 /\ k \in Nat
            /\ client'[w] = client[w] /\ time'[w] = time[w] /\ client[w] \in Clients
        BY <1>0, <2>9, <3>1, <3>3, ReadEffect DEF ProgressOK, Indices
      <4>2. count <= Sum(client[w], At(k, time[w]), {w})
        <5> DEFINE times == At(k, time[w])
        <5>1. CASE count = 0
          <6>1. Sum(client[w], times, {w}) \in Nat
            <7> HIDE DEF Sum
            <7> QED BY <1>n, <4>1
          <6> HIDE DEF Sum, count
          <6> QED BY <5>1, <6>1
        <5>2. CASE count # 0
          <6>1. key \in DOMAIN cache /\ count = cache[key].count
            BY <5>2 DEF Count
          <6>2. count <= Sum(client[w], times, {})
            <7> HIDE DEF Sum, At
            <7> QED BY <1>c, <1>t, <3>1, <4>1, <6>1
          <6>3. CountingIn(pc, client, time, client[w], times) \ {w} =
                CountingIn(pc, client, time, client[w], times) \ {}
            BY <3>1 DEF CountingIn
          <6> QED BY <6>2, <6>3
        <5> QED BY <5>1, <5>2
      <4>3. \A i \in Indices, c \in Clients, t \in Times :
                LET x == Key(Limits[i], c, t)
                IN  x \in DOMAIN cache' => cache'[x].count <= Sum2(c, At(i, t), {})
        <5> HIDE DEF Sum, Sum2, At
        <5> QED BY <1>c, <1>t, <2>3, <3>1
      <4>4. ASSUME NEW i \in DOMAIN seen'[w]
            PROVE  seen'[w][i] <= Sum2(client'[w], At(i, time'[w]), {w})
        <5> DEFINE times == At(i, time[w])
        <5>1. \/ i \in DOMAIN seen[w] /\ seen'[w][i] = seen[w][i]
              \/ i = k /\ seen'[w][i] = count
          <6> HIDE DEF k, count
          <6> QED BY <1>t, <4>1, <4>4
        <5>2. seen'[w][i] <= Sum(client[w], times, {w})
          <6> HIDE DEF Sum, At, count
          <6> QED BY <1>c, <4>2, <5>1
        <5>3. Sum2(client[w], times, {w}) = Sum(client[w], times, {w})
          BY <2>5, <3>1, <4>1
        <5> HIDE DEF Sum, Sum2, At
        <5> QED BY <4>1, <5>2, <5>3
      <4>5. \A v \in Workers : \A i \in DOMAIN seen'[v] :
                seen'[v][i] <= Sum2(client'[v], At(i, time'[v]), {v})
        <5> HIDE DEF Sum, Sum2, At
        <5> QED BY <2>4, <4>4
      <4> HIDE DEF Sum, Sum2, At
      <4> QED BY <1>s, <4>3, <4>5
    <3> QED BY <3>2, <3>3
  <2>10. CASE SetCounter(w)
    <3> DEFINE k == at[w]
               key == Key(Limits[k], client[w], time[w])
               n == seen[w][k]
               mine == At(k, time[w])
    <3>1. /\ pc[w] = "set" /\ k \in Indices
          /\ DOMAIN cache' = DOMAIN cache \union {key} /\ cache'[key] = Entry(w)
          /\ \A x \in DOMAIN cache : x # key => cache'[x] = cache[x]
      BY <1>0, <2>10, WriteEffect
    <3>2. k \in DOMAIN seen[w] /\ n \in Nat /\ Entry(w).count = n + 1
      BY <1>0, <3>1, EntryType
    <3>3. client[w] \in Clients /\ time[w] \in Times
      BY <1>0, <1>t, <3>1 DEF ProgressOK
    <3>4. n + 1 <= Sum2(client[w], mine, {})
      <4> DEFINE C == CountingIn(pc, client, time, client[w], mine)
                 h == HowMany(through[client[w]], mine)
      <4>1. n <= Sum(client[w], mine, {w})
        <5> HIDE DEF Sum, At
        <5> QED BY <1>c, <3>2
      <4>2. time[w] \in mine
        BY <1>0, <3>3 DEF Together, LimitTypeOK, Times
      <4>3. w \in C /\ C \in SUBSET Workers
        BY <3>1, <4>2 DEF CountingIn
      <4>4. Cardinality(C) = Cardinality(C \ {w}) + 1 /\ Cardinality(C \ {w}) \in Nat
        BY <4>3, WorkersOneLess, WorkersFinite
      <4>5. h \in Nat
        BY <1>0, <3>3, HowManyType DEF LimitTypeOK
      <4>6. C \ {} = C
        OBVIOUS
      <4>7. Sum(client[w], mine, {w}) = h + Cardinality(C \ {w})
            /\ Sum(client[w], mine, {}) = h + Cardinality(C)
        BY <4>6
      <4>8. n + 1 <= Sum(client[w], mine, {})
        <5> HIDE DEF Sum, C, h, n
        <5> QED BY <3>2, <4>1, <4>4, <4>5, <4>7
      <4> HIDE DEF Sum, Sum2, mine, n
      <4> QED BY <2>3, <3>2, <3>3, <4>8
    <3>5. ASSUME NEW i \in Indices, NEW c \in Clients, NEW t \in Times,
                 Key(Limits[i], c, t) \in DOMAIN cache'
          PROVE  cache'[Key(Limits[i], c, t)].count <= Sum2(c, At(i, t), {})
      <4> DEFINE x == Key(Limits[i], c, t)
      <4>1. CASE x = key
        <5>1. Limits[i].name = Limits[k].name /\ c = client[w]
              /\ Window(Limits[i], t) = Window(Limits[k], time[w])
          BY <4>1, SameKey
        <5>3. /\ \A a, b \in Indices : Limits[a].name = Limits[b].name => a = b
              /\ LimitOK(Limits[k])
          BY <3>1, LimitsType
        <5>4. i = k
          BY <3>1, <5>1, <5>3
        <5>5. At(i, t) = mine
          BY <5>1, <5>4 DEF Together
        <5> HIDE DEF Sum2, mine, At, n
        <5> QED BY <3>1, <3>2, <3>4, <4>1, <5>1, <5>5
      <4>2. CASE x # key
        <5>1. x \in DOMAIN cache /\ cache'[x] = cache[x]
          BY <3>1, <3>5, <4>2
        <5> HIDE DEF Sum, Sum2, At
        <5> QED BY <1>c, <1>t, <2>3, <5>1
      <4> QED BY <4>1, <4>2
    <3>6. ASSUME NEW i \in DOMAIN seen'[w]
          PROVE  seen'[w][i] <= Sum2(client'[w], At(i, time'[w]), {w})
      <4>1. CASE k = Len(Limits)
        BY <1>0, <2>10, <3>1, <3>6, <4>1, PassEffect, WriteEffect DEF Ended
      <4>2. CASE k # Len(Limits)
        <5>1. seen'[w] = seen[w] /\ client'[w] = client[w] /\ time'[w] = time[w]
              /\ through' = through
          BY <1>0, <2>10, <4>2, WriteEffect
        <5>2. Sum2(client[w], At(i, time[w]), {w}) = Sum(client[w], At(i, time[w]), {w})
          BY <2>5, <3>3, <5>1
        <5> HIDE DEF Sum, Sum2, At
        <5> QED BY <1>c, <3>6, <5>1, <5>2
      <4> QED BY <4>1, <4>2
    <3>7. \A v \in Workers : \A i \in DOMAIN seen'[v] :
              seen'[v][i] <= Sum2(client'[v], At(i, time'[v]), {v})
      <4> HIDE DEF Sum, Sum2, At
      <4> QED BY <2>4, <3>6
    <3> HIDE DEF Sum, Sum2, At
    <3> QED BY <1>s, <3>5, <3>7
  <2> QED BY <1>1, <2>7, <2>8, <2>9, <2>10 DEF Check
<1>2. ASSUME UNCHANGED <<pc, client, time, seen, through>>,
             \A key \in DOMAIN cache' : key \in DOMAIN cache /\ cache'[key] = cache[key]
      PROVE  UpperOK'
  <2>1. \A c, times, X : Sum2(c, times, X) = Sum(c, times, X)
    BY <1>2
  <2> HIDE DEF Sum, Sum2, At
  <2> QED BY <1>2, <1>c, <1>s, <2>1
<1>3. CASE ClockTicks
  BY <1>2, <1>3, TickEffect
<1>4. CASE UNCHANGED limitVars
  BY <1>2, <1>4 DEF limitVars
<1>5. ASSUME NEW w \in Workers, Exempt(w) PROVE UpperOK'
  BY <1>2, <1>5 DEF Exempt
<1> QED BY <1>1, <1>3, <1>4, <1>5 DEF LimitNext

\* The step of a refusal.
LEMMA RefusalStep ==
    ASSUME LimitTypeOK, ProgressOK, [LimitNext]_limitVars, NEW w \in Workers, Refuses(w)
    PROVE  GetCounter(w) /\ Count(Key(Limits[at[w]], client[w], time[w])) >= Limits[at[w]].max
<1>0. pc[w] # "idle" /\ pc'[w] = "idle" /\ outcome'[w] = "refused"
  BY DEF Refuses
<1>1. ASSUME NEW v \in Workers, Check(v) \/ \E request \in Requests : Arrive(v, request)
      PROVE  v = w
  <2>1. OthersKept(v)
    BY <1>1, StepContinues
  <2> QED BY <1>0, <2>1 DEF OthersKept, WorkerKept
<1>2. ~LetThrough(w)
  BY <1>0 DEF LetThrough, End, LimitTypeOK
<1>3. ~Exempt(w) /\ ~ClockTicks /\ ~UNCHANGED limitVars
      /\ \A v \in Workers : ~Exempt(v)
  BY <1>0 DEF Exempt, ClockTicks, limitVars
<1>4. Check(w) \/ \E request \in Requests : Arrive(w, request)
  BY <1>1, <1>3 DEF LimitNext
<1>5. ~SetCounter(w) /\ ~CacheFails(w)
  BY <1>0, <1>2 DEF SetCounter, CacheFails
<1>6. \A request \in Requests : ~Arrive(w, request)
  BY <1>0 DEF Arrive
<1>7. GetCounter(w)
  BY <1>4, <1>5, <1>6 DEF Check
<1>8. Ended(w)
  <2>1. pc'[w] = "idle"
    BY <1>0
  <2> QED BY <1>7, <2>1, ReadEffect
<1>9. AtLimit(Count(Key(Limits[at[w]], client[w], time[w])), Limits[at[w]])
  BY <1>0, <1>7 DEF GetCounter, LimitTypeOK
<1> QED BY <1>7, <1>9 DEF AtLimit

LEMMA CountedTogether ==
    ASSUME LimitTypeOK, NEW i \in Indices, NEW t \in Times
    PROVE  Together(Limits[i], t) \subseteq Around(Limits[i], t)
<1> DEFINE limit == Limits[i]
           m == limit.span
<1>1. LimitOK(limit)
  BY LimitsType
<1>2. m \in Nat \ {0}
  BY <1>1 DEF LimitOK
<1>3. ASSUME NEW u \in Together(limit, t) PROVE u \in Around(limit, t)
  <2>1. u \in Times /\ u \div m = t \div m
    BY <1>2, <1>3 DEF Together, Window, Times
  <2>2. u \in Nat /\ t \in Nat
    BY <2>1, TimeAssumption DEF Times
  <2>3. u < t + m /\ t < u + m
    BY ONLY <1>2, <2>1, <2>2, OneWindow
  <2> QED BY <1>2, <2>1, <2>3 DEF Around, Times
<1> QED BY <1>3

LEMMA ShareOfRefused ==
    ASSUME LimitIInv, NEW w \in Workers, pc[w] = "get",
           Count(Key(Limits[at[w]], client[w], time[w])) >= Limits[at[w]].max
    PROVE  HadItsShare(w)
<1> DEFINE i == at[w]
           limit == Limits[i]
           c == client[w]
           t == time[w]
           key == Key(limit, c, t)
           recent == Around(limit, t)
           same == Together(limit, t)
           C == CountingIn(pc, client, time, c, same)
           D == CountingIn(pc, client, time, c, recent)
           q == through[c]
<1>0. LimitTypeOK /\ ProgressOK /\ UpperOK
  BY DEF LimitIInv
<1>1. i \in Indices /\ c \in Clients /\ t \in Times /\ q \in Seq(Times)
  BY <1>0 DEF LimitTypeOK, ProgressOK, Indices, Times
<1>2. LimitOK(limit) /\ DOMAIN Limits = Indices
  BY <1>0, <1>1, LimitsType DEF LimitTypeOK
<1>3. limit.max \in Nat /\ limit \in Range(Limits)
  BY <1>1, <1>2 DEF LimitOK, Range
<1>4. same \subseteq recent
  BY <1>0, <1>1, CountedTogether
<1>5. HowMany(q, same) <= HowMany(q, recent)
      /\ HowMany(q, same) \in Nat /\ HowMany(q, recent) \in Nat
  <2>1. \A j \in DOMAIN q : q[j] \in same => q[j] \in recent
    BY <1>4
  <2> HIDE DEF q, same, recent
  <2> QED BY <1>1, <2>1, HowManyLess, HowManyType
<1>6. Cardinality(C) <= Cardinality(D) /\ Cardinality(C) \in Nat /\ Cardinality(D) \in Nat
  <2>1. C \subseteq D /\ C \in SUBSET Workers /\ D \in SUBSET Workers
    BY <1>4 DEF CountingIn
  <2> HIDE DEF C, D
  <2> QED BY <2>1, WorkersMore, WorkersFinite
<1>7. Number(c, recent) = HowMany(q, recent) /\ BeingCounted(c, recent) = Cardinality(D)
  BY DEF Number, BeingCounted, HowMany, CountingIn
<1>8. Count(key) = 0 \/ Count(key) <= HowMany(q, same) + Cardinality(C)
  BY <1>0, <1>1 DEF Count, UpperOK, CounterBacked
<1>9. Number(c, recent) + BeingCounted(c, recent) >= limit.max
  <2>1. Count(key) \in Nat /\ Count(key) >= limit.max
    BY <1>0, CountType
  <2> HIDE DEF limit, C, D, q, same, recent, key, c
  <2> QED BY <1>3, <1>5, <1>6, <1>7, <1>8, <2>1
<1> QED BY <1>3, <1>9 DEF HadItsShare

-----------------------------------------------------------------------------
(* The counters from below.                                                *)

\* While a request may still be joined by others, its counter lives.
LEMMA KeptLongEnough ==
    ASSUME LimitTypeOK, NEW i \in Indices, NEW t \in Times, NEW u \in Together(Limits[i], t),
           NEW n \in Nat, n < t + Minute
    PROVE  n < u + Limits[i].ttl
<1> DEFINE limit == Limits[i]
           m == limit.span
<1>1. LimitOK(limit)
  BY LimitsType
<1>2. t \in Nat /\ u \in Nat
  BY DEF Together, Times
<1>3. m \in Nat \ {0} /\ limit.ttl = m + m /\ Minute <= m
  BY <1>1 DEF LimitOK
<1>4. u \div m = t \div m
  BY <1>3 DEF Together, Window
<1>5. t < u + m
  BY ONLY <1>2, <1>3, <1>4, OneWindow
<1> HIDE DEF m, limit
<1>6. n < u + limit.ttl
  BY <1>2, <1>3, <1>5, TimeAssumption
<1> QED BY <1>6 DEF limit

CountersKept(c) == \A i \in Indices, t \in Times :
    LET key == Key(Limits[i], c, t)
    IN  key \in DOMAIN cache => key \in DOMAIN cache' /\ cache'[key] = cache[key]

\* What leaves a client's counters and its requests alone, leaves what they say.
LEMMA KeptFrame ==
    ASSUME NEW c \in Clients, AllKept(c), GotItsLimit(c), UNCHANGED <<now>>,
           through'[c] = through[c], CountersKept(c)
    PROVE  AllKept(c)' /\ GotItsLimit(c)'
<1>2. GotItsLimit(c)'
  BY DEF GotItsLimit
<1>3. ASSUME NEW i \in Indices, NEW t \in Times, NEW j \in DOMAIN through[c],
             now < t + Minute, through[c][j] \in Together(Limits[i], t)
      PROVE  LET key == Key(Limits[i], c, t)
                 times == Together(Limits[i], t)
             IN  /\ key \in DOMAIN cache'
                 /\ cache'[key].expires >= through[c][j] + Limits[i].ttl
                 /\ cache'[key].count >= HowMany(through[c], times)
  <2> DEFINE key == Key(Limits[i], c, t)
  <2>1. /\ key \in DOMAIN cache
        /\ cache[key].expires >= through[c][j] + Limits[i].ttl
        /\ cache[key].count >= HowMany(through[c], Together(Limits[i], t))
    BY <1>3 DEF AllKept, KeptFor
  <2>2. key \in DOMAIN cache' /\ cache'[key] = cache[key]
    BY <2>1 DEF CountersKept
  <2> QED BY <2>1, <2>2
<1>4. AllKept(c)'
  BY <1>3 DEF AllKept, KeptFor
<1> QED BY <1>2, <1>4

LEMMA CheckFrame ==
    ASSUME LimitTypeOK, ProgressOK, NEW v \in Workers, NEW c \in Clients, Busy(v, c),
           CheckWell(v), WorkerKept(v), UNCHANGED <<now>>,
           through'[c] = through[c], CountersKept(c)
    PROVE  CheckWell(v)'
<1>2. /\ pc'[v] = pc[v] /\ client'[v] = c /\ client[v] = c /\ time'[v] = time[v]
      /\ at'[v] = at[v] /\ seen'[v] = seen[v]
  BY DEF WorkerKept, Busy
<1>3. ASSUME NEW i \in DOMAIN seen'[v] PROVE ReadAll(v, i)'
  <2>1. ReadAll(v, i)
    BY <1>2, <1>3 DEF CheckWell
  <2> QED BY <1>2, <2>1 DEF ReadAll
<1>4. ASSUME pc'[v] = "set", NEW i \in 1..(at'[v] - 1) PROVE HasWritten(v, i)'
  <2>1. HasWritten(v, i)
    BY <1>2, <1>4 DEF CheckWell
  <2>2. i \in Indices /\ time[v] \in Times
    <3>1. at[v] \in 1..Len(Limits) /\ time[v] \in Times
      BY DEF LimitTypeOK, Times
    <3> QED BY <1>2, <1>4, <3>1 DEF Indices
  <2> DEFINE key == Key(Limits[i], c, time[v])
  <2>3. key \in DOMAIN cache' /\ cache'[key] = cache[key]
    BY <1>2, <2>1, <2>2 DEF HasWritten, CountersKept
  <2> QED BY <1>2, <2>1, <2>3 DEF HasWritten
<1> QED BY <1>3, <1>4 DEF CheckWell

\* A step that is none of the client's.
LEMMA LowerFrame ==
    ASSUME LimitTypeOK, ProgressOK, NEW c \in Clients, LowerFor(c),
           UNCHANGED <<now>>, through'[c] = through[c], CountersKept(c),
           \A v \in Workers : Busy(v, c)' => Busy(v, c) /\ WorkerKept(v)
    PROVE  LowerFor(c)'
<1>1. AllKept(c)' /\ GotItsLimit(c)'
  BY KeptFrame DEF LowerFor
<1>2. ChecksAlone(c)'
  BY DEF LowerFor, ChecksAlone
<1>3. ASSUME NEW v \in Workers, Busy(v, c)' PROVE CheckWell(v)'
  <2>1. Busy(v, c) /\ WorkerKept(v)
    BY <1>3
  <2>2. CheckWell(v)
    BY <2>1 DEF LowerFor, ChecksWell
  <2> QED BY <2>1, <2>2, CheckFrame
<1> QED BY <1>1, <1>2, <1>3 DEF LowerFor, ChecksWell

\* A count that is read holds all that may still be joined.
LEMMA ReadsAll ==
    ASSUME LimitTypeOK, NEW c \in Clients, AllKept(c), NEW i \in Indices,
           NEW t \in Times, NEW u \in Times, Window(Limits[i], u) = Window(Limits[i], t),
           now < u + Minute
    PROVE  Count(Key(Limits[i], c, t)) >= HowMany(through[c], Together(Limits[i], u))
<1> DEFINE key == Key(Limits[i], c, u)
           q == through[c]
           times == Together(Limits[i], u)
<1>1. Key(Limits[i], c, t) = key
  BY DEF Key
<1>2. q \in Seq(Times) /\ now \in Nat
  BY DEF LimitTypeOK, Times
<1>3. CASE \A j \in DOMAIN q : q[j] \notin times
  <2>1. HowMany(q, times) = 0
    BY <1>3, HowManyNone
  <2>2. Count(key) \in Nat
    BY CountType
  <2> HIDE DEF key, q, times
  <2> QED BY <1>1, <2>1, <2>2 DEF q, times
<1>4. ASSUME NEW j \in DOMAIN q, q[j] \in times
      PROVE  Count(key) >= HowMany(q, times)
  <2>1. /\ key \in DOMAIN cache
        /\ cache[key].expires >= q[j] + Limits[i].ttl
        /\ cache[key].count >= HowMany(q, times)
    BY <1>4 DEF AllKept, KeptFor
  <2>2. now < q[j] + Limits[i].ttl
    BY <1>2, <1>4, KeptLongEnough
  <2>3. q[j] \in Nat /\ Limits[i].ttl \in Nat /\ cache[key].expires \in Nat
    <3>1. q[j] \in Times
      BY <1>4 DEF Together, Times
    <3>2. Limits[i].ttl \in Nat
      BY LimitsType DEF LimitTypeOK, LimitOK
    <3>3. cache[key].expires \in now..MaxTime + 2 * Hour
      BY <2>1 DEF LimitTypeOK
    <3>4. cache[key].expires \in Nat
      BY <1>2, <3>3, TimeAssumption, LimitAssumption
    <3> QED BY <3>1, <3>2, <3>4 DEF Times
  <2>4. now < cache[key].expires
    <3> DEFINE x == q[j]
               e == cache[key].expires
               l == Limits[i].ttl
    <3>1. x \in Nat /\ e \in Nat /\ l \in Nat /\ e >= x + l /\ now < x + l
      BY <2>1, <2>2, <2>3
    <3> HIDE DEF x, e, l
    <3>2. now < e
      BY ONLY <1>2, <3>1
    <3> QED BY <3>2 DEF e
  <2>5. Count(key) = cache[key].count
    BY <2>1, <2>4 DEF Count
  <2> QED BY <2>1, <2>5
<1> QED BY <1>1, <1>3, <1>4

LEMMA LowerRead ==
    ASSUME LimitTypeOK, ProgressOK, NEW c \in Clients, LowerFor(c),
           NEW w \in Workers, GetCounter(w)
    PROVE  LowerFor(c)'
<1> DEFINE k == at[w]
           count == Count(Key(Limits[k], client[w], time[w]))
<1>1. /\ pc[w] = "get" /\ OthersKept(w) /\ k \in Indices /\ count \in Nat
      /\ UNCHANGED <<cache, now, through>>
  BY ReadEffect
<1>2. CountersKept(c)
  BY <1>1 DEF CountersKept
<1>3. \A v \in Workers \ {w} : Busy(v, c)' => Busy(v, c) /\ WorkerKept(v)
  BY <1>1 DEF OthersKept, WorkerKept, Busy
<1>4. CASE ~Busy(w, c)'
  BY <1>1, <1>2, <1>3, <1>4, LowerFrame
<1>5. CASE Busy(w, c)'
  <2>0. ~Ended(w)
    BY <1>5 DEF Busy, Ended
  <2>1. /\ seen'[w] = Append(seen[w], count)
        /\ pc'[w] = "set" => at'[w] = 1
        /\ client'[w] = client[w] /\ time'[w] = time[w]
    BY <2>0, ReadEffect
  <2>2. client[w] = c /\ Busy(w, c) /\ time[w] \in Times /\ seen[w] \in Seq(Nat)
        /\ Len(seen[w]) = k - 1 /\ k \in Nat
    BY <1>1, <1>5, <2>1 DEF Busy, LimitTypeOK, ProgressOK, Times, Indices
  <2>3. AllKept(c)' /\ GotItsLimit(c)'
    BY <1>1, <1>2, KeptFrame DEF LowerFor
  <2>4. ChecksAlone(c)'
    BY <1>3, <2>2 DEF LowerFor, ChecksAlone
  <2>5. ASSUME NEW i \in DOMAIN seen'[w] PROVE ReadAll(w, i)'
    <3>1. \/ i \in DOMAIN seen[w] /\ seen'[w][i] = seen[w][i]
          \/ i = k /\ seen'[w][i] = count
      <4> HIDE DEF k, count
      <4> QED BY <1>1, <2>1, <2>2, <2>5
    <3>2. CASE i \in DOMAIN seen[w] /\ seen'[w][i] = seen[w][i]
      <4>1. ReadAll(w, i)
        BY <2>2, <3>2 DEF LowerFor, ChecksWell, CheckWell
      <4> QED BY <1>1, <1>2, <2>1, <3>2, <4>1 DEF ReadAll
    <3>3. CASE i = k /\ seen'[w][i] = count
      <4>1. ASSUME NEW t \in Times, Window(Limits[k], t) = Window(Limits[k], time[w]),
                   now < t + Minute
            PROVE  count >= HowMany(through[c], Together(Limits[k], t))
        BY <1>1, <2>2, <4>1, ReadsAll DEF LowerFor
      <4> QED BY <1>1, <1>2, <2>1, <2>2, <3>3, <4>1 DEF ReadAll
    <3> QED BY <3>1, <3>2, <3>3
  <2>6. CheckWell(w)'
    BY <2>1, <2>5 DEF CheckWell
  <2>7. ASSUME NEW v \in Workers, Busy(v, c)' PROVE CheckWell(v)'
    <3>1. v = w
      BY <1>5, <2>4, <2>7 DEF ChecksAlone
    <3> QED BY <2>6, <3>1
  <2> QED BY <2>3, <2>4, <2>7 DEF LowerFor, ChecksWell
<1> QED BY <1>4, <1>5

\* The counter that a check writes, and the others.
LEMMA Written ==
    ASSUME LimitTypeOK, ProgressOK, CountsOK, NEW w \in Workers, SetCounter(w)
    PROVE  LET k == at[w]
               key == Key(Limits[k], client[w], time[w]) IN
           /\ key \in DOMAIN cache'
           /\ cache'[key].count = seen[w][k] + 1
           /\ cache'[key].expires = now + Limits[k].ttl
           /\ \A i \in Indices, c \in Clients, t \in Times :
                  LET x == Key(Limits[i], c, t) IN
                  i # k \/ c # client[w] \/ Window(Limits[i], t) # Window(Limits[k], time[w]) =>
                      (x \in DOMAIN cache => x \in DOMAIN cache' /\ cache'[x] = cache[x])
<1> DEFINE k == at[w]
           key == Key(Limits[k], client[w], time[w])
<1>1. /\ pc[w] = "set" /\ k \in Indices
      /\ DOMAIN cache' = DOMAIN cache \union {key} /\ cache'[key] = Entry(w)
      /\ \A x \in DOMAIN cache : x # key => cache'[x] = cache[x]
  BY WriteEffect
<1>2. Entry(w).count = seen[w][k] + 1 /\ Entry(w).expires = now + Limits[k].ttl
  BY <1>1, EntryType
<1>3. ASSUME NEW i \in Indices, NEW c \in Clients, NEW t \in Times,
             i # k \/ c # client[w] \/ Window(Limits[i], t) # Window(Limits[k], time[w])
      PROVE  Key(Limits[i], c, t) # key
  <2>1. Limits[i].name = Limits[k].name => i = k
    <3>2. \A a, b \in Indices : Limits[a].name = Limits[b].name => a = b
      BY LimitsType
    <3> QED BY <1>1, <3>2
  <2> QED BY <1>3, <2>1, SameKey
<1>4. \A i \in Indices, c \in Clients, t \in Times :
          LET x == Key(Limits[i], c, t) IN
          i # k \/ c # client[w] \/ Window(Limits[i], t) # Window(Limits[k], time[w]) =>
              (x \in DOMAIN cache => x \in DOMAIN cache' /\ cache'[x] = cache[x])
  <2> HIDE DEF key
  <2> QED BY <1>1, <1>3
<1> QED BY <1>1, <1>2, <1>4

\* What the writing check has read covers what may still be joined, and its limits.
LEMMA WriterKnows ==
    ASSUME LimitTypeOK, ProgressOK, NEW w \in Workers, pc[w] = "set", NEW c, client[w] = c,
           CheckWell(w)
    PROVE  /\ time[w] \in Times /\ now < time[w] + Minute /\ time[w] <= now
           /\ DOMAIN seen[w] = Indices
           /\ \A i \in Indices :
                  /\ seen[w][i] \in Nat /\ seen[w][i] < Limits[i].max
                  /\ \A t \in Times : Window(Limits[i], t) = Window(Limits[i], time[w])
                                      /\ now < t + Minute =>
                         seen[w][i] >= HowMany(through[c], Together(Limits[i], t))
<1>1. seen[w] \in Seq(Nat) /\ Len(seen[w]) = Len(Limits)
  BY DEF LimitTypeOK, ProgressOK
<1>2. DOMAIN seen[w] = Indices /\ \A i \in Indices : seen[w][i] \in Nat
  BY <1>1, SeqElements DEF Indices
<1>3. time[w] \in Times /\ now < time[w] + Minute /\ time[w] <= now
  BY DEF LimitTypeOK, ProgressOK, Times
<1>4. \A i \in Indices : seen[w][i] < Limits[i].max
  BY <1>2 DEF ProgressOK
<1> QED BY <1>2, <1>3, <1>4 DEF CheckWell, ReadAll

LEMMA LowerWrite ==
    ASSUME LimitTypeOK, ProgressOK, PastOK, CountsOK, NEW c \in Clients, LowerFor(c),
           NEW w \in Workers, client[w] = c, SetCounter(w), at[w] # Len(Limits)
    PROVE  LowerFor(c)'
<1> DEFINE k == at[w]
           key == Key(Limits[k], c, time[w])
           q == through[c]
<1>1. /\ pc[w] = "set" /\ OthersKept(w) /\ k \in Indices
      /\ k # Len(Limits) => /\ at'[w] = k + 1 /\ pc'[w] = "set" /\ seen'[w] = seen[w]
                            /\ client'[w] = client[w] /\ time'[w] = time[w]
                            /\ through' = through
      /\ UNCHANGED <<now>>
  BY WriteEffect
<1>3. Busy(w, c) /\ CheckWell(w)
  BY <1>1 DEF Busy, LowerFor, ChecksWell
<1>4. \A v \in Workers : Busy(v, c)' => v = w
  BY <1>1, <1>3 DEF OthersKept, WorkerKept, Busy, LowerFor, ChecksAlone
<1>5. /\ key \in DOMAIN cache' /\ cache'[key].count = seen[w][k] + 1
      /\ cache'[key].expires = now + Limits[k].ttl
      /\ \A i \in Indices, t \in Times :
             i # k \/ Window(Limits[i], t) # Window(Limits[k], time[w]) =>
                 (Key(Limits[i], c, t) \in DOMAIN cache =>
                      /\ Key(Limits[i], c, t) \in DOMAIN cache'
                      /\ cache'[Key(Limits[i], c, t)] = cache[Key(Limits[i], c, t)])
  BY Written
<1>6. /\ time[w] \in Times /\ time[w] <= now
      /\ \A i \in Indices :
             /\ seen[w][i] \in Nat /\ Limits[i].ttl \in Nat
             /\ \A t \in Times : Window(Limits[i], t) = Window(Limits[i], time[w])
                                 /\ now < t + Minute =>
                    seen[w][i] >= HowMany(q, Together(Limits[i], t))
  BY <1>1, <1>3, WriterKnows, LimitsType DEF LimitOK, LimitTypeOK
<1>7. q \in Seq(Times) /\ now \in Nat /\ \A j \in DOMAIN q : q[j] <= now /\ q[j] \in Nat
  <2>1. q \in Seq(Times)
    BY DEF LimitTypeOK, Times
  <2>2. \A j \in DOMAIN q : q[j] \in Times
    BY <2>1, SeqElements
  <2> QED BY <2>1, <2>2 DEF LimitTypeOK, PastOK, Times
<1>8. ASSUME NEW i \in Indices, NEW t \in Times, now < t + Minute,
             NEW j \in DOMAIN q, q[j] \in Together(Limits[i], t)
      PROVE  /\ Key(Limits[i], c, t) \in DOMAIN cache'
             /\ cache'[Key(Limits[i], c, t)].expires >= q[j] + Limits[i].ttl
             /\ cache'[Key(Limits[i], c, t)].count >= HowMany(q, Together(Limits[i], t))
  <2>1. CASE i = k /\ Window(Limits[i], t) = Window(Limits[k], time[w])
    <3> DEFINE h == HowMany(q, Together(Limits[i], t))
               s == seen[w][i]
               l == Limits[i].ttl
    <3>1. Key(Limits[i], c, t) = key
      BY <2>1 DEF Key
    <3>2. s >= h /\ s \in Nat /\ l \in Nat
      BY <1>6, <1>8, <2>1
    <3>3. h \in Nat
      BY <1>7, HowManyType
    <3>4. q[j] <= now /\ q[j] \in Nat
      BY <1>7, <1>8
    <3>5. cache'[key].count = s + 1 /\ cache'[key].expires = now + l /\ key \in DOMAIN cache'
      BY <1>5, <2>1
    <3> HIDE DEF h, s, l, key
    <3>6. cache'[key].count >= h
      BY <3>2, <3>3, <3>5
    <3>7. now + l >= q[j] + l
      BY <1>7, <3>2, <3>4
    <3> QED BY <3>1, <3>5, <3>6, <3>7 DEF h, l
  <2>2. CASE i # k \/ Window(Limits[i], t) # Window(Limits[k], time[w])
    <3>1. /\ Key(Limits[i], c, t) \in DOMAIN cache
          /\ cache[Key(Limits[i], c, t)].expires >= q[j] + Limits[i].ttl
          /\ cache[Key(Limits[i], c, t)].count >= HowMany(q, Together(Limits[i], t))
      BY <1>8 DEF LowerFor, AllKept, KeptFor
    <3> QED BY <1>5, <2>2, <3>1
  <2> QED BY <2>1, <2>2
<1>9. AllKept(c)' /\ GotItsLimit(c)'
  <2>1. AllKept(c)'
    BY <1>1, <1>8 DEF AllKept, KeptFor
  <2>2. GotItsLimit(c)'
    BY <1>1 DEF LowerFor, GotItsLimit
  <2> QED BY <2>1, <2>2
<1>10. \A i \in DOMAIN seen'[w] : ReadAll(w, i)'
  <2> TAKE i \in DOMAIN seen'[w]
  <2>1. ReadAll(w, i)
    BY <1>1, <1>3 DEF CheckWell
  <2> QED BY <1>1, <2>1 DEF ReadAll
<1>11. ASSUME NEW i \in 1..(at'[w] - 1) PROVE HasWritten(w, i)'
  <2>1. k \in Nat /\ at'[w] = k + 1 /\ i \in Indices /\ (i = k \/ i \in 1..(k - 1))
    <3>1. k \in 1..Len(Limits) /\ Len(Limits) \in Nat
      BY <1>1, LimitsType DEF Indices, LimitTypeOK
    <3>2. at'[w] = k + 1
      BY <1>1
    <3> HIDE DEF k
    <3> QED BY <1>11, <3>1, <3>2 DEF Indices
  <2>2. CASE i = k
    <3> DEFINE l == Limits[k].ttl
    <3>1. now + l >= time[w] + l
      <4>1. l \in Nat /\ time[w] \in Nat /\ time[w] <= now
        BY <1>1, <1>6 DEF Times
      <4> HIDE DEF l
      <4> QED BY <1>7, <4>1
    <3>2. seen[w][k] + 1 >= seen[w][k] + 1
      BY <1>1, <1>6
    <3> QED BY <1>1, <1>5, <2>2, <3>1, <3>2 DEF HasWritten
  <2>3. CASE i \in 1..(k - 1)
    <3>1. HasWritten(w, i)
      BY <1>1, <1>3, <2>3 DEF CheckWell
    <3>2. i # k
      BY <2>1, <2>3
    <3>3. /\ Key(Limits[i], c, time[w]) \in DOMAIN cache'
          /\ cache'[Key(Limits[i], c, time[w])] = cache[Key(Limits[i], c, time[w])]
      BY <1>5, <1>6, <2>1, <3>1, <3>2 DEF HasWritten
    <3> QED BY <1>1, <3>1, <3>3 DEF HasWritten
  <2> QED BY <2>1, <2>2, <2>3
<1>12. CheckWell(w)'
  BY <1>10, <1>11 DEF CheckWell
<1> QED BY <1>4, <1>9, <1>12 DEF LowerFor, ChecksAlone, ChecksWell

\* The last counter is written and the request is let through.
LEMMA LowerPass ==
    ASSUME LimitTypeOK, LimitTypeOK', ProgressOK, PastOK, CountsOK,
           NEW c \in Clients, LowerFor(c),
           NEW w \in Workers, client[w] = c, SetCounter(w), at[w] = Len(Limits)
    PROVE  LowerFor(c)'
<1> DEFINE k == at[w]
           key(i) == Key(Limits[i], c, time[w])
           q == through[c]
           x == time[w]
           r == Append(q, x)
<1>1. /\ pc[w] = "set" /\ OthersKept(w) /\ k \in Indices /\ UNCHANGED <<now>>
      /\ LetThrough(w)
  BY WriteEffect
<1>3. Busy(w, c) /\ CheckWell(w)
  BY <1>1 DEF Busy, LowerFor, ChecksWell
<1>4. \A v \in Workers : ~Busy(v, c)'
  <2>1. Ended(w)
    BY <1>1, PassEffect
  <2> QED BY <1>1, <1>3, <2>1
          DEF OthersKept, WorkerKept, Busy, LowerFor, ChecksAlone, Ended
<1>5. through'[c] = r /\ x \in Times /\ x <= now
  BY <1>1, PassEffect
<1>6. /\ time[w] \in Times /\ time[w] <= now /\ now < time[w] + Minute
      /\ DOMAIN seen[w] = Indices
      /\ \A i \in Indices :
             /\ seen[w][i] \in Nat /\ seen[w][i] < Limits[i].max
             /\ \A t \in Times : Window(Limits[i], t) = Window(Limits[i], time[w])
                                 /\ now < t + Minute =>
                    seen[w][i] >= HowMany(q, Together(Limits[i], t))
  BY <1>1, <1>3, WriterKnows
<1>7. q \in Seq(Times) /\ now \in Nat /\ \A j \in DOMAIN q : q[j] <= now /\ q[j] \in Nat
  <2>1. q \in Seq(Times)
    BY DEF LimitTypeOK, Times
  <2>2. \A j \in DOMAIN q : q[j] \in Times
    BY <2>1, SeqElements
  <2> QED BY <2>1, <2>2 DEF LimitTypeOK, PastOK, Times
<1>8. \A i \in Indices : LimitOK(Limits[i])
  BY LimitsType
<1>9. \A times : /\ HowMany(q, times) \in Nat
                 /\ HowMany(r, times) = HowMany(q, times) + (IF x \in times THEN 1 ELSE 0)
  <2> TAKE times
  <2>1. HowMany(q, times) \in Nat
    BY <1>7, HowManyType
  <2> HIDE DEF q, x
  <2>2. HowMany(r, times) = HowMany(q, times) + (IF x \in times THEN 1 ELSE 0)
    BY <1>5, <1>7, HowManyAppend
  <2> QED BY <2>1, <2>2
<1>10. /\ key(k) \in DOMAIN cache' /\ cache'[key(k)].count = seen[w][k] + 1
       /\ cache'[key(k)].expires = now + Limits[k].ttl
       /\ \A i \in Indices, t \in Times :
              i # k \/ Window(Limits[i], t) # Window(Limits[k], time[w]) =>
                  (Key(Limits[i], c, t) \in DOMAIN cache =>
                       /\ Key(Limits[i], c, t) \in DOMAIN cache'
                       /\ cache'[Key(Limits[i], c, t)] = cache[Key(Limits[i], c, t)])
  BY Written
\* The counters that this check has written, and how long they are kept.
<1>11. ASSUME NEW i \in Indices
       PROVE  /\ key(i) \in DOMAIN cache'
              /\ cache'[key(i)].count >= seen[w][i] + 1
              /\ cache'[key(i)].expires >= x + Limits[i].ttl
  <2>1. CASE i = k
    <3> DEFINE l == Limits[k].ttl
    <3>1. l \in Nat /\ x \in Nat
      BY <1>1, <1>5, <1>8 DEF LimitOK, Times
    <3>2. now + l >= x + l
      <4> HIDE DEF l, x
      <4> QED BY <1>5, <1>7, <3>1
    <3>3. seen[w][k] + 1 >= seen[w][k] + 1
      BY <1>1, <1>6
    <3> QED BY <1>10, <2>1, <3>2, <3>3
  <2>2. CASE i # k
    <3>1. i \in 1..(k - 1)
      <4>1. Len(Limits) = 2
        BY LimitsType
      <4>2. k = Len(Limits) /\ i \in 1..Len(Limits)
        BY DEF Indices
      <4> HIDE DEF k
      <4> QED BY <2>2, <4>1, <4>2
    <3>2. HasWritten(w, i)
      BY <1>1, <1>3, <3>1 DEF CheckWell
    <3>3. key(i) \in DOMAIN cache' /\ cache'[key(i)] = cache[key(i)]
      BY <1>6, <1>10, <2>2, <3>2 DEF HasWritten
    <3> QED BY <3>2, <3>3 DEF HasWritten
  <2> QED BY <2>1, <2>2
<1>12. ASSUME NEW i \in Indices, NEW t \in Times, now < t + Minute,
              NEW j \in DOMAIN r, r[j] \in Together(Limits[i], t)
       PROVE  /\ Key(Limits[i], c, t) \in DOMAIN cache'
              /\ cache'[Key(Limits[i], c, t)].expires >= r[j] + Limits[i].ttl
              /\ cache'[Key(Limits[i], c, t)].count >= HowMany(r, Together(Limits[i], t))
  <2> DEFINE times == Together(Limits[i], t)
             here == Key(Limits[i], c, t)
             l == Limits[i].ttl
  <2>1. (j \in DOMAIN q /\ r[j] = q[j]) \/ r[j] = x
    <3> HIDE DEF q, x
    <3> QED BY <1>5, <1>7, <1>12
  <2>2. ASSUME j \in DOMAIN q, r[j] = q[j]
        PROVE  /\ here \in DOMAIN cache /\ cache[here].expires >= r[j] + l
               /\ cache[here].count >= HowMany(q, times)
    BY <1>12, <2>2 DEF LowerFor, AllKept, KeptFor
  <2>3. CASE x \in times
    <3>1. Window(Limits[i], t) = Window(Limits[i], time[w])
      BY <2>3 DEF Together
    <3>2. here = key(i)
      BY <3>1 DEF Key
    <3>3. seen[w][i] >= HowMany(q, times) /\ seen[w][i] \in Nat
      BY <1>6, <1>12, <3>1
    <3>4. HowMany(r, times) = HowMany(q, times) + 1 /\ HowMany(q, times) \in Nat
      BY <1>9, <2>3
    <3>5. cache'[here].count \in Nat
      <4>1. here \in DOMAIN cache'
        BY <1>11, <3>2
      <4> QED BY <4>1 DEF LimitTypeOK
    <3>6. cache'[here].count >= HowMany(r, times)
      <4> DEFINE s == seen[w][i]
                 h == HowMany(q, times)
                 n == cache'[here].count
      <4>1. s \in Nat /\ h \in Nat /\ n \in Nat /\ s >= h /\ n >= s + 1
        BY <1>11, <3>2, <3>3, <3>4, <3>5
      <4> HIDE DEF s, h, n
      <4>2. n >= h + 1
        BY <4>1
      <4> QED BY <3>4, <4>2 DEF h, n
    <3>7. cache'[here].expires >= r[j] + l
      <4>1. CASE r[j] = x
        BY <1>11, <3>2, <4>1
      <4>2. CASE j \in DOMAIN q /\ r[j] = q[j]
        <5>1. CASE i = k
          <6>1. l \in Nat /\ q[j] \in Nat /\ q[j] <= now
            BY <1>7, <1>8, <4>2 DEF LimitOK
          <6>2. now + l >= q[j] + l
            <7> HIDE DEF l, q
            <7> QED BY <1>7, <6>1
          <6> QED BY <1>10, <3>2, <4>2, <5>1, <6>2
        <5>2. CASE i # k
          BY <1>10, <2>2, <4>2, <5>2
        <5> QED BY <5>1, <5>2
      <4> QED BY <2>1, <4>1, <4>2
    <3> QED BY <1>11, <3>2, <3>6, <3>7
  <2>4. CASE x \notin times
    <3>1. j \in DOMAIN q /\ r[j] = q[j]
      BY <1>12, <2>1, <2>4
    <3>2. HowMany(r, times) = HowMany(q, times)
      BY <1>9, <2>4
    <3>3. i # k \/ Window(Limits[i], t) # Window(Limits[k], time[w])
      BY <1>6, <2>4 DEF Together, Times
    <3> QED BY <1>10, <2>2, <3>1, <3>2, <3>3
  <2> QED BY <2>3, <2>4
<1>13. AllKept(c)'
  BY <1>1, <1>5, <1>12 DEF AllKept, KeptFor
<1>14. ASSUME NEW i \in Indices, NEW t \in Times
       PROVE  HowMany(r, Together(Limits[i], t)) <= Limits[i].max
  <2> DEFINE times == Together(Limits[i], t)
             limit == Limits[i]
  <2>1. HowMany(q, times) <= limit.max /\ HowMany(q, times) \in Nat /\ limit.max \in Nat
    BY <1>8, <1>9 DEF LowerFor, GotItsLimit, LimitOK
  <2>2. CASE x \notin times
    BY <1>9, <2>1, <2>2
  <2>3. CASE x \in times
    <3>1. \E u \in Times : /\ Window(limit, u) = Window(limit, time[w])
                           /\ now < u + Minute /\ times \subseteq Together(limit, u)
      <4>1. Window(limit, t) = Window(limit, time[w])
        BY <2>3 DEF Together
      <4>2. times \subseteq Together(limit, time[w])
        BY <4>1 DEF Together, Times
      <4> QED BY <1>6, <4>2
    <3>2. PICK u \in Times : /\ Window(limit, u) = Window(limit, time[w])
                             /\ now < u + Minute /\ times \subseteq Together(limit, u)
      BY <3>1
    <3> DEFINE s == seen[w][i]
               h == HowMany(q, times)
               g == HowMany(q, Together(limit, u))
               m == limit.max
    <3>3. h <= g
      <4>1. \A j \in DOMAIN q : q[j] \in times => q[j] \in Together(limit, u)
        BY <3>2
      <4> HIDE DEF q, times
      <4> QED BY <1>7, <4>1, HowManyLess
    <3>4. s >= g /\ s < m /\ s \in Nat
      BY <1>6, <3>2
    <3>5. h \in Nat /\ g \in Nat /\ m \in Nat /\ HowMany(r, times) = h + 1
      BY <1>9, <2>1, <2>3
    <3> HIDE DEF s, h, g, m
    <3>6. h + 1 <= m
      BY <3>3, <3>4, <3>5
    <3> QED BY <3>5, <3>6 DEF m
  <2> QED BY <2>2, <2>3
<1>15. GotItsLimit(c)'
  BY <1>5, <1>14 DEF GotItsLimit
<1> QED BY <1>4, <1>13, <1>15 DEF LowerFor, ChecksAlone, ChecksWell

\* The clock, which drops the counters whose time is over.
LEMMA LowerTick ==
    ASSUME LimitTypeOK, ProgressOK, NEW c \in Clients, LowerFor(c), ClockTicks
    PROVE  LowerFor(c)'
<1> DEFINE q == through[c]
<1>1. /\ now' = now + 1
      /\ \A w \in Workers : pc[w] # "idle" => now' < time[w] + Minute
      /\ \A key : key \in DOMAIN cache' <=> key \in DOMAIN cache /\ cache[key].expires > now'
      /\ \A key \in DOMAIN cache' : cache'[key] = cache[key]
      /\ UNCHANGED <<pc, client, time, at, seen, through>>
  BY TickEffect
<1>2. now \in Nat /\ q \in Seq(Times)
  BY <1>1 DEF LimitTypeOK, Times
<1>3. \A key \in DOMAIN cache : cache[key].expires \in Nat
  BY <1>2, TimeAssumption, LimitAssumption DEF LimitTypeOK
<1>4. \A i \in Indices : LimitOK(Limits[i])
  BY LimitsType
\* A counter that is there for long enough stays.
<1>5. ASSUME NEW key \in DOMAIN cache, NEW n \in Nat, cache[key].expires >= n, now' < n
      PROVE  key \in DOMAIN cache' /\ cache'[key] = cache[key]
  <2> DEFINE e == cache[key].expires
  <2>1. e \in Nat /\ e >= n
    BY <1>3, <1>5
  <2> HIDE DEF e
  <2>2. e > now'
    BY <1>1, <1>2, <1>5, <2>1
  <2> QED BY <1>1, <2>2 DEF e
<1>6. ASSUME NEW t \in Times, Minute \in Nat, now' < t + Minute
      PROVE  now < t + Minute
  <2>1. t \in Nat
    BY DEF Times
  <2> QED BY <1>1, <1>2, <1>6, <2>1
<1>7. Minute \in Nat
  BY TimeAssumption
<1>8. ASSUME NEW i \in Indices, NEW t \in Times, now' < t + Minute,
             NEW j \in DOMAIN q, q[j] \in Together(Limits[i], t)
      PROVE  LET key == Key(Limits[i], c, t)
             IN  /\ key \in DOMAIN cache'
                 /\ cache'[key].expires >= q[j] + Limits[i].ttl
                 /\ cache'[key].count >= HowMany(q, Together(Limits[i], t))
  <2> DEFINE key == Key(Limits[i], c, t)
  <2>1. now < t + Minute
    BY <1>6, <1>7, <1>8
  <2>2. /\ key \in DOMAIN cache
        /\ cache[key].expires >= q[j] + Limits[i].ttl
        /\ cache[key].count >= HowMany(q, Together(Limits[i], t))
    BY <1>8, <2>1 DEF LowerFor, AllKept, KeptFor
  <2>3. now' < q[j] + Limits[i].ttl
    <3>1. now' \in Nat
      BY <1>1, <1>2
    <3> QED BY <1>8, <3>1, KeptLongEnough
  <2>4. q[j] + Limits[i].ttl \in Nat
    <3>1. q[j] \in Nat /\ Limits[i].ttl \in Nat
      BY <1>4, <1>8 DEF Together, Times, LimitOK
    <3> QED BY <3>1
  <2>5. key \in DOMAIN cache' /\ cache'[key] = cache[key]
    <3> HIDE DEF key, q
    <3> QED BY <1>5, <2>2, <2>3, <2>4
  <2> QED BY <2>2, <2>5
<1>9. AllKept(c)'
  BY <1>1, <1>2, <1>8 DEF AllKept, KeptFor
<1>10. GotItsLimit(c)'
  BY <1>1, <1>2 DEF LowerFor, GotItsLimit
<1>11. \A v \in Workers : Busy(v, c)' => Busy(v, c)
  BY <1>1 DEF Busy
<1>12. ChecksAlone(c)'
  BY <1>11 DEF LowerFor, ChecksAlone
<1>13. ASSUME NEW v \in Workers, Busy(v, c)' PROVE CheckWell(v)'
  <2>1. CheckWell(v) /\ Busy(v, c) /\ pc[v] # "idle" /\ client[v] = c
    BY <1>11, <1>13 DEF LowerFor, ChecksWell, Busy
  <2>2. ASSUME NEW i \in DOMAIN seen'[v] PROVE ReadAll(v, i)'
    <3>1. ReadAll(v, i) /\ i \in Indices
      BY <1>1, <2>1, <2>2 DEF CheckWell, ProgressOK
    <3>2. \A t \in Times : now' < t + Minute => now < t + Minute
      BY <1>6, <1>7
    <3> QED BY <1>1, <1>2, <3>1, <3>2 DEF ReadAll
  <2>3. ASSUME pc'[v] = "set", NEW i \in 1..(at'[v] - 1) PROVE HasWritten(v, i)'
    <3> DEFINE key == Key(Limits[i], c, time[v])
               l == Limits[i].ttl
    <3>1. HasWritten(v, i)
      BY <1>1, <2>1, <2>3 DEF CheckWell
    <3>2. i \in Indices
      <4>1. Len(Limits) = 2
        BY LimitsType
      <4>2. at[v] \in 1..Len(Limits) /\ at'[v] = at[v]
        BY <1>1 DEF LimitTypeOK
      <4> QED BY <2>3, <4>1, <4>2 DEF Indices
    <3>3. l \in Nat /\ Minute <= l
      <4>1. Limits[i].span \in Nat /\ l = Limits[i].span + Limits[i].span
            /\ Minute <= Limits[i].span
        BY <1>4, <3>2 DEF LimitOK
      <4> HIDE DEF l
      <4> QED BY <4>1, TimeAssumption
    <3>4. time[v] \in Nat /\ now' < time[v] + Minute
      BY <1>1, <2>1 DEF LimitTypeOK
    <3>5. key \in DOMAIN cache /\ cache[key].expires >= time[v] + l
          /\ cache[key].count >= seen[v][i] + 1
      BY <2>1, <3>1 DEF HasWritten
    <3>6. time[v] + l \in Nat /\ now' < time[v] + l
      <4> HIDE DEF l
      <4> QED BY <1>1, <1>2, <3>3, <3>4, TimeAssumption
    <3>7. key \in DOMAIN cache' /\ cache'[key] = cache[key]
      <4> HIDE DEF key, l
      <4> QED BY <1>5, <3>5, <3>6
    <3> QED BY <1>1, <1>2, <2>1, <3>5, <3>7 DEF HasWritten
  <2> QED BY <2>2, <2>3 DEF CheckWell
<1> QED BY <1>9, <1>10, <1>12, <1>13 DEF LowerFor, ChecksWell

LEMMA LowerKept == LimitIInv /\ [LimitNext]_limitVars => LowerOK'
<1> SUFFICES ASSUME LimitIInv, [LimitNext]_limitVars, NEW c \in Clients, c \notin disturbed'
             PROVE  LowerFor(c)'
  BY DEF LowerOK
<1>0. LimitTypeOK /\ LimitTypeOK' /\ ProgressOK /\ PastOK /\ CountsOK
  BY TypeKept DEF LimitIInv
<1>d. disturbed \subseteq disturbed'
  BY DEF LimitNext, Check, Arrive, GetCounter, SetCounter, CacheFails, Exempt, ClockTicks,
         limitVars
<1>l. LowerFor(c)
  BY <1>d DEF LimitIInv, LowerOK
<1>o. ASSUME NEW w \in Workers, OthersKept(w), NEW v \in Workers, v # w, Busy(v, c)'
      PROVE  Busy(v, c) /\ WorkerKept(v)
  BY <1>o DEF OthersKept, WorkerKept, Busy
<1>1. ASSUME NEW w \in Workers, NEW request \in Requests, Arrive(w, request)
      PROVE  LowerFor(c)'
  <2> DEFINE d == ClientId(request)
  <2>1. /\ OthersKept(w) /\ pc'[w] = "get" /\ client'[w] = d /\ pc[w] = "idle"
        /\ seen'[w] = seen[w]
        /\ d \notin disturbed' => \A v \in Workers : ~Busy(v, d)
        /\ UNCHANGED <<cache, now, through>>
    BY <1>0, <1>1, ArriveEffect
  <2>2. CountersKept(c)
    BY <2>1 DEF CountersKept
  <2>3. CASE c # d
    <3>1. ~Busy(w, c)'
      BY <2>1, <2>3 DEF Busy
    <3> QED BY <1>0, <1>l, <1>o, <2>1, <2>2, <3>1, LowerFrame
  <2>4. CASE c = d
    <3>1. \A v \in Workers : ~Busy(v, c)
      BY <1>1, <2>4 DEF Arrive, Checking, Busy
    <3>2. \A v \in Workers : Busy(v, c)' => v = w
      BY <1>o, <2>1, <3>1
    <3>3. AllKept(c)' /\ GotItsLimit(c)'
      BY <1>l, <2>1, <2>2, KeptFrame DEF LowerFor
    <3>4. seen'[w] = <<>>
      <4>1. pc[w] = "idle" /\ seen'[w] = seen[w]
        BY <2>1
      <4> QED BY <1>0, <4>1 DEF ProgressOK
    <3>5. CheckWell(w)'
      BY <2>1, <3>4 DEF CheckWell
    <3> QED BY <3>2, <3>3, <3>5 DEF LowerFor, ChecksAlone, ChecksWell
  <2> QED BY <2>3, <2>4
<1>2. ASSUME NEW w \in Workers, GetCounter(w) PROVE LowerFor(c)'
  BY <1>0, <1>2, <1>l, LowerRead
<1>3. ASSUME NEW w \in Workers, SetCounter(w) PROVE LowerFor(c)'
  <2>1. CASE c = client[w] /\ at[w] = Len(Limits)
    BY <1>0, <1>3, <1>l, <2>1, LowerPass
  <2>2. CASE c = client[w] /\ at[w] # Len(Limits)
    BY <1>0, <1>3, <1>l, <2>2, LowerWrite
  <2>3. CASE c # client[w]
    <3>1. /\ OthersKept(w) /\ UNCHANGED <<now>>
          /\ at[w] = Len(Limits) => LetThrough(w)
          /\ at[w] # Len(Limits) => client'[w] = client[w] /\ through' = through
      BY <1>0, <1>3, WriteEffect
    <3>2. CountersKept(c)
      BY <1>0, <1>3, <2>3, Written DEF CountersKept
    <3>3. pc[w] # "idle"
      BY <1>3 DEF SetCounter
    <3>4. through'[c] = through[c] /\ ~Busy(w, c)'
      <4>1. CASE at[w] = Len(Limits)
        BY <1>0, <2>3, <3>1, <3>3, <4>1, PassEffect DEF Busy, Ended
      <4>2. CASE at[w] # Len(Limits)
        BY <2>3, <3>1, <4>2 DEF Busy
      <4> QED BY <4>1, <4>2
    <3> QED BY <1>0, <1>l, <1>o, <3>1, <3>2, <3>4, LowerFrame
  <2> QED BY <2>1, <2>2, <2>3
<1>4. ASSUME NEW w \in Workers, CacheFails(w) PROVE LowerFor(c)'
  <2>1. /\ pc[w] # "idle" /\ LetThrough(w) /\ disturbed' = disturbed \union {client[w]}
        /\ UNCHANGED <<cache, now>>
    BY <1>4 DEF CacheFails
  <2>2. c # client[w]
    BY <2>1
  <2>3. OthersKept(w) /\ through'[c] = through[c] /\ ~Busy(w, c)'
    BY <1>0, <2>1, <2>2, PassEffect DEF Busy, Ended
  <2>4. CountersKept(c)
    BY <2>1 DEF CountersKept
  <2> QED BY <1>0, <1>l, <1>o, <2>1, <2>3, <2>4, LowerFrame
<1>5. CASE UNCHANGED limitVars \/ \E w \in Workers : Exempt(w)
  <2>1. UNCHANGED <<now, cache, through, pc, client, time, at, seen>>
    BY <1>5 DEF limitVars, Exempt
  <2>2. CountersKept(c) /\ \A v \in Workers : Busy(v, c)' => Busy(v, c) /\ WorkerKept(v)
    BY <2>1 DEF CountersKept, Busy, WorkerKept
  <2> QED BY <1>0, <1>l, <2>1, <2>2, LowerFrame
<1>6. CASE ClockTicks
  BY <1>0, <1>6, <1>l, LowerTick
<1> QED BY <1>1, <1>2, <1>3, <1>4, <1>5, <1>6 DEF LimitNext, Check

-----------------------------------------------------------------------------
(* The theorems.                                                           *)

LEMMA LimitNextIInv == LimitIInv /\ [LimitNext]_limitVars => LimitIInv'
BY TypeKept, ProgressKept, PastKept, CountsKept, UpperKept, LowerKept DEF LimitIInv

\* LimitIInv holds of every reachable state of the limiter.
THEOREM LimitInvariant == LimitSpec => []LimitIInv
BY LimitInitIInv, LimitNextIInv, PTL DEF LimitSpec

\* The limiter keeps its state well formed: no counter exceeds the requests
\* there may be, nor is one kept beyond its lease (GetCounter, SetCounter, the cache).
THEOREM LimitTypeCorrect == LimitSpec => []LimitTypeOK
<1>1. LimitIInv => LimitTypeOK
  BY DEF LimitIInv
<1> QED BY <1>1, LimitInvariant, PTL

\* A client is never let through more often than the limit, unless its checks overlapped
\* or the cache failed it (_is_rate_limited).
THEOREM ClientsHeldToLimit == LimitSpec => []WithinLimit
<1>1. LimitIInv => WithinLimit
  <2> SUFFICES ASSUME LimitIInv, NEW c \in Clients \ disturbed, NEW limit \in Range(Limits),
                      NEW t \in 0..now
               PROVE  Number(c, Together(limit, t)) <= limit.max
    BY DEF WithinLimit
  <2>1. LimitTypeOK /\ GotItsLimit(c)
    BY DEF LimitIInv, LowerOK, LowerFor
  <2>2. t \in Times
    <3>1. now \in 0..MaxTime
      BY <2>1 DEF LimitTypeOK
    <3>2. t \in 0..now
      OBVIOUS
    <3> QED BY <3>1, <3>2, TimeAssumption DEF Times
  <2>3. PICK i \in Indices : limit = Limits[i]
    BY <2>1, LimitsType DEF Range, LimitTypeOK
  <2>4. HowMany(through[c], Together(limit, t)) <= limit.max
    BY <2>1, <2>2, <2>3 DEF GotItsLimit
  <2> QED BY <2>4 DEF Number, HowMany
<1> QED BY <1>1, LimitInvariant, PTL

\* A client that is refused has had its share of a minute or of an hour, whatever the
\* others do, whatever fails and however the checks interleave (_is_rate_limited).
THEOREM RefusalsAreDue == LimitSpec => RefusedHadItsShare
<1> DEFINE Due == \A w \in Workers : Refuses(w) => HadItsShare(w)
<1>1. LimitIInv /\ [LimitNext]_limitVars => Due
  <2> SUFFICES ASSUME LimitIInv, [LimitNext]_limitVars, NEW w \in Workers,
                      Refuses(w)
               PROVE  HadItsShare(w)
    OBVIOUS
  <2>1. GetCounter(w) /\ Count(Key(Limits[at[w]], client[w], time[w])) >= Limits[at[w]].max
    BY RefusalStep DEF LimitIInv
  <2>2. pc[w] = "get"
    BY <2>1 DEF GetCounter
  <2> QED BY <2>1, <2>2, ShareOfRefused
<1>2. LimitIInv /\ [LimitNext]_limitVars => [Due]_limitVars
  BY <1>1
<1> QED BY <1>2, LimitInvariant, PTL DEF LimitSpec, RefusedHadItsShare
=============================================================================
