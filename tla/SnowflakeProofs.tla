-------------------------- MODULE SnowflakeProofs --------------------------
(***************************************************************************)
(* What is guaranteed of snowflake identifiers for every width of their    *)
(* fields: by a generator that is kept (SnowflakeGenerator), and by        *)
(* generate_snowflake for any number of calls and retries                  *)
(* (GenerateSnowflake).  Both rest on the arithmetic of the fields.        *)
(***************************************************************************)
EXTENDS SnowflakeGenerator, GenerateSnowflake, TLAPS

LEMMA QuotientRemainder ==
    ASSUME NEW q \in Nat, NEW d \in Nat \ {0}, NEW r \in 0..(d - 1)
    PROVE  (q * d + r) \div d = q /\ (q * d + r) % d = r
OBVIOUS

\* The lower field does not reach the next value of the upper one.
LEMMA FieldOrder ==
    ASSUME NEW p \in Nat, NEW q \in Nat, p < q,
           NEW d \in Nat \ {0}, NEW r \in 0..(d - 1), NEW s \in Nat
    PROVE  p * d + r < q * d + s
<1>1. q * d = p * d + (q - p) * d
  OBVIOUS
<1>2. (q - p) * d >= d
  <2>1. q - p - 1 \in Nat
    OBVIOUS
  <2>2. (q - p) * d = (q - p - 1) * d + d
    OBVIOUS
  <2>3. (q - p - 1) * d \in Nat
    BY <2>1
  <2> QED BY <2>2, <2>3
<1>3. p * d \in Nat /\ q * d \in Nat /\ (q - p) * d \in Nat
  OBVIOUS
<1> QED BY <1>1, <1>2, <1>3

LEMMA Sizes ==
    /\ SeqSize \in Nat \ {0} /\ InstanceSize \in Nat \ {0}
    /\ Seqs = 0..(SeqSize - 1)
    /\ Instances = 0..(InstanceSize - 1)
BY FieldsAssumption DEF SeqSize, InstanceSize, Seqs, Instances

\* parse undoes the encoding.
LEMMA ParseEncode ==
    ASSUME NEW ts \in Nat, NEW instance \in Instances, NEW seq \in Seqs
    PROVE  /\ Encode(ts, instance, seq) \in Nat
           /\ Parse(Encode(ts, instance, seq)) =
                [timestamp |-> ts, instance |-> instance, seq |-> seq]
<1> DEFINE upper == ts * InstanceSize + instance
<1>1. instance \in Nat /\ seq \in Nat /\ ts * InstanceSize \in Nat
  BY Sizes
<1>2. upper \in Nat
  BY <1>1
<1>3. upper \div InstanceSize = ts /\ upper % InstanceSize = instance
  BY Sizes, QuotientRemainder
<1> HIDE DEF upper
<1>4. /\ (upper * SeqSize + seq) \div SeqSize = upper
      /\ (upper * SeqSize + seq) % SeqSize = seq
  BY <1>2, Sizes, QuotientRemainder
<1>5. upper * SeqSize \in Nat
  BY <1>2, Sizes
<1>6. Encode(ts, instance, seq) = upper * SeqSize + seq
  BY DEF Encode, upper
<1> QED BY <1>1, <1>3, <1>4, <1>5, <1>6 DEF Parse

\* Of two identifiers of a worker the one with the later time, or with the same
\* time and the higher number, is the greater.
LEMMA EncodeOrder ==
    ASSUME NEW t \in Nat, NEW u \in Nat, NEW instance \in Instances,
           NEW m \in Seqs, NEW n \in Seqs,
           t < u \/ (t = u /\ m < n)
    PROVE  Encode(t, instance, m) < Encode(u, instance, n)
<1> DEFINE upper(x) == x * InstanceSize + instance
<1>1. upper(t) \in Nat /\ upper(u) \in Nat
  <2>1. t * InstanceSize \in Nat /\ u * InstanceSize \in Nat /\ instance \in Nat
    BY Sizes
  <2> QED BY <2>1
<1>2. CASE t < u
  <2>1. upper(t) < upper(u)
    BY <1>2, Sizes, FieldOrder
  <2> HIDE DEF upper
  <2>2. upper(t) * SeqSize + m < upper(u) * SeqSize + n
    BY <1>1, <2>1, Sizes, FieldOrder
  <2> QED BY <2>2 DEF upper, Encode
<1>3. CASE t = u /\ m < n
  <2> HIDE DEF upper
  <2>1. upper(u) * SeqSize \in Nat
    BY <1>1, Sizes
  <2>2. upper(u) * SeqSize + m < upper(u) * SeqSize + n
    BY <1>3, <2>1, Sizes
  <2> QED BY <1>3, <2>2 DEF upper, Encode
<1> QED BY <1>2, <1>3

-----------------------------------------------------------------------------

\* The last identifier was made of what the generator holds.
LastInv == last # NoId => last = Encode(gen.ts, Instance, gen.seq)

IInv == TypeOK /\ LastInv

LEMMA EmitAdvances ==
    ASSUME IInv, Emit
    PROVE  /\ gen' \in [ts : Nat, seq : Seqs]
           /\ last' = Encode(gen'.ts, Instance, gen'.seq)
           /\ gen.ts < gen'.ts \/ (gen.ts = gen'.ts /\ gen.seq < gen'.seq)
<1>1. /\ clock \in Nat /\ gen.ts \in Nat /\ gen.seq \in 0..MaxSeq /\ MaxSeq \in Nat
      /\ gen' = Advance(gen, clock) /\ ~Refuses(gen, clock)
      /\ last' = Encode(gen'.ts, Instance, gen'.seq)
  BY FieldsAssumption, BoundsAssumption DEF IInv, TypeOK, Emit, Seqs
<1>2. CASE clock = gen.ts
  <2>1. gen' = [ts |-> clock, seq |-> gen.seq + 1] /\ gen.seq # MaxSeq
    BY <1>1, <1>2 DEF Advance, Refuses
  <2> QED BY <1>1, <1>2, <2>1 DEF Seqs
<1>3. CASE clock > gen.ts
  <2>1. gen' = [ts |-> clock, seq |-> 0]
    BY <1>1, <1>3 DEF Advance
  <2> QED BY <1>1, <1>3, <2>1 DEF Seqs
<1>4. clock >= gen.ts
  BY <1>1 DEF Refuses
<1> QED BY <1>1, <1>2, <1>3, <1>4

LEMMA InitIInv == Init => IInv
BY BoundsAssumption, FieldsAssumption DEF Init, IInv, TypeOK, LastInv, Seqs, NoId

LEMMA NextIInv == IInv /\ [Next]_vars => IInv'
<1> SUFFICES ASSUME IInv, [Next]_vars PROVE IInv'
  OBVIOUS
<1>1. CASE Emit
  <2>1. last' \in Nat
    BY <1>1, EmitAdvances, ParseEncode, InstanceAssumption
  <2> QED BY <1>1, <2>1, EmitAdvances, BoundsAssumption DEF Emit, IInv, TypeOK, LastInv
<1>2. CASE Resume
  <2>1. last = Encode(gen.ts, Instance, gen.seq)
    BY <1>2 DEF Resume, IInv, LastInv
  <2>2. gen.ts \in Nat /\ gen.seq \in Seqs
    BY DEF IInv, TypeOK
  <2>3. Parse(last) = [timestamp |-> gen.ts, instance |-> Instance, seq |-> gen.seq]
    BY <2>1, <2>2, ParseEncode, InstanceAssumption
  <2>4. gen' = [ts |-> gen.ts, seq |-> gen.seq]
    BY <1>2, <2>3 DEF Resume
  <2> QED BY <1>2, <2>1, <2>2, <2>4 DEF Resume, IInv, TypeOK, LastInv
<1>3. CASE Tick \/ SetBack
  BY <1>3, BoundsAssumption DEF Tick, SetBack, IInv, TypeOK, LastInv
<1>4. CASE Refuse \/ UNCHANGED vars
  BY <1>4 DEF Refuse, vars, IInv, TypeOK, LastInv
<1> QED BY <1>1, <1>2, <1>3, <1>4 DEF Next

\* The generator's state is well typed, and tells the last identifier.
THEOREM Invariant == Spec => []IInv
BY InitIInv, NextIInv, PTL DEF Spec

\* The sequence stays within its field and the time is never negative.
THEOREM TypeCorrect == Spec => []TypeOK
BY Invariant, PTL DEF IInv

\* Identifiers decode to what they were made of, for any width of the fields.
THEOREM Decodes == Spec => []DecodesToMaker
<1>1. IInv => DecodesToMaker
  <2> SUFFICES ASSUME IInv, last # NoId
               PROVE  Parse(last) = [timestamp |-> gen.ts, instance |-> Instance,
                                     seq |-> gen.seq]
    BY DEF DecodesToMaker
  <2>1. gen.ts \in Nat /\ gen.seq \in Seqs /\ last = Encode(gen.ts, Instance, gen.seq)
    BY DEF IInv, TypeOK, LastInv
  <2> QED BY <2>1, ParseEncode, InstanceAssumption
<1> QED BY <1>1, Invariant, PTL

\* Each identifier is greater than all before it, for any width of the fields,
\* any behaviour of the clock and any number of resumptions.
THEOREM StrictlyIncreasing == Spec => Increasing
<1>1. ASSUME IInv, [Next]_vars, made' # made PROVE last' > last
  <2>1. Emit
    BY <1>1 DEF Next, Refuse, Resume, Tick, SetBack, vars
  <2>2. gen.ts \in Nat /\ gen.seq \in Seqs
    BY <1>1 DEF IInv, TypeOK
  <2>3. /\ gen'.ts \in Nat /\ gen'.seq \in Seqs
        /\ last' = Encode(gen'.ts, Instance, gen'.seq)
        /\ gen.ts < gen'.ts \/ (gen.ts = gen'.ts /\ gen.seq < gen'.seq)
    BY <1>1, <2>1, EmitAdvances
  <2>4. CASE last = NoId
    BY <2>3, <2>4, ParseEncode, InstanceAssumption DEF NoId
  <2>5. CASE last # NoId
    <3>1. last = Encode(gen.ts, Instance, gen.seq)
      BY <1>1, <2>5 DEF IInv, LastInv
    <3>2. /\ Encode(gen.ts, Instance, gen.seq) \in Nat
          /\ Encode(gen'.ts, Instance, gen'.seq) \in Nat
      BY <2>2, <2>3, ParseEncode, InstanceAssumption
    <3> QED BY <2>2, <2>3, <3>1, <3>2, EncodeOrder, InstanceAssumption
  <2> QED BY <2>4, <2>5
<1>2. IInv /\ [Next]_vars => [made' # made => last' > last]_vars
  BY <1>1
<1> QED BY <1>2, Invariant, PTL DEF Spec, Increasing

-----------------------------------------------------------------------------
(* The calls of generate_snowflake.                                        *)

LEMMA Division ==
    ASSUME NEW a \in Nat, NEW d \in Nat \ {0}
    PROVE  /\ a \div d \in Nat /\ a % d \in 0..(d - 1)
           /\ a = (a \div d) * d + (a % d)
OBVIOUS

\* Truncation keeps the order: an earlier millisecond is an earlier tick.
LEMMA MillisecondsOrder ==
    ASSUME NEW a \in Nat, NEW b \in Nat
    PROVE  /\ Milliseconds(a) \in Nat /\ Milliseconds(b) \in Nat
           /\ Milliseconds(a) < Milliseconds(b) => a < b
           /\ a <= b => Milliseconds(a) <= Milliseconds(b)
<1> DEFINE p == Milliseconds(a)
           q == Milliseconds(b)
           r == a % TicksPerMs
           s == b % TicksPerMs
<1>1. /\ p \in Nat /\ r \in 0..(TicksPerMs - 1) /\ a = p * TicksPerMs + r
      /\ q \in Nat /\ s \in 0..(TicksPerMs - 1) /\ b = q * TicksPerMs + s
  BY Division, TicksAssumption DEF Milliseconds
<1> HIDE DEF p, q, r, s
<1>2. p < q => a < b
  BY <1>1, FieldOrder, TicksAssumption
<1>3. q < p => b < a
  BY <1>1, FieldOrder, TicksAssumption
<1>4. a <= b => p <= q
  BY <1>1, <1>3
<1> QED BY <1>1, <1>2, <1>4 DEF p, q

\* What one more millisecond of sleep adds up to.
LEMMA OneMore ==
    ASSUME NEW k \in Nat, NEW d \in Nat
    PROVE  k * d = (k - 1) * d + d
OBVIOUS

\* The clock in ticks, when call c made its generator.
Started(c) == MaxSetBack + began[c].now - began[c].setBack

\* A call that has been refused k times has slept k - 1 milliseconds or more
\* before it asked last, and the clock was then behind the one it started with.
Retries(c) ==
    /\ generator[c].seq = 0
    /\ generator[c].ts = Milliseconds(Started(c))
    /\ began[c].now <= now
    /\ began[c].setBack <= setBack
    /\ tries[c] > 0 =>
          /\ (tries[c] - 1) * TicksPerMs <= slept[c] - began[c].now
          /\ slept[c] - began[c].now < setBack - began[c].setBack
          /\ slept[c] <= now
    /\ pc[c] = "ask" /\ tries[c] > 0 => slept[c] + TicksPerMs <= now
    /\ pc[c] = "sleep" => tries[c] > 0
    /\ pc[c] = "failed" => tries[c] = MaxRetries

RetryInv == \A c \in Calls : pc[c] \in {"ask", "sleep", "failed"} => Retries(c)

\* A call that has not begun has not been refused.
IdleInv == \A c \in Calls : pc[c] = "idle" => tries[c] = 0

CallIInv == CallTypeOK /\ RetryInv /\ IdleInv

LEMMA InitCalls == CallInit => CallIInv
BY RetriesAssumption, CallBoundsAssumption DEF CallInit, CallIInv, CallTypeOK, RetryInv, IdleInv, NoId

\* What the type invariant says of one call.
LEMMA CallTypes ==
    ASSUME CallTypeOK, NEW c \in Calls
    PROVE  /\ generator[c].ts \in Nat /\ generator[c].seq \in Nat
           /\ began[c].setBack \in Nat /\ began[c].setBack <= MaxSetBack
           /\ began[c].now \in Nat /\ began[c].now <= MaxNow
           /\ tries[c] \in Nat /\ tries[c] <= MaxRetries /\ slept[c] \in Nat
           /\ now \in Nat /\ setBack \in Nat /\ setBack <= MaxSetBack
           /\ MaxSetBack \in Nat /\ MaxRetries \in Nat
           /\ MaxSetBack + now - setBack \in Nat /\ Started(c) \in Nat
           /\ Wall \in Nat /\ TicksPerMs \in Nat
<1>1. /\ generator[c].ts \in Nat /\ generator[c].seq \in Nat
      /\ began[c].setBack \in Nat /\ began[c].setBack <= MaxSetBack
      /\ began[c].now \in Nat /\ began[c].now <= MaxNow
      /\ tries[c] \in Nat /\ tries[c] <= MaxRetries /\ slept[c] \in Nat
      /\ now \in Nat /\ setBack \in Nat /\ setBack <= MaxSetBack
      /\ MaxSetBack \in Nat /\ MaxRetries \in Nat /\ TicksPerMs \in Nat
  BY RetriesAssumption, CallBoundsAssumption, TicksAssumption DEF CallTypeOK
<1>2. MaxSetBack + now - setBack \in Nat /\ Started(c) \in Nat
  BY <1>1 DEF Started
<1>3. Wall \in Nat
  BY <1>2, MillisecondsOrder DEF Wall
<1> QED BY <1>1, <1>2, <1>3

LEMMA NextCalls == CallIInv /\ [CallNext]_callVars => CallIInv'
<1> SUFFICES ASSUME CallIInv, [CallNext]_callVars PROVE CallIInv'
  OBVIOUS
<1>1. ASSUME NEW c \in Calls, Create(c) PROVE CallIInv'
  <2>1. CallTypeOK'
    BY <1>1, CallTypes DEF Create, CallIInv, CallTypeOK
  <2>2. IdleInv'
    BY <1>1 DEF Create, CallIInv, IdleInv, CallTypeOK
  <2>3. RetryInv'
    <3> SUFFICES ASSUME NEW d \in Calls, pc'[d] \in {"ask", "sleep", "failed"}
                 PROVE  Retries(d)'
      BY DEF RetryInv
    <3>1. CASE c = d
      <4>1. /\ generator'[d] = [ts |-> Wall, seq |-> 0]
            /\ began'[d].now = now /\ began'[d].setBack = setBack
            /\ tries'[d] = 0 /\ pc'[d] = "ask" /\ UNCHANGED <<now, setBack>>
        BY <1>1, <3>1 DEF Create, CallIInv, CallTypeOK, IdleInv
      <4>2. Started(d)' = MaxSetBack + now - setBack
        BY <4>1 DEF Started
      <4> QED BY <4>1, <4>2, CallTypes DEF Retries, Wall, CallIInv
    <3>2. CASE c # d
      BY <1>1, <3>2, CallTypes
         DEF Create, CallIInv, CallTypeOK, RetryInv, Retries, Started
    <3> QED BY <3>1, <3>2
  <2> QED BY <2>1, <2>2, <2>3 DEF CallIInv
<1>2. ASSUME NEW c \in Calls, Obtain(c) PROVE CallIInv'
  <2>1. CallTypeOK'
    <3>1. Advance(generator[c], Wall) \in [ts : Nat, seq : Nat]
      BY <1>2, CallTypes DEF CallIInv, Advance
    <3>2. Encode(generator'[c].ts, 0, generator'[c].seq) \in Int
      <4>1. generator'[c] \in [ts : Nat, seq : Nat]
        BY <1>2, <3>1 DEF Obtain, CallIInv, CallTypeOK
      <4>2. SeqSize \in Nat /\ InstanceSize \in Nat
        BY FieldsAssumption DEF SeqSize, InstanceSize
      <4> QED BY <4>1, <4>2 DEF Encode
    <3> QED BY <1>2, <3>1, <3>2 DEF Obtain, CallIInv, CallTypeOK
  <2>2. RetryInv' /\ IdleInv'
    BY <1>2 DEF Obtain, CallIInv, CallTypeOK, RetryInv, Retries, IdleInv, Started
  <2> QED BY <2>1, <2>2 DEF CallIInv
<1>3. ASSUME NEW c \in Calls, GoToSleep(c) PROVE CallIInv'
  <2>1. CallTypeOK' /\ IdleInv'
    BY <1>3, CallTypes DEF GoToSleep, RetriesLeft, CallIInv, CallTypeOK, IdleInv
  <2>2. Wall < generator[c].ts
    BY <1>3, FieldsAssumption DEF GoToSleep, Refuses, CallIInv, RetryInv, Retries
  <2>3. /\ pc[c] = "ask" /\ Retries(c) /\ CallTypeOK
        /\ tries'[c] = tries[c] + 1 /\ slept'[c] = now /\ pc'[c] = "sleep"
        /\ UNCHANGED <<now, setBack, generator, began>>
    BY <1>3 DEF GoToSleep, CallIInv, RetryInv, CallTypeOK
  <2>4. now - began[c].now < setBack - began[c].setBack
    <3>1. Milliseconds(MaxSetBack + now - setBack) < Milliseconds(Started(c))
      BY <2>2, <2>3 DEF Retries, Wall
    <3>2. MaxSetBack + now - setBack < Started(c)
      BY <2>3, <3>1, CallTypes, MillisecondsOrder
    <3> QED BY <2>3, <3>2, CallTypes DEF Started
  <2>5. tries[c] * TicksPerMs <= now - began[c].now
    <3> DEFINE most == (tries[c] - 1) * TicksPerMs
    <3>1. tries[c] \in Nat /\ TicksPerMs \in Nat /\ most \in Int
          /\ now \in Nat /\ slept[c] \in Nat /\ began[c].now \in Nat
      BY <2>3, CallTypes
    <3>2. CASE tries[c] = 0
      <4>1. 0 * TicksPerMs = 0
        BY <3>1
      <4> QED BY <2>3, <3>1, <3>2, <4>1 DEF Retries
    <3>3. CASE tries[c] > 0
      <4>1. most <= slept[c] - began[c].now /\ slept[c] + TicksPerMs <= now
        BY <2>3, <3>3 DEF Retries
      <4>2. tries[c] * TicksPerMs = most + TicksPerMs
        BY <3>1, OneMore
      <4> HIDE DEF most
      <4> QED BY <3>1, <4>1, <4>2
    <3> QED BY <3>1, <3>2, <3>3
  <2>6. Retries(c)'
    <3>1. tries[c] + 1 - 1 = tries[c] /\ tries[c] + 1 > 0
      BY <2>3, CallTypes
    <3>2. Started(c)' = Started(c)
      BY <2>3 DEF Started
    <3> QED BY <2>3, <2>4, <2>5, <3>1, <3>2, CallTypes DEF Retries
  <2>7. RetryInv'
    <3> SUFFICES ASSUME NEW d \in Calls, pc'[d] \in {"ask", "sleep", "failed"}
                 PROVE  Retries(d)'
      BY DEF RetryInv
    <3>1. CASE d # c
      BY <1>3, <3>1 DEF GoToSleep, CallIInv, CallTypeOK, RetryInv, Retries, Started
    <3> QED BY <2>6, <3>1
  <2> QED BY <2>1, <2>7 DEF CallIInv
<1>4. ASSUME NEW c \in Calls, WakeUp(c) PROVE CallIInv'
  BY <1>4, CallTypes DEF WakeUp, Rested, CallIInv, CallTypeOK, RetryInv, Retries, IdleInv, Started
<1>5. ASSUME NEW c \in Calls, GiveUp(c) PROVE CallIInv'
  BY <1>5, CallTypes DEF GiveUp, RetriesLeft, CallIInv, CallTypeOK, RetryInv, Retries, IdleInv, Started
<1>6. CASE TimePasses
  BY <1>6, CallTypes, CallBoundsAssumption
     DEF TimePasses, CallIInv, CallTypeOK, RetryInv, Retries, IdleInv, Started
<1>7. CASE SetClockBack
  BY <1>7, CallTypes, CallBoundsAssumption
     DEF SetClockBack, CallIInv, CallTypeOK, RetryInv, Retries, IdleInv, Started
<1>8. CASE UNCHANGED callVars
  BY <1>8 DEF callVars, CallIInv, CallTypeOK, RetryInv, Retries, IdleInv, Started
<1> QED BY <1>1, <1>2, <1>3, <1>4, <1>5, <1>6, <1>7, <1>8 DEF CallNext

\* The strengthened invariant the theorem below follows from.
THEOREM CallInvariant == CallSpec => []CallIInv
BY InitCalls, NextCalls, PTL DEF CallSpec

\* RuntimeError means that the clock was set back by more than max_retries - 1
\* milliseconds during the call, whatever other calls do.
THEOREM GivesUpOnlyOnSkew == CallSpec => []FailsOnlyOnSkew
<1>1. CallIInv => FailsOnlyOnSkew
  BY CallTypes, RetriesAssumption DEF CallIInv, RetryInv, Retries, FailsOnlyOnSkew, Started
<1> QED BY <1>1, CallInvariant, PTL

-----------------------------------------------------------------------------

\* As long as the clock has not been set back, no generator is ahead of it, what a
\* call returns tells what its generator holds, and a call holds a later time than
\* the calls that had returned when it began, or, once it returns, the number 1.
CallOrder(d) ==
    /\ generator[d].ts <= Wall
    /\ pc[d] = "done" =>
          /\ generator[d].seq \in {0, 1}
          /\ id[d] = Encode(generator[d].ts, 0, generator[d].seq)
    /\ pc[d] = "idle" => began[d].done = {}
    /\ \A c \in began[d].done :
          /\ pc[c] = "done"
          /\ generator[c].ts <= generator[d].ts
          /\ pc[d] = "done" /\ generator[c].ts = generator[d].ts
                => generator[d].seq = 1

OrderInv == setBack = 0 => \A d \in Calls : CallOrder(d)

LEMMA InitOrder == CallInit => OrderInv
<1> SUFFICES ASSUME CallInit PROVE OrderInv
  OBVIOUS
<1>1. ASSUME NEW d \in Calls PROVE Wall \in Nat
  <2>1. CallTypeOK
    BY InitCalls DEF CallIInv
  <2> QED BY <2>1, CallTypes
<1> QED BY <1>1 DEF CallInit, OrderInv, CallOrder

\* Obtain is the only action that lets a call return, and it returns the time it
\* reads: the same time again only with the number after that of the constructor.
LEMMA NextOrder == CallIInv /\ OrderInv /\ [CallNext]_callVars => OrderInv'
<1> SUFFICES ASSUME CallIInv, OrderInv, [CallNext]_callVars, setBack' = 0,
                    NEW d \in Calls
             PROVE  CallOrder(d)'
  BY DEF OrderInv
<1>0. CallTypeOK
  BY DEF CallIInv
<1>1. ASSUME NEW c \in Calls, Create(c) PROVE CallOrder(d)'
  <2>1. setBack = 0 /\ \A e \in Calls : CallOrder(e)
    BY <1>1 DEF Create, OrderInv
  <2>2. CASE c = d
    <3>1. /\ began'[d].done = {e \in Calls : pc[e] = "done"}
          /\ pc'[d] = "ask" /\ generator'[d].ts = Wall /\ Wall' = Wall
      BY <1>0, <1>1, <2>2 DEF Create, CallTypeOK, Wall
    <3>2. \A e \in Calls : pc[e] = "done" =>
              pc'[e] = "done" /\ generator'[e] = generator[e]
      BY <1>0, <1>1 DEF Create, CallTypeOK
    <3>3. Wall <= Wall
      BY <1>0, CallTypes, <2>2
    <3> QED BY <2>1, <3>1, <3>2, <3>3 DEF CallOrder
  <2>3. CASE c # d
    <3>1. /\ pc'[d] = pc[d] /\ generator'[d] = generator[d] /\ id' = id
          /\ began'[d] = began[d] /\ Wall' = Wall
      BY <1>0, <1>1, <2>3 DEF Create, CallTypeOK, Wall
    <3>2. \A e \in began[d].done : /\ pc'[e] = "done"
                                   /\ generator'[e] = generator[e]
      BY <1>0, <1>1, <2>1 DEF Create, CallTypeOK, CallOrder
    <3> QED BY <2>1, <3>1, <3>2 DEF CallOrder
  <2> QED BY <2>2, <2>3
<1>2. ASSUME NEW c \in Calls, Obtain(c) PROVE CallOrder(d)'
  <2>1. setBack = 0 /\ CallOrder(d) /\ Wall' = Wall /\ began' = began
    BY <1>2 DEF Obtain, OrderInv, Wall
  <2>2. \A e \in began[d].done : pc'[e] = "done" /\ generator'[e] = generator[e]
    BY <1>0, <1>2, <2>1 DEF Obtain, CallTypeOK, CallOrder
  <2>3. CASE c = d
    <3>1. generator[d].seq = 0 /\ generator[d].ts \in Nat /\ Wall \in Nat
      BY <1>0, <1>2, <2>3, CallTypes DEF Obtain, CallIInv, RetryInv, Retries
    <3>2. /\ pc'[d] = "done"
          /\ generator'[d] = Advance(generator[d], Wall)
          /\ id'[d] = Encode(generator'[d].ts, 0, generator'[d].seq)
      BY <1>0, <1>2, <2>3 DEF Obtain, CallTypeOK
    <3>3. /\ generator'[d].ts = Wall
          /\ generator'[d].seq = IF Wall = generator[d].ts THEN 1 ELSE 0
      BY <3>1, <3>2 DEF Advance
    <3>4. \A e \in began[d].done : generator[e].ts \in Nat
      BY <1>0 DEF CallTypeOK
    <3> QED BY <2>1, <2>2, <3>1, <3>2, <3>3, <3>4 DEF CallOrder
  <2>4. CASE c # d
    <3>1. pc'[d] = pc[d] /\ generator'[d] = generator[d] /\ id'[d] = id[d]
      BY <1>0, <1>2, <2>4 DEF Obtain, CallTypeOK
    <3> QED BY <2>1, <2>2, <3>1 DEF CallOrder
  <2> QED BY <2>3, <2>4
<1>3. ASSUME NEW c \in Calls, GoToSleep(c) \/ WakeUp(c) \/ GiveUp(c)
      PROVE  CallOrder(d)'
  <2>1. /\ setBack = 0 /\ CallOrder(d) /\ Wall' = Wall
        /\ UNCHANGED <<generator, id, began>>
    BY <1>3 DEF GoToSleep, WakeUp, GiveUp, OrderInv, Wall
  <2>2. /\ \A e \in Calls : pc[e] = "done" => pc'[e] = "done"
        /\ pc'[d] \in {"done", "idle"} => pc'[d] = pc[d]
    BY <1>0, <1>3 DEF GoToSleep, WakeUp, GiveUp, CallTypeOK
  <2>3. began[d].done \subseteq Calls
    BY <1>0 DEF CallTypeOK
  <2> QED BY <2>1, <2>2, <2>3 DEF CallOrder
<1>4. CASE TimePasses
  <2>1. /\ setBack = 0 /\ CallOrder(d)
        /\ UNCHANGED <<generator, id, began, pc>>
    BY <1>4 DEF TimePasses, OrderInv
  <2>2. Wall \in Nat /\ Wall' \in Nat /\ Wall <= Wall'
    <3> DEFINE before == MaxSetBack + now - setBack
               after == before + 1
    <3>1. before \in Nat /\ after \in Nat /\ before <= after
      BY <1>0, CallTypes
    <3>2. MaxSetBack + now' - setBack' = after
      BY <1>0, <1>4, CallTypes DEF TimePasses
    <3>3. Wall = Milliseconds(before) /\ Wall' = Milliseconds(after)
      BY <3>2 DEF Wall
    <3> HIDE DEF before, after
    <3> QED BY <3>1, <3>3, MillisecondsOrder
  <2>3. generator[d].ts \in Nat
    BY <1>0, CallTypes
  <2>4. generator[d].ts <= Wall'
    BY <2>1, <2>2, <2>3 DEF CallOrder
  <2> QED BY <2>1, <2>4 DEF CallOrder
<1>5. CASE SetClockBack
  BY <1>0, <1>5, CallTypes, CallBoundsAssumption DEF SetClockBack, CallTypeOK
<1>6. CASE UNCHANGED callVars
  BY <1>6 DEF callVars, OrderInv, CallOrder, Wall
<1> QED BY <1>1, <1>2, <1>3, <1>4, <1>5, <1>6 DEF CallNext

\* Of two calls, the one that began when the other had returned gets an identifier
\* that is not smaller, as long as the clock has not been set back: rows whose keys
\* come from generate_snowflake are ordered in time.
THEOREM CallsOrdered == CallSpec => []OrderedInTime
<1>1. CallIInv /\ OrderInv => OrderedInTime
  <2> SUFFICES ASSUME CallIInv, OrderInv, setBack = 0,
                      NEW c \in Calls, NEW d \in Calls,
                      pc[c] = "done", pc[d] = "done", c \in began[d].done
               PROVE  id[d] >= id[c]
    BY DEF OrderedInTime
  <2>1. CallOrder(c) /\ CallOrder(d)
    BY DEF OrderInv
  <2>2. generator[c].ts \in Nat /\ generator[d].ts \in Nat
    BY CallTypes DEF CallIInv
  <2>3. 0 \in Seqs /\ 1 \in Seqs /\ 0 \in Instances
    BY FieldsAssumption DEF Seqs, Instances
  <2>4. id[c] \in Nat /\ id[d] \in Nat
    BY <2>1, <2>2, <2>3, ParseEncode DEF CallOrder
  <2>5. CASE generator[c].ts < generator[d].ts
    BY <2>1, <2>2, <2>3, <2>4, <2>5, EncodeOrder DEF CallOrder
  <2>6. CASE generator[c].ts = generator[d].ts
    <3>1. generator[d].seq = 1 /\ generator[c].seq \in {0, 1}
      BY <2>1, <2>6 DEF CallOrder
    <3>2. CASE generator[c].seq = 1
      BY <2>1, <2>4, <2>6, <3>1, <3>2 DEF CallOrder
    <3>3. CASE generator[c].seq = 0
      BY <2>1, <2>2, <2>3, <2>4, <2>6, <3>1, <3>3, EncodeOrder DEF CallOrder
    <3> QED BY <3>1, <3>2, <3>3
  <2> QED BY <2>1, <2>2, <2>5, <2>6 DEF CallOrder
<1>2. CallInit => CallIInv /\ OrderInv
  BY InitCalls, InitOrder
<1>3. CallIInv /\ OrderInv /\ [CallNext]_callVars => CallIInv' /\ OrderInv'
  BY NextCalls, NextOrder
<1> QED BY <1>1, <1>2, <1>3, PTL DEF CallSpec

\* The type invariant of the calls.
THEOREM CallsTypeCorrect == CallSpec => []CallTypeOK
BY CallInvariant, PTL DEF CallIInv
=============================================================================
