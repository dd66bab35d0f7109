-------------------------- MODULE BackgroundProofs --------------------------
(***************************************************************************)
(* What Background guarantees for any number of units, workers, handlers,  *)
(* tasks and retries: a task runs after the commit it waits for, and its   *)
(* first attempt under the trace of its unit; tasks are sent in the order  *)
(* they were asked for and none is forgotten; and an event reaches every   *)
(* handler that waits for it once.                                         *)
(***************************************************************************)
EXTENDS Background, FiniteSetTheorems, SequenceTheorems, TLAPS

-----------------------------------------------------------------------------
(* Sequences.                                                              *)

\* An appended element comes last and the others stay where they are.
LEMMA Appended ==
    ASSUME NEW S, NEW q \in Seq(S), NEW x \in S
    PROVE  /\ Append(q, x) \in Seq(S) /\ Append(q, x) # <<>>
           /\ Len(Append(q, x)) = Len(q) + 1 /\ DOMAIN Append(q, x) = 1..(Len(q) + 1)
           /\ DOMAIN q = 1..Len(q) /\ Len(q) \in Nat
           /\ Append(q, x)[Len(q) + 1] = x
           /\ \A i \in 1..Len(q) : Append(q, x)[i] = q[i]
<1>1. Append(q, x) \in Seq(S) /\ Len(Append(q, x)) = Len(q) + 1 /\ Len(q) \in Nat
  OBVIOUS
<1>2. Append(q, x) # <<>>
  BY <1>1
<1>3. DOMAIN q = 1..Len(q) /\ DOMAIN Append(q, x) = 1..(Len(q) + 1)
  BY <1>1
<1>4. Append(q, x)[Len(q) + 1] = x /\ \A i \in 1..Len(q) : Append(q, x)[i] = q[i]
  OBVIOUS
<1> QED BY <1>1, <1>2, <1>3, <1>4

\* The rest of a sequence that is not empty.
LEMMA HeadOff ==
    ASSUME NEW S, NEW q \in Seq(S), q # <<>>
    PROVE  /\ Head(q) \in S /\ Tail(q) \in Seq(S) /\ Head(q) = q[1]
           /\ Len(q) \in Nat \ {0} /\ Len(Tail(q)) = Len(q) - 1
           /\ DOMAIN q = 1..Len(q) /\ DOMAIN Tail(q) = 1..(Len(q) - 1)
           /\ \A i \in 1..(Len(q) - 1) : Tail(q)[i] = q[i + 1]
<1>1. Len(q) \in Nat \ {0} /\ DOMAIN q = 1..Len(q)
  OBVIOUS
<1>2. Head(q) \in S /\ Tail(q) \in Seq(S) /\ Head(q) = q[1] /\ Len(Tail(q)) = Len(q) - 1
  OBVIOUS
<1>3. DOMAIN Tail(q) = 1..(Len(q) - 1) /\ \A i \in 1..(Len(q) - 1) : Tail(q)[i] = q[i + 1]
  BY <1>1
<1> QED BY <1>1, <1>2, <1>3

\* A sequence without its i-th element: the ones before it stay, the others move up.
LEMMA Removed ==
    ASSUME NEW S, NEW q \in Seq(S), NEW i \in 1..Len(q)
    PROVE  /\ RemoveAt(q, i) \in Seq(S) /\ Len(RemoveAt(q, i)) = Len(q) - 1
           /\ Len(q) \in Nat
           /\ \A j \in 1..(Len(q) - 1) :
                  RemoveAt(q, i)[j] = IF j < i THEN q[j] ELSE q[j + 1]
<1> DEFINE a == SubSeq(q, 1, i - 1)
           b == SubSeq(q, i + 1, Len(q))
<1>0. Len(q) \in Nat /\ i \in Nat /\ 1 <= i /\ i <= Len(q)
  OBVIOUS
<1>1. a \in Seq(S) /\ Len(a) = i - 1 /\ \A j \in 1..(i - 1) : a[j] = q[j]
  BY <1>0
<1>2. b \in Seq(S) /\ Len(b) = Len(q) - i /\ \A j \in 1..(Len(q) - i) : b[j] = q[i + j]
  BY <1>0
<1> HIDE DEF a, b
<1>3. a \o b \in Seq(S) /\ Len(a \o b) = Len(q) - 1
  <2>1. a \o b \in Seq(S) /\ Len(a \o b) = Len(a) + Len(b)
    BY <1>1, <1>2, ConcatProperties
  <2> QED BY <1>0, <1>1, <1>2, <2>1
<1>4. ASSUME NEW j \in 1..(Len(q) - 1)
      PROVE  (a \o b)[j] = IF j < i THEN q[j] ELSE q[j + 1]
  <2>1. CASE j < i
    BY <1>0, <1>1, <1>2, <2>1
  <2>2. CASE ~(j < i)
    <3>1. (a \o b)[j] = b[j - (i - 1)]
      BY <1>0, <1>1, <1>2, <2>2
    <3>2. j - (i - 1) \in 1..(Len(q) - i) /\ i + (j - (i - 1)) = j + 1
      BY <1>0, <2>2
    <3> QED BY <1>2, <2>2, <3>1, <3>2
  <2> QED BY <2>1, <2>2
<1> QED BY <1>0, <1>3, <1>4 DEF RemoveAt, a, b

-----------------------------------------------------------------------------
(* The invariant: a unit, a message and a publication, each by itself.     *)

Active == {"scheduled", "running", "handling"}

\* A unit, r, and what its publication is doing.  A row is pending only in an open
\* transaction, callbacks and loops wait for a row, and a publication that is under
\* way tells of one; a transaction waits for its publication.
UnitOK(r, state) ==
    /\ r.mode = "async" => r.row # "pending"
    /\ r.mode = "atomic" /\ r.pc \in {"work", "await"} => r.row # "committed"
    /\ r.pc = "idle" => state = "none" /\ r.row = "none" /\ r.hooks = <<>>
    /\ r.pc = "bulk" => r.mode = "async" /\ r.row = "committed"
    /\ r.pc = "hooks" => r.row # "pending"
    /\ r.hooks # <<>> => r.row # "none"
    /\ state \in Active => r.row # "none" /\ (r.mode = "atomic" => r.pc = "await")

\* What unit r asked for and what it sent.  Task n is taken care of when it was sent or
\* waits for the commit; each is but for those that a failure lost, and until handlers
\* ask in the unit's name they come in the order of asking.
TakenCareOf(r, n) == \/ \E i \in DOMAIN r.sent : r.sent[i] = n
                     \/ \E i \in DOMAIN r.hooks : r.hooks[i] = n

InOrder(r) == /\ \A i \in DOMAIN r.sent : r.sent[i] = i
              /\ \A i \in DOMAIN r.hooks : r.hooks[i] = Len(r.sent) + i
              /\ r.pc # "failed" => Len(r.sent) + Len(r.hooks) = r.asked

SendOK(r, state) ==
    /\ r.pc = "bulk" <=> r.left > 0
    /\ r.asked + r.left <= MaxTasks
    /\ r.mode = "async" \/ r.pc = "done" => r.hooks = <<>>
    /\ \A i \in DOMAIN r.hooks : r.hooks[i] <= r.asked
    /\ \A i \in DOMAIN r.sent : r.sent[i] <= r.asked
    /\ r.pc # "failed" => \A n \in 1..r.asked : TakenCareOf(r, n)
    /\ state = "none" => InOrder(r)

\* A message about unit r: it has begun, its row is committed, its trace is that of
\* the message.
MessageOK(m, r) ==
    /\ r.pc # "idle"
    /\ ~m.early => r.row = "committed"
    /\ m.attempt = 0 => m.trace = r.trace

\* Of publication p none of those subscribed when it began was unsubscribed: they are
\* the first k of the list, each of them before p's position was called at its place,
\* and whatever was called later is none of them.
OnCourse(p, list) == \E k \in 0..Len(list) :
    /\ p.throughout = {list[i] : i \in 1..k}
    /\ \A i \in DOMAIN p.invoked : IF i <= k THEN p.invoked[i] = list[i]
                                             ELSE p.invoked[i] \notin p.throughout

PublicationOK(p, list) ==
    /\ p.state \in {"none", "scheduled"} =>
           p.at = 1 /\ p.throughout = {} /\ p.shrunk = FALSE
    /\ Len(p.invoked) = p.at - 1
    /\ p.state \in {"running", "handling"} /\ ~p.shrunk => OnCourse(p, list)
    /\ p.state = "over" /\ ~p.shrunk => \A h \in p.throughout : CalledOnce(p, h)

-----------------------------------------------------------------------------
(* What a step does to a unit's tasks: unit r turns into s, the state of its  *)
(* publication into now.                                                      *)

\* None is asked for and none is sent.
Quiet(r, s) ==
    /\ s.left = r.left /\ s.asked = r.asked /\ s.hooks = r.hooks /\ s.sent = r.sent
    /\ s.pc # "idle" /\ (s.pc = "bulk" <=> r.pc = "bulk")
    /\ r.pc = "failed" => s.pc = "failed"
    /\ s.mode = "async" \/ s.pc = "done" => s.hooks = <<>>

LEMMA QuietSends ==
    ASSUME NEW r, NEW s, NEW state, NEW now, SendOK(r, state), Quiet(r, s),
           now = "none" => state = "none"
    PROVE  SendOK(s, now)
BY DEF SendOK, Quiet, TakenCareOf, InOrder

\* The next task is asked for, to be sent after the commit.
LEMMA HookSends ==
    ASSUME NEW r \in Unit, NEW s \in Unit, NEW state, SendOK(r, state),
           s.pc = r.pc, s.mode = r.mode, r.mode = "atomic", r.pc = "work",
           s.left = r.left, s.asked = r.asked + 1, s.asked + s.left <= MaxTasks,
           s.sent = r.sent, s.hooks = Append(r.hooks, s.asked), s.asked \in 1..MaxTasks
    PROVE  SendOK(s, state)
<1> DEFINE h == Append(r.hooks, s.asked)
<1>0. r.asked \in Nat /\ r.sent \in Seq(1..MaxTasks) /\ r.hooks \in Seq(1..MaxTasks)
      /\ r.asked + 1 = s.asked
  BY BoundAssumption DEF Unit
<1>1. /\ DOMAIN h = 1..(Len(r.hooks) + 1) /\ DOMAIN r.hooks = 1..Len(r.hooks)
      /\ Len(h) = Len(r.hooks) + 1 /\ Len(r.hooks) \in Nat
      /\ h[Len(r.hooks) + 1] = s.asked /\ \A i \in 1..Len(r.hooks) : h[i] = r.hooks[i]
  BY <1>0, Appended
<1> HIDE DEF h
<1>2. s.hooks = h
  BY DEF h
<1>a. Len(r.sent) \in Nat /\ \A i \in DOMAIN r.hooks : r.hooks[i] \in Nat
  BY <1>0, BoundAssumption
<1>b. \A i \in DOMAIN r.sent : r.sent[i] \in Nat
  BY <1>0, BoundAssumption
<1>3. \A i \in DOMAIN s.hooks : s.hooks[i] <= s.asked
  BY <1>0, <1>1, <1>2, <1>a DEF SendOK
<1>4. \A i \in DOMAIN s.sent : s.sent[i] <= s.asked
  BY <1>0, <1>b DEF SendOK
<1>5. ASSUME NEW n \in 1..s.asked PROVE TakenCareOf(s, n)
  <2>1. CASE n = s.asked
    BY <1>1, <1>2, <2>1 DEF TakenCareOf
  <2>2. CASE n # s.asked
    <3>1. TakenCareOf(r, n)
      BY <1>0, <2>2 DEF SendOK
    <3> QED BY <1>1, <1>2, <3>1 DEF TakenCareOf
  <2> QED BY <2>1, <2>2
<1>6. ASSUME state = "none" PROVE InOrder(s)
  <2>1. InOrder(r)
    BY <1>6 DEF SendOK
  <2>2. Len(r.sent) + Len(r.hooks) = r.asked
    BY <2>1 DEF InOrder
  <2> DEFINE m == Len(r.sent)
             l == Len(r.hooks)
             a == r.asked
  <2>a. /\ m \in Nat /\ l \in Nat /\ a \in Nat /\ m + l = a
        /\ Len(s.sent) = m /\ Len(s.hooks) = l + 1 /\ s.asked = a + 1
    BY <1>0, <1>1, <1>2, <1>a, <2>2
  <2>b. ASSUME NEW i \in DOMAIN h PROVE h[i] = m + i
    <3>1. CASE i = l + 1
      <4>1. h[i] = a + 1
        BY <1>0, <1>1, <3>1
      <4> HIDE DEF m, l, a
      <4> QED BY <2>a, <3>1, <4>1
    <3>2. CASE i # l + 1
      <4>1. i \in 1..Len(r.hooks)
        BY <1>1, <3>2
      <4> QED BY <1>1, <2>1, <4>1 DEF InOrder
    <3> QED BY <3>1, <3>2
  <2>3. \A i \in DOMAIN s.hooks : s.hooks[i] = Len(s.sent) + i
    BY <1>2, <2>a, <2>b
  <2>4. Len(s.sent) + Len(s.hooks) = s.asked
    <3> HIDE DEF m, l, a
    <3> QED BY <2>a
  <2> QED BY <2>1, <2>3, <2>4 DEF InOrder
<1>7. (s.pc = "bulk" <=> s.left > 0) /\ s.mode # "async" /\ s.pc # "done"
  BY DEF SendOK
<1> QED BY <1>3, <1>4, <1>5, <1>6, <1>7 DEF SendOK

\* The next task is asked for and sent.
LEMMA NextSends ==
    ASSUME NEW r \in Unit, NEW s \in Unit, NEW state, NEW now, SendOK(r, state),
           s.mode = r.mode, s.asked = r.asked + 1, s.asked + s.left <= MaxTasks,
           s.pc = "bulk" <=> s.left > 0, s.pc = "done" => r.pc = "done",
           r.pc = "failed" => s.pc = "failed", s.asked \in 1..MaxTasks,
           s.hooks = r.hooks, s.sent = Append(r.sent, s.asked),
           now = "none" => state = "none" /\ r.mode = "async" /\ r.pc # "failed"
    PROVE  SendOK(s, now)
<1> DEFINE q == Append(r.sent, s.asked)
<1>0. r.asked \in Nat /\ r.sent \in Seq(1..MaxTasks) /\ r.hooks \in Seq(1..MaxTasks)
      /\ r.asked + 1 = s.asked
  BY BoundAssumption DEF Unit
<1>1. /\ DOMAIN q = 1..(Len(r.sent) + 1) /\ DOMAIN r.sent = 1..Len(r.sent)
      /\ Len(q) = Len(r.sent) + 1 /\ Len(r.sent) \in Nat
      /\ q[Len(r.sent) + 1] = s.asked /\ \A i \in 1..Len(r.sent) : q[i] = r.sent[i]
  BY <1>0, Appended
<1> HIDE DEF q
<1>2. s.sent = q
  BY DEF q
<1>a. \A i \in DOMAIN r.hooks : r.hooks[i] \in Nat
  BY <1>0, BoundAssumption
<1>b. \A i \in DOMAIN r.sent : r.sent[i] \in Nat
  BY <1>0, BoundAssumption
<1>3. \A i \in DOMAIN s.hooks : s.hooks[i] <= s.asked
  BY <1>0, <1>a DEF SendOK
<1>4. \A i \in DOMAIN s.sent : s.sent[i] <= s.asked
  BY <1>0, <1>1, <1>2, <1>b DEF SendOK
<1>5. ASSUME s.pc # "failed", NEW n \in 1..s.asked PROVE TakenCareOf(s, n)
  <2>1. CASE n = s.asked
    BY <1>1, <1>2, <2>1 DEF TakenCareOf
  <2>2. CASE n # s.asked
    <3>1. TakenCareOf(r, n)
      BY <1>0, <1>5, <2>2 DEF SendOK
    <3> QED BY <1>1, <1>2, <3>1 DEF TakenCareOf
  <2> QED BY <2>1, <2>2
<1>6. ASSUME now = "none" PROVE InOrder(s)
  <2>1. InOrder(r) /\ r.hooks = <<>> /\ r.pc # "failed"
    BY <1>6 DEF SendOK
  <2>2. Len(r.sent) = r.asked /\ Len(s.hooks) = 0 /\ DOMAIN s.hooks = {}
    BY <1>0, <1>1, <2>1 DEF InOrder
  <2>3. \A i \in DOMAIN s.sent : s.sent[i] = i
    BY <1>0, <1>1, <1>2, <2>1, <2>2 DEF InOrder
  <2> QED BY <1>0, <1>1, <1>2, <2>2, <2>3 DEF InOrder
<1>7. s.mode = "async" \/ s.pc = "done" => s.hooks = <<>>
  BY DEF SendOK
<1> QED BY <1>3, <1>4, <1>5, <1>6, <1>7 DEF SendOK

\* The first task that waits for the commit is sent.
LEMMA CallbackSends ==
    ASSUME NEW r \in Unit, NEW s \in Unit, NEW state, SendOK(r, state),
           r.hooks # <<>>, s.pc = r.pc, s.mode = r.mode, s.asked = r.asked,
           s.left = r.left, s.hooks = Tail(r.hooks), s.sent = Append(r.sent, Head(r.hooks))
    PROVE  SendOK(s, state)
<1> DEFINE q == Append(r.sent, Head(r.hooks))
           t == Tail(r.hooks)
<1>0. r.asked \in Nat /\ r.sent \in Seq(1..MaxTasks) /\ r.hooks \in Seq(1..MaxTasks)
  BY BoundAssumption DEF Unit
<1>1. /\ Head(r.hooks) \in 1..MaxTasks /\ Head(r.hooks) = r.hooks[1]
      /\ Len(r.hooks) \in Nat \ {0} /\ Len(t) = Len(r.hooks) - 1
      /\ DOMAIN r.hooks = 1..Len(r.hooks) /\ DOMAIN t = 1..(Len(r.hooks) - 1)
      /\ \A i \in 1..(Len(r.hooks) - 1) : t[i] = r.hooks[i + 1]
  BY <1>0, HeadOff
<1>2. /\ DOMAIN q = 1..(Len(r.sent) + 1) /\ DOMAIN r.sent = 1..Len(r.sent)
      /\ Len(q) = Len(r.sent) + 1 /\ Len(r.sent) \in Nat
      /\ q[Len(r.sent) + 1] = r.hooks[1] /\ \A i \in 1..Len(r.sent) : q[i] = r.sent[i]
  BY <1>0, <1>1, Appended
<1> HIDE DEF q, t
<1>3. s.sent = q /\ s.hooks = t
  BY DEF q, t
<1>4. \A i \in DOMAIN s.hooks : s.hooks[i] <= s.asked
  <2> SUFFICES ASSUME NEW i \in DOMAIN t PROVE t[i] <= r.asked
    BY <1>3
  <2>1. t[i] = r.hooks[i + 1] /\ i + 1 \in DOMAIN r.hooks
    BY <1>1
  <2> QED BY <2>1 DEF SendOK
<1>5. \A i \in DOMAIN s.sent : s.sent[i] <= s.asked
  BY <1>1, <1>2, <1>3 DEF SendOK
<1>6. ASSUME s.pc # "failed", NEW n \in 1..s.asked PROVE TakenCareOf(s, n)
  <2>1. TakenCareOf(r, n)
    BY <1>6 DEF SendOK
  <2>2. ASSUME NEW i \in DOMAIN r.sent, r.sent[i] = n PROVE TakenCareOf(s, n)
    BY <1>2, <1>3, <2>2 DEF TakenCareOf
  <2>3. ASSUME NEW i \in DOMAIN r.hooks, r.hooks[i] = n PROVE TakenCareOf(s, n)
    <3>1. CASE i = 1
      BY <1>2, <1>3, <2>3, <3>1 DEF TakenCareOf
    <3>2. CASE i # 1
      <4>1. i - 1 \in 1..(Len(r.hooks) - 1) /\ (i - 1) + 1 = i
        BY <1>1, <3>2
      <4>2. i - 1 \in DOMAIN t /\ t[i - 1] = n
        BY <1>1, <2>3, <4>1
      <4> QED BY <1>3, <4>2 DEF TakenCareOf
    <3> QED BY <3>1, <3>2
  <2> QED BY <2>1, <2>2, <2>3 DEF TakenCareOf
<1>7. ASSUME state = "none" PROVE InOrder(s)
  <2>1. InOrder(r)
    BY <1>7 DEF SendOK
  <2>2. r.hooks[1] = Len(r.sent) + 1
    BY <1>1, <2>1 DEF InOrder
  <2>3. \A i \in DOMAIN s.sent : s.sent[i] = i
    BY <1>2, <1>3, <2>1, <2>2 DEF InOrder
  <2>4. ASSUME NEW i \in DOMAIN t PROVE t[i] = Len(q) + i
    <3>1. t[i] = r.hooks[i + 1] /\ i + 1 \in DOMAIN r.hooks /\ i \in Nat
      BY <1>1
    <3>2. r.hooks[i + 1] = Len(r.sent) + (i + 1)
      BY <2>1, <3>1 DEF InOrder
    <3> DEFINE m == Len(r.sent)
    <3>3. m \in Nat /\ Len(q) = m + 1 /\ t[i] = m + (i + 1)
      BY <1>2, <3>1, <3>2
    <3> HIDE DEF m
    <3> QED BY <3>1, <3>3
  <2>5. ASSUME s.pc # "failed" PROVE Len(s.sent) + Len(s.hooks) = s.asked
    <3> DEFINE m == Len(r.sent)
               l == Len(r.hooks)
    <3>1. m \in Nat /\ l \in Nat /\ Len(q) = m + 1 /\ Len(t) = l - 1
      BY <1>1, <1>2
    <3>2. m + l = s.asked
      BY <2>1, <2>5 DEF InOrder
    <3> HIDE DEF m, l
    <3>3. Len(q) + Len(t) = s.asked
      BY <3>1, <3>2
    <3> QED BY <1>3, <3>3
  <2> QED BY <1>3, <2>3, <2>4, <2>5 DEF InOrder
<1>8. s.mode = "async" \/ s.pc = "done" => s.hooks = <<>>
  BY DEF SendOK
<1>9. (s.pc = "bulk" <=> s.left > 0) /\ s.asked + s.left <= MaxTasks
  BY DEF SendOK
<1> QED BY <1>4, <1>5, <1>6, <1>7, <1>8, <1>9 DEF SendOK

\* The unit fails: what waits for the commit is lost, and the task asked for last.
LEMMA FailureSends ==
    ASSUME NEW r \in Unit, NEW s \in Unit, NEW state, SendOK(r, state),
           s.pc = "failed", s.hooks = <<>>, s.sent = r.sent, s.left = 0,
           r.asked <= s.asked, s.asked <= r.asked + r.left
    PROVE  SendOK(s, state)
<1>1. r.asked \in Nat /\ s.asked \in Nat /\ r.left \in Nat /\ MaxTasks \in Nat
  BY BoundAssumption DEF Unit
<1>2. DOMAIN s.hooks = {}
  OBVIOUS
<1>3. \A i \in DOMAIN r.sent : r.sent[i] \in Nat
  BY BoundAssumption DEF Unit
<1>4. \A i \in DOMAIN s.sent : s.sent[i] <= s.asked
  BY <1>1, <1>3 DEF SendOK
<1>5. s.asked + s.left <= MaxTasks
  BY <1>1 DEF SendOK
<1>6. state = "none" => InOrder(s)
  BY <1>2 DEF SendOK, InOrder
<1> QED BY <1>2, <1>4, <1>5, <1>6 DEF SendOK

-----------------------------------------------------------------------------
(* What a step does to a publication, p, that turns into q.                *)

\* No handler is in the list twice.
LEMMA Apart ==
    ASSUME NEW list, IsInjective(list), NEW i \in DOMAIN list, NEW j \in DOMAIN list,
           list[i] = list[j]
    PROVE  i = j
BY DEF IsInjective

\* It begins with the handlers that are in the list.
LEMMA EntersOK ==
    ASSUME NEW list \in Seq(Handlers), NEW p \in Publication, NEW q \in Publication,
           PublicationOK(p, list), p.state \in {"none", "scheduled"},
           q.state = (IF list = <<>> THEN "over" ELSE "running"),
           q.at = p.at, q.invoked = p.invoked, q.throughout = ToSet(list)
    PROVE  PublicationOK(q, list)
<1>1. DOMAIN list = 1..Len(list) /\ Len(list) \in Nat
  OBVIOUS
<1>2. q.throughout = {list[i] : i \in 1..Len(list)}
  BY <1>1 DEF ToSet
<1>3. q.at = 1 /\ Len(q.invoked) = 0 /\ DOMAIN q.invoked = {}
  <2>1. q.at = 1 /\ Len(q.invoked) = 0 /\ q.invoked \in Seq(Handlers)
    BY DEF PublicationOK, Publication
  <2> QED BY <2>1
<1>4. OnCourse(q, list)
  BY <1>1, <1>2, <1>3 DEF OnCourse
<1>5. CASE list = <<>>
  <2>1. q.throughout = {} /\ q.state = "over"
    BY <1>2, <1>5
  <2> QED BY <1>3, <2>1 DEF PublicationOK
<1>6. CASE list # <<>>
  BY <1>3, <1>4, <1>6 DEF PublicationOK
<1> QED BY <1>5, <1>6

\* It calls the handler at its position.
LEMMA CallsOK ==
    ASSUME NEW list \in Seq(Handlers), IsInjective(list),
           NEW p \in Publication, NEW q \in Publication,
           PublicationOK(p, list), p.state = "running", p.at <= Len(list),
           q.state = "handling", q.at = p.at + 1, q.throughout = p.throughout,
           q.shrunk = p.shrunk, q.invoked = Append(p.invoked, list[p.at])
    PROVE  PublicationOK(q, list)
<1> DEFINE n == Len(p.invoked)
           now == Append(p.invoked, list[p.at])
<1>0. p.at \in Nat /\ p.invoked \in Seq(Handlers)
  BY DEF Publication
<1>1. n \in Nat /\ p.at = n + 1 /\ p.at \in DOMAIN list /\ list[p.at] \in Handlers
  BY <1>0 DEF PublicationOK
<1>2. /\ DOMAIN now = 1..(n + 1) /\ DOMAIN p.invoked = 1..n /\ Len(now) = n + 1
      /\ now[n + 1] = list[p.at] /\ \A i \in 1..n : now[i] = p.invoked[i]
  BY <1>0, <1>1, Appended
<1> HIDE DEF n, now
<1>3. q.invoked = now
  BY DEF now
<1>4. ASSUME ~q.shrunk PROVE OnCourse(q, list)
  <2>1. PICK k \in 0..Len(list) :
          /\ p.throughout = {list[i] : i \in 1..k}
          /\ \A i \in DOMAIN p.invoked : IF i <= k THEN p.invoked[i] = list[i]
                                                   ELSE p.invoked[i] \notin p.throughout
    BY <1>4 DEF PublicationOK, OnCourse
  <2>2. ASSUME NEW i \in DOMAIN now
        PROVE  IF i <= k THEN now[i] = list[i] ELSE now[i] \notin p.throughout
    <3>1. CASE i \in 1..n
      BY <1>2, <2>1, <3>1
    <3>2. CASE i \notin 1..n
      <4>1. i = p.at /\ now[i] = list[p.at]
        BY <1>1, <1>2, <3>2
      <4>2. ASSUME ~(i <= k), NEW j \in 1..k, now[i] = list[j] PROVE FALSE
        <5>1. j \in DOMAIN list /\ j # p.at
          BY <1>1, <4>1, <4>2
        <5> QED BY <1>1, <4>1, <4>2, <5>1, Apart
      <4> QED BY <2>1, <4>1, <4>2
    <3> QED BY <3>1, <3>2
  <2> QED BY <1>3, <2>1, <2>2 DEF OnCourse
<1>5. Len(q.invoked) = q.at - 1
  BY <1>1, <1>2, <1>3
<1> QED BY <1>4, <1>5 DEF PublicationOK

\* It has come to the end of the list.
LEMMA EndsOK ==
    ASSUME NEW list \in Seq(Handlers), IsInjective(list),
           NEW p \in Publication, NEW q \in Publication,
           PublicationOK(p, list), p.state = "running", p.at > Len(list),
           q.state = "over", q.at = p.at, q.throughout = p.throughout,
           q.shrunk = p.shrunk, q.invoked = p.invoked
    PROVE  PublicationOK(q, list)
<1>0. p.at \in Nat /\ p.invoked \in Seq(Handlers) /\ Len(list) \in Nat
      /\ DOMAIN list = 1..Len(list)
  BY DEF Publication
<1>1. Len(p.invoked) = p.at - 1 /\ DOMAIN p.invoked = 1..Len(p.invoked)
  BY <1>0 DEF PublicationOK
<1>2. ASSUME ~q.shrunk, NEW h \in q.throughout PROVE CalledOnce(q, h)
  <2>1. PICK k \in 0..Len(list) :
          /\ p.throughout = {list[i] : i \in 1..k}
          /\ \A i \in DOMAIN p.invoked : IF i <= k THEN p.invoked[i] = list[i]
                                                   ELSE p.invoked[i] \notin p.throughout
    BY <1>2 DEF PublicationOK, OnCourse
  <2>2. PICK i \in 1..k : h = list[i]
    BY <1>2, <2>1
  <2> DEFINE l == Len(list)
             m == Len(p.invoked)
  <2>a. l \in Nat /\ m = p.at - 1 /\ p.at \in Nat /\ p.at > l /\ k \in 0..l
    BY <1>0, <1>1
  <2>b. i \in 1..l /\ i \in 1..m
    <3> HIDE DEF l, m
    <3> QED BY <2>a, <2>2
  <2>3. i \in DOMAIN list /\ i \in DOMAIN p.invoked /\ p.invoked[i] = h
    BY <1>0, <1>1, <2>1, <2>2, <2>b
  <2>4. ASSUME NEW j \in DOMAIN p.invoked, p.invoked[j] = h PROVE j = i
    <3>1. j <= k
      BY <1>2, <2>1, <2>4
    <3>2. list[j] = h /\ j \in DOMAIN list
      BY <1>0, <1>1, <2>1, <2>4, <3>1
    <3> QED BY <2>2, <2>3, <3>2, Apart
  <2> QED BY <2>3, <2>4 DEF CalledOnce
<1> QED BY <1>1, <1>2 DEF PublicationOK

\* A handler returned or raised.
LEMMA ReturnsOK ==
    ASSUME NEW list, NEW p \in Publication, NEW q \in Publication,
           PublicationOK(p, list), p.state = "handling",
           q.state = "running", q.at = p.at, q.throughout = p.throughout,
           q.shrunk = p.shrunk, q.invoked = p.invoked
    PROVE  PublicationOK(q, list)
BY DEF PublicationOK, OnCourse

\* Another handler joins the list.
LEMMA GrowsOK ==
    ASSUME NEW list \in Seq(Handlers), NEW h \in Handlers, NEW p \in Publication,
           PublicationOK(p, list)
    PROVE  PublicationOK(p, Append(list, h))
<1> DEFINE more == Append(list, h)
<1>1. Len(more) = Len(list) + 1 /\ \A i \in 1..Len(list) : more[i] = list[i]
  BY Appended
<1>2. Len(list) \in Nat
  OBVIOUS
<1> HIDE DEF more
<1>3. ASSUME OnCourse(p, list) PROVE OnCourse(p, more)
  <2>1. PICK k \in 0..Len(list) :
          /\ p.throughout = {list[i] : i \in 1..k}
          /\ \A i \in DOMAIN p.invoked : IF i <= k THEN p.invoked[i] = list[i]
                                                   ELSE p.invoked[i] \notin p.throughout
    BY <1>3 DEF OnCourse
  <2>2. \A i \in 1..k : more[i] = list[i]
    BY <1>1, <1>2, <2>1
  <2>3. p.throughout = {more[i] : i \in 1..k}
    BY <2>1, <2>2
  <2>4. DOMAIN p.invoked \subseteq Nat \ {0}
    BY DEF Publication
  <2>5. \A i \in DOMAIN p.invoked : IF i <= k THEN p.invoked[i] = more[i]
                                              ELSE p.invoked[i] \notin p.throughout
    BY <1>2, <2>1, <2>2, <2>4
  <2> QED BY <1>1, <1>2, <2>3, <2>5 DEF OnCourse
<1> QED BY <1>3 DEF PublicationOK, more

\* The i-th handler leaves the list.
LEMMA ShrinksOK ==
    ASSUME NEW list \in Seq(Handlers), IsInjective(list), NEW n \in DOMAIN list,
           NEW p \in Publication, NEW q \in Publication, PublicationOK(p, list),
           q.state = p.state, q.at = p.at, q.invoked = p.invoked,
           q.throughout = p.throughout \ {list[n]},
           q.shrunk = (p.shrunk \/ list[n] \in p.throughout)
    PROVE  PublicationOK(q, RemoveAt(list, n))
<1> DEFINE less == RemoveAt(list, n)
<1>1. /\ Len(list) \in Nat /\ n \in 1..Len(list) /\ Len(less) = Len(list) - 1
      /\ \A i \in 1..(Len(list) - 1) : i < n => less[i] = list[i]
  BY Removed
<1> HIDE DEF less
<1>2. ASSUME ~q.shrunk PROVE q.throughout = p.throughout /\ ~p.shrunk
                             /\ list[n] \notin p.throughout
  BY <1>2
<1>3. ASSUME ~q.shrunk, OnCourse(p, list) PROVE OnCourse(q, less)
  <2>1. PICK k \in 0..Len(list) :
          /\ p.throughout = {list[i] : i \in 1..k}
          /\ \A i \in DOMAIN p.invoked : IF i <= k THEN p.invoked[i] = list[i]
                                                   ELSE p.invoked[i] \notin p.throughout
    BY <1>3 DEF OnCourse
  <2>2. k < n
    BY <1>1, <1>2, <1>3, <2>1
  <2>3. k \in 0..Len(less) /\ \A i \in 1..k : less[i] = list[i]
    BY <1>1, <2>1, <2>2
  <2>4. q.throughout = {less[i] : i \in 1..k}
    BY <1>2, <1>3, <2>1, <2>3
  <2>5. DOMAIN p.invoked \subseteq Nat \ {0}
    BY DEF Publication
  <2>6. \A i \in DOMAIN q.invoked : IF i <= k THEN q.invoked[i] = less[i]
                                              ELSE q.invoked[i] \notin q.throughout
    BY <1>2, <1>3, <2>1, <2>3, <2>5
  <2> QED BY <2>3, <2>4, <2>6 DEF OnCourse
<1>4. ASSUME q.state = "over", ~q.shrunk, NEW h \in q.throughout PROVE CalledOnce(q, h)
  BY <1>2, <1>4 DEF PublicationOK, CalledOnce
<1>5. q.state \in {"none", "scheduled"} =>
          q.at = 1 /\ q.throughout = {} /\ q.shrunk = FALSE
  BY DEF PublicationOK
<1>6. Len(q.invoked) = q.at - 1
  BY DEF PublicationOK
<1> QED BY <1>2, <1>3, <1>4, <1>5, <1>6 DEF PublicationOK, less

LEMMA AppendedApart ==
    ASSUME NEW list \in Seq(Handlers), IsInjective(list), NEW h \in Handlers,
           ~Contains(list, h)
    PROVE  Append(list, h) \in Seq(Handlers) /\ IsInjective(Append(list, h))
<1> DEFINE more == Append(list, h)
<1>1. /\ more \in Seq(Handlers) /\ DOMAIN more = 1..(Len(list) + 1)
      /\ DOMAIN list = 1..Len(list) /\ Len(list) \in Nat
      /\ more[Len(list) + 1] = h /\ \A i \in 1..Len(list) : more[i] = list[i]
  BY Appended
<1>2. \A i \in DOMAIN list : list[i] # h
  BY DEF Contains
<1> HIDE DEF more
<1>3. ASSUME NEW i \in DOMAIN more, NEW j \in DOMAIN more, more[i] = more[j] PROVE i = j
  <2>1. CASE i \in DOMAIN list /\ j \in DOMAIN list
    BY <1>1, <1>3, <2>1, Apart
  <2>2. CASE i \notin DOMAIN list \/ j \notin DOMAIN list
    BY <1>1, <1>2, <1>3, <2>2
  <2> QED BY <2>1, <2>2
<1> QED BY <1>1, <1>3 DEF IsInjective, more

LEMMA RemovedApart ==
    ASSUME NEW list \in Seq(Handlers), IsInjective(list), NEW n \in DOMAIN list
    PROVE  RemoveAt(list, n) \in Seq(Handlers) /\ IsInjective(RemoveAt(list, n))
<1> DEFINE less == RemoveAt(list, n)
<1>1. /\ less \in Seq(Handlers) /\ Len(less) = Len(list) - 1 /\ Len(list) \in Nat
      /\ n \in 1..Len(list) /\ DOMAIN list = 1..Len(list)
      /\ \A j \in 1..(Len(list) - 1) : less[j] = IF j < n THEN list[j] ELSE list[j + 1]
  BY Removed
<1> HIDE DEF less
<1>2. DOMAIN less = 1..(Len(list) - 1)
  BY <1>1
<1>3. ASSUME NEW i \in DOMAIN less, NEW j \in DOMAIN less, less[i] = less[j] PROVE i = j
  <2> DEFINE a == IF i < n THEN i ELSE i + 1
             b == IF j < n THEN j ELSE j + 1
  <2>1. a \in DOMAIN list /\ b \in DOMAIN list /\ list[a] = list[b]
    BY <1>1, <1>2, <1>3
  <2>2. a = b
    BY <2>1, Apart
  <2> QED BY <1>1, <1>2, <2>2
<1> QED BY <1>1, <1>3 DEF IsInjective, less

-----------------------------------------------------------------------------
(* The invariant of the whole.                                             *)

UnitsInv == \A u \in Units : /\ UnitOK(unit[u], publishing[u].state)
                             /\ SendOK(unit[u], publishing[u].state)

MessagesInv ==
    /\ \A m \in queue : MessageOK(m, unit[m.of])
    /\ \A w \in Workers :
           LET m == worker[w].message IN
           /\ m = Nobody => worker[w].bound = Nobody
           /\ m # Nobody => /\ MessageOK(m, unit[m.of])
                            /\ m.attempt = 0 => worker[w].bound = Bound(m)

PublicationsInv == \A u \in Units : PublicationOK(publishing[u], handlers)

IInv == TypeOK /\ UnitsInv /\ MessagesInv /\ PublicationsInv

\* The list the handlers of an application begin with.
LEMMA InitHandlers ==
    ASSUME Init
    PROVE  handlers \in Seq(Handlers) /\ IsInjective(handlers)
<1>1. CASE handlers = <<>>
  BY <1>1 DEF IsInjective
<1>2. CASE handlers = SetToSeq(Handlers)
  <2> DEFINE n == Cardinality(Handlers)
             Lists == {f \in [1..n -> Handlers] : IsInjective(f)}
  <2>1. n \in Nat /\ ExistsBijection(1..n, Handlers)
    BY HandlersAssumption, FS_CardinalityType
  <2>2. \E f : f \in Lists
    BY <2>1 DEF ExistsBijection, Bijection, Injection
  <2>3. SetToSeq(Handlers) \in Lists
    BY <2>2 DEF SetToSeq
  <2> HIDE DEF n
  <2> QED BY <1>2, <2>1, <2>3
<1> QED BY <1>1, <1>2 DEF Init

LEMMA InitIInv == Init => IInv
<1> SUFFICES ASSUME Init PROVE IInv
  OBVIOUS
<1> DEFINE none == <<>>
           zero == 0
           one == 1
<1>0. none \in Seq(1..MaxTasks) /\ none \in Seq(Handlers) /\ zero \in 0..MaxTasks
      /\ one \in Nat /\ Len(none) = 0 /\ DOMAIN none = {} /\ one - 1 = 0
  BY BoundAssumption
<1>1. /\ NoPublication \in Publication /\ NoPublication.state = "none"
      /\ NoPublication.at = one /\ NoPublication.throughout = {}
      /\ NoPublication.shrunk = FALSE /\ NoPublication.invoked = none
  <2> HIDE DEF none, one
  <2>1. NoPublication = [state |-> "none", at |-> one, handler |-> Nobody,
                         invoked |-> none, throughout |-> {}, shrunk |-> FALSE]
    BY DEF NoPublication, none, one
  <2> QED BY <1>0, <2>1 DEF Publication
<1>2. ASSUME NEW u \in Units
      PROVE  /\ unit[u] \in Unit /\ unit[u].pc = "idle" /\ unit[u].mode = "async"
             /\ unit[u].row = "none" /\ unit[u].left = zero /\ unit[u].asked = zero
             /\ unit[u].hooks = none /\ unit[u].sent = none
  <2>1. unit[u] = [pc |-> "idle", mode |-> "async", trace |-> Nobody, row |-> "none",
                   left |-> zero, asked |-> zero, hooks |-> none, sent |-> none]
    BY DEF Init
  <2> HIDE DEF none, zero
  <2> QED BY <1>0, <2>1 DEF Unit
<1>3. TypeOK
  <2>1. unit \in [Units -> Unit]
    BY <1>2 DEF Init
  <2>2. publishing \in [Units -> Publication]
    BY <1>1 DEF Init
  <2>3. worker \in [Workers -> [message : Message \union {Nobody},
                                bound : Units \union {Nobody, Fresh}]]
    BY DEF Init, Idle
  <2>4. changes \in 0..MaxChanges /\ queue \subseteq Message
    BY BoundAssumption DEF Init
  <2> QED BY <2>1, <2>2, <2>3, <2>4, InitHandlers DEF TypeOK
<1>4. UnitsInv
  <2> SUFFICES ASSUME NEW u \in Units
               PROVE  UnitOK(unit[u], "none") /\ SendOK(unit[u], "none")
    BY <1>1 DEF Init, UnitsInv
  <2>1. UnitOK(unit[u], "none")
    BY <1>2 DEF UnitOK, Active
  <2>2. /\ unit[u].left = 0 /\ unit[u].asked = 0 /\ DOMAIN unit[u].hooks = {}
        /\ DOMAIN unit[u].sent = {} /\ Len(unit[u].hooks) = 0 /\ Len(unit[u].sent) = 0
    BY <1>0, <1>2
  <2>3. SendOK(unit[u], "none")
    BY <1>2, <2>2, BoundAssumption DEF SendOK, InOrder
  <2> QED BY <2>1, <2>3
<1>5. MessagesInv
  BY DEF Init, MessagesInv, Idle
<1>6. PublicationsInv
  BY <1>0, <1>1 DEF Init, PublicationsInv, PublicationOK
<1> QED BY <1>3, <1>4, <1>5, <1>6 DEF IInv

\* Who may ask for k more tasks has room for them.
LEMMA RoomForMore ==
    ASSUME IInv, NEW u \in Units, NEW k \in Nat, MayAsk(k)
    PROVE  unit[u].asked + unit[u].left + k <= MaxTasks
<1> DEFINE a == Asked(u)
           f == [n \in 1..a |-> <<u, n>>]
<1>1. a \in Nat /\ a <= MaxTasks /\ MaxTasks \in Nat
  BY BoundAssumption DEF IInv, TypeOK, Unit, UnitsInv, SendOK, Asked
<1>2. IsFiniteSet(Tasks)
  <2>0. IsFiniteSet(1..MaxTasks)
    BY <1>1, FS_Interval
  <2>1. IsFiniteSet(Units \X (1..MaxTasks))
    BY <2>0, UnitsAssumption, FS_Product
  <2> QED BY <2>1, FS_Subset DEF Tasks
<1>3. f \in Injection(1..a, Tasks)
  <2>1. \A n \in 1..a : <<u, n>> \in Tasks
    <3> HIDE DEF a
    <3>1. ASSUME NEW n \in 1..a PROVE n \in 1..MaxTasks /\ n <= Asked(u)
      BY <1>1 DEF a
    <3> QED BY <3>1 DEF Tasks
  <2> HIDE DEF a
  <2> QED BY <2>1 DEF Injection, IsInjective
<1>4. Cardinality(1..a) <= Cardinality(Tasks) /\ Cardinality(1..a) = a
  <2> HIDE DEF a, f
  <2>1. Cardinality(1..a) <= Cardinality(Tasks)
    BY <1>2, <1>3, FS_Injection
  <2>2. Cardinality(1..a) = a
    BY <1>1, FS_Interval
  <2> QED BY <2>1, <2>2
<1>5. Cardinality(Tasks) \in Nat
  BY <1>2, FS_CardinalityType
<1>6. a + k <= MaxTasks
  <2> HIDE DEF a
  <2> QED BY <1>1, <1>4, <1>5 DEF MayAsk
<1> QED BY <1>6 DEF Asked

LEMMA MessageType ==
    ASSUME IInv, NEW u \in Units, NEW n \in 1..MaxTasks, NEW early \in BOOLEAN
    PROVE  /\ MessageOf(u, n, early) \in Message
           /\ MessageOf(u, n, early).of = u /\ MessageOf(u, n, early).early = early
           /\ MessageOf(u, n, early).trace = unit[u].trace
           /\ MessageOf(u, n, early).attempt = 0
<1> DEFINE zero == 0
<1>1. zero \in 0..MaxRetries
  BY BoundAssumption
<1>2. MessageOf(u, n, early) = [of |-> u, task |-> n, early |-> early,
                                attempt |-> zero, trace |-> unit[u].trace]
  BY DEF MessageOf, BeforePublish
<1>3. unit[u].trace \in Units \union {Nobody}
  BY DEF IInv, TypeOK, Unit
<1> HIDE DEF zero
<1>4. MessageOf(u, n, early) \in Message
  BY <1>1, <1>2, <1>3 DEF Message
<1> QED BY <1>2, <1>4 DEF zero

-----------------------------------------------------------------------------
(* Steps.                                                                  *)

\* What a begun unit keeps.
Keeps(r, s) ==
    r.pc # "idle" => /\ s.pc # "idle" /\ s.trace = r.trace
                     /\ r.row = "committed" => s.row = "committed"

\* A step of unit u, that turns its record into r, and of its publication, into p,
\* with a message about u at the most.
LEMMA UnitStep ==
    ASSUME IInv, NEW u \in Units, UNCHANGED <<handlers, changes, worker>>,
           NEW r \in Unit, unit' = [unit EXCEPT ![u] = r], Keeps(unit[u], r),
           NEW p \in Publication, publishing' = [publishing EXCEPT ![u] = p],
           UnitOK(r, p.state), SendOK(r, p.state), PublicationOK(p, handlers),
           \/ queue' = queue
           \/ \E m \in Message : queue' = queue \union {m} /\ m.of = u /\ MessageOK(m, r)
    PROVE  IInv'
<1> USE DEF IInv
<1>0. /\ unit' \in [Units -> Unit] /\ unit'[u] = r
      /\ \A v \in Units \ {u} : unit'[v] = unit[v]
      /\ publishing' \in [Units -> Publication] /\ publishing'[u] = p
      /\ \A v \in Units \ {u} : publishing'[v] = publishing[v]
  BY DEF TypeOK
<1>1. TypeOK'
  BY <1>0 DEF TypeOK
<1>2. UnitsInv'
  BY <1>0 DEF UnitsInv
<1>3. ASSUME NEW m \in Message, MessageOK(m, unit[m.of]) PROVE MessageOK(m, unit'[m.of])
  <2>1. m.of \in Units
    BY DEF Message
  <2>2. CASE m.of = u
    BY <1>0, <1>3, <2>2 DEF MessageOK, Keeps
  <2>3. CASE m.of # u
    BY <1>0, <1>3, <2>1, <2>3
  <2> QED BY <2>2, <2>3
<1>4. \A m \in queue' : MessageOK(m, unit'[m.of])
  BY <1>0, <1>3 DEF MessagesInv, TypeOK
<1>5. ASSUME NEW w \in Workers, worker[w].message # Nobody
      PROVE MessageOK(worker[w].message, unit'[worker[w].message.of])
  <2>1. worker[w].message \in Message
    BY <1>5 DEF TypeOK
  <2> QED BY <1>3, <1>5, <2>1 DEF MessagesInv
<1>6. MessagesInv'
  BY <1>4, <1>5 DEF MessagesInv
<1>7. PublicationsInv'
  BY <1>0 DEF PublicationsInv
<1> QED BY <1>1, <1>2, <1>6, <1>7

\* A step of unit u by itself.
LEMMA OwnStep ==
    ASSUME IInv, NEW u \in Units, UNCHANGED <<handlers, changes, publishing, worker>>,
           NEW r \in Unit, unit' = [unit EXCEPT ![u] = r], Keeps(unit[u], r),
           UnitOK(r, publishing[u].state), SendOK(r, publishing[u].state),
           \/ queue' = queue
           \/ \E m \in Message : queue' = queue \union {m} /\ m.of = u /\ MessageOK(m, r)
    PROVE  IInv'
<1>1. publishing[u] \in Publication /\ publishing' = [publishing EXCEPT ![u] = publishing[u]]
      /\ PublicationOK(publishing[u], handlers)
  BY DEF IInv, TypeOK, PublicationsInv
<1> QED BY <1>1, UnitStep

\* A step of the publication of unit u by itself, once it is under way.
LEMMA EventStep ==
    ASSUME IInv, NEW u \in Units, UNCHANGED <<handlers, changes, unit, queue, worker>>,
           publishing[u].state \in Active,
           NEW p \in Publication, publishing' = [publishing EXCEPT ![u] = p],
           p.state \in Active \union {"over"}, PublicationOK(p, handlers)
    PROVE  IInv'
<1>1. unit[u] \in Unit /\ unit' = [unit EXCEPT ![u] = unit[u]] /\ Keeps(unit[u], unit[u])
  BY DEF IInv, TypeOK, Keeps
<1>2. UnitOK(unit[u], p.state) /\ SendOK(unit[u], p.state)
  BY DEF IInv, UnitsInv, UnitOK, SendOK, Active
<1> QED BY <1>1, <1>2, UnitStep

-----------------------------------------------------------------------------
(* A unit's own steps.                                                     *)

LEMMA WorkKeeps ==
    ASSUME IInv, NEW u \in Units, Work(u)
    PROVE  IInv'
<1> DEFINE r == unit[u]
           state == publishing[u].state
           none == <<>>
           zero == 0
<1>0. r \in Unit /\ UnitOK(r, state) /\ SendOK(r, state) /\ DOMAIN unit = Units
  BY DEF IInv, TypeOK, UnitsInv
<1>a. /\ r.asked \in Nat /\ r.left \in Nat /\ r.hooks \in Seq(1..MaxTasks)
      /\ r.sent \in Seq(1..MaxTasks) /\ r.asked + r.left <= MaxTasks
      /\ none \in Seq(1..MaxTasks) /\ zero \in 0..MaxTasks /\ MaxTasks \in Nat
  BY <1>0, BoundAssumption DEF Unit, SendOK
<1>1. ASSUME NEW mode \in {"async", "atomic"}, NEW exempt \in BOOLEAN,
             Begin(u, mode, exempt)
      PROVE IInv'
  <2> DEFINE s == [r EXCEPT !.pc = "work", !.mode = mode, !.trace = TraceOf(u, exempt)]
  <2>1. unit' = [unit EXCEPT ![u] = s]
    BY <1>0, <1>1 DEF Begin
  <2>2. /\ s \in Unit /\ s.left = r.left /\ s.asked = r.asked
        /\ s.hooks = r.hooks /\ s.sent = r.sent
        /\ s.pc = "work" /\ s.mode = mode /\ s.trace = TraceOf(u, exempt) /\ s.row = r.row
    BY <1>0, <1>1 DEF Unit, TraceOf
  <2>3. UnitOK(s, state) /\ Keeps(r, s)
    <3> HIDE DEF s
    <3> QED BY <1>0, <1>1, <2>2 DEF Begin, UnitOK, Keeps, Active
  <2>4. SendOK(s, state)
    <3> HIDE DEF s
    <3>1. Quiet(r, s)
      BY <1>0, <1>1, <2>2 DEF Begin, Quiet, SendOK, UnitOK
    <3> QED BY <1>0, <3>1, QuietSends
  <2> HIDE DEF r, s
  <2> QED BY <1>1, <2>1, <2>2, <2>3, <2>4, OwnStep DEF Begin, r, state
<1>2. CASE WriteRow(u)
  <2> DEFINE s == [r EXCEPT !.row = IF InAtomic(u) THEN "pending" ELSE "committed"]
  <2>1. unit' = [unit EXCEPT ![u] = s]
    BY <1>0, <1>2 DEF WriteRow
  <2>2. /\ s \in Unit /\ s.left = r.left /\ s.asked = r.asked
        /\ s.hooks = r.hooks /\ s.sent = r.sent
        /\ s.pc = r.pc /\ s.mode = r.mode /\ s.trace = r.trace
        /\ s.row = (IF InAtomic(u) THEN "pending" ELSE "committed")
    BY <1>0, <1>2 DEF Unit
  <2>3. UnitOK(s, state) /\ Keeps(r, s)
    <3> HIDE DEF s
    <3> QED BY <1>0, <1>2, <2>2 DEF WriteRow, UnitOK, Keeps, Active, InAtomic
  <2>4. SendOK(s, state)
    <3> HIDE DEF s
    <3>1. Quiet(r, s)
      BY <1>0, <1>2, <2>2 DEF WriteRow, Quiet, SendOK, UnitOK
    <3> QED BY <1>0, <3>1, QuietSends
  <2> HIDE DEF r, s
  <2> QED BY <1>2, <2>1, <2>2, <2>3, <2>4, OwnStep DEF WriteRow, r, state
<1>3. CASE EnqueueOnCommit(u)
  <2> DEFINE n == r.asked + 1
             h == Append(r.hooks, n)
             s == [r EXCEPT !.asked = n, !.hooks = h]
  <2>0. n + r.left <= MaxTasks /\ n \in 1..MaxTasks /\ n \in 0..MaxTasks
    <3>1. r.asked + r.left + 1 <= MaxTasks
      BY <1>3, RoomForMore DEF EnqueueOnCommit
    <3> QED BY <1>a, <3>1
  <2>a. h \in Seq(1..MaxTasks) /\ h # <<>>
    <3> DEFINE q == r.hooks
    <3>1. q \in Seq(1..MaxTasks) /\ n \in 1..MaxTasks
      BY <1>a, <2>0
    <3> HIDE DEF n, q
    <3>2. Append(q, n) \in Seq(1..MaxTasks) /\ Append(q, n) # <<>>
      BY ONLY <3>1, Appended
    <3> QED BY <3>2 DEF q
  <2>1. unit' = [unit EXCEPT ![u] = s]
    BY <1>0, <1>3 DEF EnqueueOnCommit, OnCommit
  <2>2. /\ s \in Unit /\ s.left = r.left /\ s.asked = n /\ s.hooks = h /\ s.sent = r.sent
        /\ s.pc = r.pc /\ s.mode = r.mode /\ s.trace = r.trace /\ s.row = r.row
    <3> HIDE DEF n, h
    <3> QED BY <1>0, <2>0, <2>a DEF Unit
  <2>3. UnitOK(s, state) /\ Keeps(r, s)
    <3> HIDE DEF s, h, n
    <3> QED BY <1>0, <1>3, <2>a, <2>2 DEF EnqueueOnCommit, InAtomic, UnitOK, Keeps, Active
  <2>4. SendOK(s, state)
    <3> HIDE DEF s, state
    <3>1. r.mode = "atomic" /\ r.pc = "work"
      BY <1>3 DEF EnqueueOnCommit, InAtomic
    <3>2. s.hooks = Append(r.hooks, s.asked) /\ s.asked = r.asked + 1
      BY <2>2
    <3>3. s.asked \in 1..MaxTasks /\ s.asked + s.left <= MaxTasks
      <4> HIDE DEF n
      <4> QED BY <2>0, <2>2
    <3> HIDE DEF r
    <3> QED BY <1>0, <2>2, <3>1, <3>2, <3>3, HookSends
  <2> HIDE DEF r, s
  <2> QED BY <1>3, <2>1, <2>2, <2>3, <2>4, OwnStep DEF EnqueueOnCommit, OnCommit, r, state
<1>4. ASSUME NEW k \in 1..MaxTasks, EnqueueBulk(u, k) PROVE IInv'
  <2> DEFINE s == [r EXCEPT !.pc = "bulk", !.left = k]
  <2>0. k \in 0..MaxTasks /\ k \in Nat /\ k > 0 /\ r.asked + k <= MaxTasks
    <3>1. k \in Nat /\ k \in 0..MaxTasks /\ k > 0
      BY <1>a
    <3>2. r.asked + r.left + k <= MaxTasks
      BY <1>4, <3>1, RoomForMore DEF EnqueueBulk
    <3> QED BY <1>a, <3>1, <3>2
  <2>1. unit' = [unit EXCEPT ![u] = s]
    BY <1>0, <1>4 DEF EnqueueBulk
  <2>2. /\ s \in Unit /\ s.left = k /\ s.asked = r.asked /\ s.hooks = r.hooks
        /\ s.sent = r.sent /\ s.pc = "bulk" /\ s.mode = r.mode /\ s.trace = r.trace
        /\ s.row = r.row
    BY <1>0, <2>0 DEF Unit
  <2>3. UnitOK(s, state) /\ Keeps(r, s)
    <3> HIDE DEF s
    <3> QED BY <1>0, <1>4, <2>2 DEF EnqueueBulk, Unit, UnitOK, Keeps, Active
  <2>4. SendOK(s, state)
    <3> HIDE DEF s
    <3>1. r.mode = "async" /\ r.pc = "work"
      BY <1>4 DEF EnqueueBulk
    <3>2. \A j \in 1..s.asked : TakenCareOf(s, j)
      BY <1>0, <2>2, <3>1 DEF SendOK, TakenCareOf
    <3>3. state = "none" => InOrder(s)
      BY <1>0, <2>2, <3>1 DEF SendOK, InOrder
    <3> HIDE DEF state
    <3> QED BY <1>0, <2>0, <2>2, <3>1, <3>2, <3>3 DEF SendOK
  <2> HIDE DEF r, s
  <2> QED BY <1>4, <2>1, <2>2, <2>3, <2>4, OwnStep DEF EnqueueBulk, r, state
<1>5. CASE EnqueueNext(u)
  <2> DEFINE n == r.asked + 1
             m == MessageOf(u, n, FALSE)
             l == r.left - 1
             sent == Append(r.sent, n)
             s == [r EXCEPT !.sent = sent, !.asked = n, !.left = l, !.pc = After(u)]
  <2>1. unit' = [unit EXCEPT ![u] = s] /\ queue' = queue \union {m}
    BY <1>0, <1>5 DEF EnqueueNext, Sent
  <2>b. r.row = "committed" /\ r.mode = "async" /\ r.pc = "bulk" /\ r.left > 0
    BY <1>0, <1>5 DEF EnqueueNext, Unit, UnitOK, SendOK
  <2>0. n \in 1..MaxTasks /\ n \in 0..MaxTasks /\ l \in 0..MaxTasks /\ n + l <= MaxTasks
    <3> DEFINE a == r.asked
               b == r.left
    <3>1. /\ a \in Nat /\ b \in Nat /\ a + b <= MaxTasks /\ MaxTasks \in Nat
          /\ n = a + 1 /\ l = b - 1 /\ b > 0
      BY <1>a, <2>b
    <3> HIDE DEF a, b, n, l
    <3> QED BY <3>1
  <2>a. sent \in Seq(1..MaxTasks) /\ After(u) \in {"bulk", "work"}
        /\ (After(u) = "bulk" <=> l > 0)
    BY <1>a, <2>0, Appended DEF After
  <2>3. /\ s \in Unit /\ s.left = l /\ s.asked = n /\ s.hooks = r.hooks /\ s.sent = sent
        /\ s.pc = After(u) /\ s.mode = r.mode /\ s.trace = r.trace /\ s.row = r.row
    <3> HIDE DEF n, l, sent
    <3> QED BY <1>0, <2>0, <2>a DEF Unit
  <2>4. UnitOK(s, state) /\ Keeps(r, s)
    <3> HIDE DEF s, n, l, sent
    <3> QED BY <1>0, <1>5, <2>a, <2>b, <2>3 DEF EnqueueNext, UnitOK, Keeps, Active
  <2>5. SendOK(s, state)
    <3> HIDE DEF s, state
    <3>1. s.sent = Append(r.sent, s.asked) /\ s.asked = r.asked + 1
      BY <2>3
    <3>2. s.asked \in 1..MaxTasks /\ s.asked + s.left <= MaxTasks
          /\ (s.pc = "bulk" <=> s.left > 0) /\ s.pc # "done"
      <4> HIDE DEF n, l
      <4> QED BY <2>0, <2>a, <2>3
    <3> HIDE DEF r
    <3> QED BY <1>0, <2>b, <2>3, <3>1, <3>2, NextSends
  <2>6. m \in Message /\ m.of = u /\ m.attempt = 0 /\ m.trace = r.trace
    <3> HIDE DEF n
    <3> QED BY <2>0, MessageType
  <2>7. MessageOK(m, s)
    <3> HIDE DEF s, m
    <3> QED BY <2>a, <2>b, <2>3, <2>6 DEF MessageOK
  <2> HIDE DEF r, s, m
  <2> QED BY <1>5, <2>1, <2>3, <2>4, <2>5, <2>6, <2>7, OwnStep DEF EnqueueNext, r, state
<1>6. CASE BulkFails(u)
  <2> DEFINE n == r.asked + 1
             s == [r EXCEPT !.pc = "failed", !.asked = n, !.left = zero]
  <2>0. r.left > 0 /\ r.hooks = none /\ r.row = "committed"
    BY <1>0, <1>6 DEF BulkFails, UnitOK, SendOK
  <2>a. n \in 0..MaxTasks /\ r.asked <= n /\ n <= r.asked + r.left
    BY <1>a, <2>0
  <2>1. unit' = [unit EXCEPT ![u] = s]
    BY <1>0, <1>6 DEF BulkFails
  <2>2. /\ s \in Unit /\ s.left = zero /\ s.asked = n /\ s.hooks = r.hooks /\ s.sent = r.sent
        /\ s.pc = "failed" /\ s.mode = r.mode /\ s.trace = r.trace /\ s.row = r.row
    <3> HIDE DEF n, zero
    <3> QED BY <1>0, <1>a, <2>a DEF Unit
  <2>3. UnitOK(s, state) /\ Keeps(r, s)
    <3> HIDE DEF s, n, zero
    <3> QED BY <1>0, <1>6, <2>2 DEF BulkFails, UnitOK, Keeps, Active
  <2>4. SendOK(s, state)
    <3>1. r.asked <= s.asked /\ s.asked <= r.asked + r.left
      <4> HIDE DEF s, n
      <4> QED BY <2>a, <2>2
    <3> HIDE DEF s, r, state
    <3> QED BY <1>0, <2>0, <2>2, <3>1, FailureSends
  <2> HIDE DEF r, s
  <2> QED BY <1>6, <2>1, <2>2, <2>3, <2>4, OwnStep DEF BulkFails, r, state
<1>7. CASE Commit(u)
  <2> DEFINE s == [r EXCEPT !.pc = "hooks", !.row = IF @ = "pending" THEN "committed" ELSE @]
  <2>1. unit' = [unit EXCEPT ![u] = s]
    BY <1>0, <1>7 DEF Commit
  <2>2. /\ s \in Unit /\ s.left = r.left /\ s.asked = r.asked
        /\ s.hooks = r.hooks /\ s.sent = r.sent
        /\ s.pc = "hooks" /\ s.mode = r.mode /\ s.trace = r.trace
        /\ s.row = (IF r.row = "pending" THEN "committed" ELSE r.row)
    BY <1>0, <1>7 DEF Unit
  <2>3. UnitOK(s, state) /\ Keeps(r, s)
    <3> HIDE DEF s
    <3> QED BY <1>0, <1>7, <2>2 DEF Commit, UnitOK, Keeps, Active, InAtomic
  <2>4. SendOK(s, state)
    <3> HIDE DEF s
    <3>1. Quiet(r, s)
      BY <1>0, <1>7, <2>2 DEF Commit, Quiet, SendOK, UnitOK, InAtomic
    <3> QED BY <1>0, <3>1, QuietSends
  <2> HIDE DEF r, s
  <2> QED BY <1>7, <2>1, <2>2, <2>3, <2>4, OwnStep DEF Commit, r, state
<1>8. CASE Rollback(u)
  <2> DEFINE s == [r EXCEPT !.pc = "failed", !.row = "none", !.hooks = none]
  <2>0. r.pc # "bulk" /\ r.left = 0
    BY <1>0, <1>a, <1>8 DEF Rollback, SendOK
  <2>1. unit' = [unit EXCEPT ![u] = s]
    BY <1>0, <1>8 DEF Rollback
  <2>2. /\ s \in Unit /\ s.left = r.left /\ s.asked = r.asked /\ s.hooks = none
        /\ s.sent = r.sent /\ s.pc = "failed" /\ s.mode = r.mode /\ s.trace = r.trace
        /\ s.row = "none"
    <3> HIDE DEF none
    <3> QED BY <1>0, <1>a DEF Unit
  <2>3. UnitOK(s, state) /\ Keeps(r, s)
    <3> HIDE DEF s
    <3> QED BY <1>0, <1>8, <2>2 DEF Rollback, UnitOK, Keeps, Active, InAtomic
  <2>4. SendOK(s, state)
    <3>1. r.asked <= s.asked /\ s.asked <= r.asked + r.left
      <4> HIDE DEF s
      <4> QED BY <1>a, <2>0, <2>2
    <3> HIDE DEF s, r, state
    <3> QED BY <1>0, <2>0, <2>2, <3>1, FailureSends
  <2> HIDE DEF r, s
  <2> QED BY <1>8, <2>1, <2>2, <2>3, <2>4, OwnStep DEF Rollback, r, state
<1>9. CASE RunCallback(u)
  <2> DEFINE n == Head(r.hooks)
             m == MessageOf(u, n, FALSE)
             rest == Tail(r.hooks)
             sent == Append(r.sent, n)
             s == [r EXCEPT !.sent = sent, !.hooks = rest]
  <2>1. unit' = [unit EXCEPT ![u] = s] /\ queue' = queue \union {m}
    BY <1>0, <1>9 DEF RunCallback, Callbacks, Sent
  <2>b. r.row = "committed" /\ r.pc = "hooks" /\ r.hooks # <<>>
    BY <1>0, <1>9 DEF RunCallback, Unit, UnitOK
  <2>0. n \in 1..MaxTasks /\ rest \in Seq(1..MaxTasks)
    BY <1>a, <2>b, HeadOff
  <2>a. sent \in Seq(1..MaxTasks)
    BY <1>a, <2>0, Appended
  <2>2. /\ s \in Unit /\ s.left = r.left /\ s.asked = r.asked /\ s.hooks = rest
        /\ s.sent = sent /\ s.pc = r.pc /\ s.mode = r.mode /\ s.trace = r.trace
        /\ s.row = r.row
    <3> HIDE DEF n, rest, sent
    <3> QED BY <1>0, <2>0, <2>a DEF Unit
  <2>3. UnitOK(s, state) /\ Keeps(r, s)
    <3> HIDE DEF s, n, rest, sent
    <3> QED BY <1>0, <2>b, <2>2 DEF UnitOK, Keeps, Active
  <2>4. SendOK(s, state)
    <3>1. s.hooks = Tail(r.hooks) /\ s.sent = Append(r.sent, Head(r.hooks))
      BY <2>2
    <3> HIDE DEF s, r, state, n, rest, sent
    <3> QED BY <1>0, <2>b, <2>2, <3>1, CallbackSends
  <2>5. m \in Message /\ m.of = u /\ m.attempt = 0 /\ m.trace = r.trace
    <3> HIDE DEF n
    <3> QED BY <2>0, MessageType
  <2>6. MessageOK(m, s)
    <3> HIDE DEF s, m
    <3> QED BY <2>b, <2>2, <2>5 DEF MessageOK
  <2> HIDE DEF r, s, m
  <2> QED BY <1>9, <2>1, <2>2, <2>3, <2>4, <2>5, <2>6, OwnStep DEF RunCallback, r, state
<1>10. CASE CallbackFails(u)
  <2> DEFINE s == [r EXCEPT !.pc = "failed", !.hooks = none]
  <2>0. r.pc # "bulk" /\ r.left = 0
    BY <1>0, <1>a, <1>10 DEF CallbackFails, SendOK
  <2>1. unit' = [unit EXCEPT ![u] = s]
    BY <1>0, <1>10 DEF CallbackFails
  <2>2. /\ s \in Unit /\ s.left = r.left /\ s.asked = r.asked /\ s.hooks = none
        /\ s.sent = r.sent /\ s.pc = "failed" /\ s.mode = r.mode /\ s.trace = r.trace
        /\ s.row = r.row
    <3> HIDE DEF none
    <3> QED BY <1>0, <1>a DEF Unit
  <2>3. UnitOK(s, state) /\ Keeps(r, s)
    <3> HIDE DEF s
    <3> QED BY <1>0, <1>10, <2>2 DEF CallbackFails, UnitOK, Keeps, Active
  <2>4. SendOK(s, state)
    <3>1. r.asked <= s.asked /\ s.asked <= r.asked + r.left
      <4> HIDE DEF s
      <4> QED BY <1>a, <2>0, <2>2
    <3> HIDE DEF s, r, state
    <3> QED BY <1>0, <2>0, <2>2, <3>1, FailureSends
  <2> HIDE DEF r, s
  <2> QED BY <1>10, <2>1, <2>2, <2>3, <2>4, OwnStep DEF CallbackFails, r, state
<1>11. CASE Finish(u)
  <2> DEFINE s == [r EXCEPT !.pc = "done"]
  <2>1. unit' = [unit EXCEPT ![u] = s]
    BY <1>0, <1>11 DEF Finish
  <2>2. /\ s \in Unit /\ s.left = r.left /\ s.asked = r.asked
        /\ s.hooks = r.hooks /\ s.sent = r.sent
        /\ s.pc = "done" /\ s.mode = r.mode /\ s.trace = r.trace /\ s.row = r.row
    BY <1>0, <1>11 DEF Unit
  <2>3. UnitOK(s, state) /\ Keeps(r, s)
    <3> HIDE DEF s
    <3> QED BY <1>0, <1>11, <2>2 DEF Finish, UnitOK, Keeps, Active
  <2>4. SendOK(s, state)
    <3> HIDE DEF s
    <3>1. Quiet(r, s)
      BY <1>0, <1>11, <2>2 DEF Finish, Quiet, SendOK, UnitOK
    <3> QED BY <1>0, <3>1, QuietSends
  <2> HIDE DEF r, s
  <2> QED BY <1>11, <2>1, <2>2, <2>3, <2>4, OwnStep DEF Finish, r, state
<1>12. CASE Publish(u)
  <2> DEFINE s == [r EXCEPT !.pc = IF handlers = <<>> THEN "work" ELSE "await"]
             was == publishing[u]
             now == IF handlers = <<>> THEN "over" ELSE "running"
             p == [was EXCEPT !.state = now, !.throughout = ToSet(handlers)]
  <2>0. was \in Publication /\ PublicationOK(was, handlers) /\ DOMAIN publishing = Units
        /\ handlers \in Seq(Handlers) /\ was.state = "none"
    BY <1>12 DEF Publish, MayPublish, IInv, TypeOK, PublicationsInv
  <2>1. unit' = [unit EXCEPT ![u] = s] /\ publishing' = [publishing EXCEPT ![u] = p]
    BY <1>0, <1>12, <2>0 DEF Publish, EnterPublish
  <2>2. /\ s \in Unit /\ s.left = r.left /\ s.asked = r.asked
        /\ s.hooks = r.hooks /\ s.sent = r.sent
        /\ s.pc = (IF handlers = <<>> THEN "work" ELSE "await")
        /\ s.mode = r.mode /\ s.trace = r.trace /\ s.row = r.row
    BY <1>0 DEF Unit
  <2>3. ToSet(handlers) \in SUBSET Handlers
    BY <2>0 DEF ToSet
  <2>4. /\ p \in Publication /\ p.state = now /\ p.throughout = ToSet(handlers)
        /\ p.at = was.at /\ p.invoked = was.invoked
    BY <2>0, <2>3 DEF Publication
  <2>5. PublicationOK(p, handlers)
    <3> HIDE DEF p, was
    <3> QED BY <2>0, <2>4, EntersOK
  <2>6. UnitOK(s, p.state) /\ Keeps(r, s)
    <3> HIDE DEF s, p, was
    <3> QED BY <1>0, <1>12, <2>2, <2>4 DEF Publish, MayPublish, UnitOK, Keeps, Active
  <2>7. SendOK(s, p.state)
    <3> HIDE DEF s, p
    <3>1. Quiet(r, s)
      BY <1>0, <1>12, <2>2 DEF Publish, MayPublish, Quiet, SendOK, UnitOK
    <3>2. p.state # "none"
      BY <2>4
    <3> QED BY <1>0, <3>1, <3>2, QuietSends
  <2>8. UNCHANGED <<handlers, changes, queue, worker>>
    BY <1>12 DEF Publish
  <2> HIDE DEF s, p, now, was
  <2> QED BY <2>1, <2>2, <2>4, <2>5, <2>6, <2>7, <2>8, UnitStep
<1>13. CASE PublishLater(u)
  <2> DEFINE was == publishing[u]
             p == [was EXCEPT !.state = "scheduled"]
  <2>0. was \in Publication /\ PublicationOK(was, handlers) /\ DOMAIN publishing = Units
        /\ was.state = "none"
    BY <1>13 DEF PublishLater, MayPublish, IInv, TypeOK, PublicationsInv
  <2>1. publishing' = [publishing EXCEPT ![u] = p] /\ unit' = [unit EXCEPT ![u] = r]
    <3>1. publishing' = [publishing EXCEPT ![u] = p]
      BY <1>13, <2>0 DEF PublishLater
    <3>2. unit' = unit /\ unit \in [Units -> Unit]
      BY <1>13 DEF PublishLater, IInv, TypeOK
    <3> HIDE DEF p, was
    <3> QED BY <3>1, <3>2
  <2>2. /\ p \in Publication /\ p.state = "scheduled" /\ p.at = was.at
        /\ p.invoked = was.invoked /\ p.throughout = was.throughout
        /\ p.shrunk = was.shrunk
    BY <2>0 DEF Publication
  <2>3. PublicationOK(p, handlers)
    <3> HIDE DEF p
    <3> QED BY <2>0, <2>2 DEF PublicationOK
  <2>4. UnitOK(r, p.state) /\ Keeps(r, r) /\ SendOK(r, p.state)
    <3> HIDE DEF p, was
    <3> QED BY <1>0, <1>13, <2>2 DEF PublishLater, MayPublish, UnitOK, Keeps, Active, SendOK
  <2>5. UNCHANGED <<handlers, changes, queue, worker>>
    BY <1>13 DEF PublishLater
  <2> HIDE DEF p, was
  <2> QED BY <1>0, <2>1, <2>2, <2>3, <2>4, <2>5, UnitStep
<1> QED BY <1>1, <1>2, <1>3, <1>4, <1>5, <1>6, <1>7, <1>8, <1>9, <1>10, <1>11, <1>12,
           <1>13 DEF Work

-----------------------------------------------------------------------------
(* Publications.                                                           *)

\* What becomes of a publication when a handler is done with the event.
LEMMA HandlerDone ==
    ASSUME IInv, NEW u \in Units, AfterHandler(u), publishing[u].state = "handling"
    PROVE  \E p \in Publication : /\ publishing' = [publishing EXCEPT ![u] = p]
                                  /\ p.state = "running" /\ PublicationOK(p, handlers)
<1> DEFINE was == publishing[u]
           p == [was EXCEPT !.state = "running", !.handler = Nobody]
<1>0. was \in Publication /\ PublicationOK(was, handlers) /\ DOMAIN publishing = Units
  BY DEF IInv, TypeOK, PublicationsInv
<1>1. publishing' = [publishing EXCEPT ![u] = p]
  BY <1>0 DEF AfterHandler
<1>2. /\ p \in Publication /\ p.state = "running" /\ p.at = was.at
      /\ p.invoked = was.invoked /\ p.throughout = was.throughout /\ p.shrunk = was.shrunk
  BY <1>0 DEF Publication
<1>3. PublicationOK(p, handlers)
  <2> HIDE DEF p
  <2> QED BY <1>0, <1>2, ReturnsOK
<1> HIDE DEF p
<1> QED BY <1>1, <1>2, <1>3

LEMMA HandleKeeps ==
    ASSUME IInv, NEW u \in Units, Handle(u)
    PROVE  IInv'
<1> DEFINE r == unit[u]
           was == publishing[u]
<1>0. r \in Unit /\ UnitOK(r, was.state) /\ SendOK(r, was.state) /\ DOMAIN unit = Units
  BY DEF IInv, TypeOK, UnitsInv
<1>a. /\ was \in Publication /\ PublicationOK(was, handlers) /\ DOMAIN publishing = Units
      /\ handlers \in Seq(Handlers) /\ IsInjective(handlers)
  BY DEF IInv, TypeOK, PublicationsInv
<1>b. /\ was.at \in Nat /\ was.at + 1 \in Nat /\ was.invoked \in Seq(Handlers)
      /\ Len(was.invoked) = was.at - 1
  BY <1>a DEF Publication, PublicationOK
<1>1. CASE StartScheduled(u)
  <2> DEFINE now == IF handlers = <<>> THEN "over" ELSE "running"
             p == [was EXCEPT !.state = now, !.throughout = ToSet(handlers)]
  <2>1. publishing' = [publishing EXCEPT ![u] = p]
    BY <1>1, <1>a DEF StartScheduled, EnterPublish
  <2>2. ToSet(handlers) \in SUBSET Handlers
    BY <1>a DEF ToSet
  <2>3. /\ p \in Publication /\ p.state = now /\ p.throughout = ToSet(handlers)
        /\ p.at = was.at /\ p.invoked = was.invoked
    BY <1>a, <2>2 DEF Publication
  <2>4. PublicationOK(p, handlers)
    <3>1. was.state = "scheduled"
      BY <1>1 DEF StartScheduled
    <3> HIDE DEF p, was
    <3> QED BY <1>a, <2>3, <3>1, EntersOK
  <2>5. /\ was.state \in Active /\ p.state \in Active \union {"over"}
        /\ UNCHANGED <<handlers, changes, unit, queue, worker>>
    <3> HIDE DEF p
    <3> QED BY <1>1, <2>3 DEF StartScheduled, Active
  <2> HIDE DEF p, now
  <2> QED BY <2>1, <2>3, <2>4, <2>5, EventStep
<1>2. CASE CallHandler(u)
  <2> DEFINE n == was.at
             next == n + 1
             h == handlers[n]
             now == Append(was.invoked, h)
             p == [was EXCEPT !.state = "handling", !.at = next, !.handler = h,
                              !.invoked = now]
  <2>1. publishing' = [publishing EXCEPT ![u] = p]
    BY <1>2, <1>a DEF CallHandler
  <2>0. was.state = "running" /\ n <= Len(handlers)
    BY <1>2 DEF CallHandler
  <2>2. h \in Handlers
    <3>1. n \in Nat /\ n # 0 /\ Len(handlers) \in Nat
      BY <1>a, <1>b
    <3>2. n \in 1..Len(handlers)
      <4> HIDE DEF n
      <4> QED BY <2>0, <3>1
    <3> QED BY <1>a, <3>2
  <2>3. now \in Seq(Handlers) /\ next \in Nat
    BY <1>b, <2>2, Appended
  <2>4. /\ p \in Publication /\ p.state = "handling" /\ p.throughout = was.throughout
        /\ p.at = next /\ p.invoked = now /\ p.shrunk = was.shrunk
    <3> HIDE DEF now, next, h
    <3> QED BY <1>a, <2>2, <2>3 DEF Publication
  <2>5. PublicationOK(p, handlers)
    <3>1. p.at = was.at + 1 /\ p.invoked = Append(was.invoked, handlers[was.at])
      BY <2>4
    <3> HIDE DEF p, was, now, next, h
    <3> QED BY <1>a, <2>0, <2>4, <3>1, CallsOK DEF n
  <2>6. /\ was.state \in Active /\ p.state \in Active \union {"over"}
        /\ UNCHANGED <<handlers, changes, unit, queue, worker>>
    <3> HIDE DEF p
    <3> QED BY <1>2, <2>4 DEF CallHandler, Active
  <2> HIDE DEF p, now, next, h, n
  <2> QED BY <2>1, <2>4, <2>5, <2>6, EventStep
<1>3. CASE EndPublication(u)
  <2> DEFINE s == [r EXCEPT !.pc = IF @ = "await" THEN "work" ELSE @]
             p == [was EXCEPT !.state = "over"]
  <2>1. unit' = [unit EXCEPT ![u] = s]
    BY <1>0, <1>3 DEF EndPublication
  <2>2. publishing' = [publishing EXCEPT ![u] = p]
    BY <1>3, <1>a DEF EndPublication
  <2>3. /\ s \in Unit /\ s.left = r.left /\ s.asked = r.asked
        /\ s.hooks = r.hooks /\ s.sent = r.sent
        /\ s.pc = (IF r.pc = "await" THEN "work" ELSE r.pc)
        /\ s.mode = r.mode /\ s.trace = r.trace /\ s.row = r.row
    BY <1>0 DEF Unit
  <2>4. /\ p \in Publication /\ p.state = "over" /\ p.throughout = was.throughout
        /\ p.at = was.at /\ p.invoked = was.invoked /\ p.shrunk = was.shrunk
    BY <1>a DEF Publication
  <2>5. PublicationOK(p, handlers)
    <3>1. was.state = "running" /\ was.at > Len(handlers)
      BY <1>3 DEF EndPublication
    <3> HIDE DEF p, was
    <3> QED BY <1>a, <2>4, <3>1, EndsOK
  <2>6. UnitOK(s, "over") /\ Keeps(r, s)
    <3> HIDE DEF s
    <3> QED BY <1>0, <1>3, <2>3 DEF EndPublication, UnitOK, Keeps, Active
  <2>7. SendOK(s, "over")
    <3> HIDE DEF s
    <3>1. Quiet(r, s)
      BY <1>0, <1>3, <2>3 DEF EndPublication, Quiet, SendOK, UnitOK, Active
    <3> QED BY <1>0, <3>1, QuietSends
  <2>8. UNCHANGED <<handlers, changes, queue, worker>>
    BY <1>3 DEF EndPublication
  <2> HIDE DEF s, p
  <2> QED BY <2>1, <2>2, <2>3, <2>4, <2>5, <2>6, <2>7, <2>8, UnitStep
<1>4. CASE HandlerReturns(u) \/ HandlerRaises(u)
  <2>1. /\ AfterHandler(u) /\ was.state = "handling"
        /\ UNCHANGED <<handlers, changes, unit, queue, worker>>
    BY <1>4 DEF HandlerReturns, HandlerRaises, AfterFailure, AfterHandler
  <2> QED BY <2>1, HandlerDone, EventStep DEF Active
<1>5. CASE HandlerEnqueues(u)
  <2> DEFINE n == r.asked + 1
             m == MessageOf(u, n, InAtomic(u))
             sent == Append(r.sent, n)
             s == [r EXCEPT !.sent = sent, !.asked = n]
  <2>1. unit' = [unit EXCEPT ![u] = s] /\ queue' = queue \union {m}
    BY <1>0, <1>5 DEF HandlerEnqueues, Sent
  <2>a. /\ r.asked \in Nat /\ r.left \in Nat /\ r.sent \in Seq(1..MaxTasks)
        /\ MaxTasks \in Nat /\ was.state = "handling"
    BY <1>0, <1>5, BoundAssumption DEF Unit, HandlerEnqueues
  <2>0. n + r.left <= MaxTasks /\ n \in 1..MaxTasks /\ n \in 0..MaxTasks
    <3> DEFINE a == r.asked
               b == r.left
    <3>1. a \in Nat /\ b \in Nat /\ a + b + 1 <= MaxTasks /\ n = a + 1 /\ MaxTasks \in Nat
      BY <1>5, <2>a, RoomForMore DEF HandlerEnqueues
    <3> HIDE DEF a, n
    <3> QED BY <3>1
  <2>2. sent \in Seq(1..MaxTasks)
    <3> DEFINE q == r.sent
    <3>1. q \in Seq(1..MaxTasks) /\ n \in 1..MaxTasks
      BY <2>a, <2>0
    <3> HIDE DEF n, q
    <3>2. Append(q, n) \in Seq(1..MaxTasks)
      BY ONLY <3>1, Appended
    <3> QED BY <3>2 DEF q
  <2>3. /\ s \in Unit /\ s.left = r.left /\ s.asked = n /\ s.hooks = r.hooks /\ s.sent = sent
        /\ s.pc = r.pc /\ s.mode = r.mode /\ s.trace = r.trace /\ s.row = r.row
    <3> HIDE DEF n, sent
    <3> QED BY <1>0, <2>0, <2>2 DEF Unit
  <2>4. UnitOK(s, "running") /\ Keeps(r, s)
    <3> HIDE DEF s, n, sent
    <3> QED BY <1>0, <2>a, <2>3 DEF UnitOK, Keeps, Active
  <2>5. SendOK(s, "running")
    <3>1. s.sent = Append(r.sent, s.asked) /\ s.asked = r.asked + 1
      BY <2>3
    <3>2. s.asked \in 1..MaxTasks /\ s.asked + s.left <= MaxTasks
          /\ (s.pc = "bulk" <=> s.left > 0)
      <4> HIDE DEF n, s
      <4> QED BY <1>0, <2>0, <2>3 DEF SendOK
    <3> HIDE DEF r, s, n, sent, was
    <3> QED BY <1>0, <2>3, <3>1, <3>2, NextSends
  <2>6. InAtomic(u) \in BOOLEAN
    BY DEF InAtomic
  <2>7. /\ m \in Message /\ m.of = u /\ m.attempt = 0 /\ m.trace = r.trace
        /\ m.early = InAtomic(u)
    <3> HIDE DEF n
    <3> QED BY <2>0, <2>6, MessageType
  <2>8. r.pc # "idle" /\ (~InAtomic(u) => r.row = "committed")
    BY <1>0, <2>a DEF InAtomic, Unit, UnitOK, Active
  <2>9. MessageOK(m, s)
    <3> HIDE DEF s, m
    <3> QED BY <2>3, <2>7, <2>8 DEF MessageOK
  <2>10. UNCHANGED <<handlers, changes, worker>> /\ AfterHandler(u)
    BY <1>5 DEF HandlerEnqueues
  <2>11. PICK p \in Publication : /\ publishing' = [publishing EXCEPT ![u] = p]
                                  /\ p.state = "running" /\ PublicationOK(p, handlers)
    BY <2>10, <2>a, HandlerDone
  <2> HIDE DEF s, m, n, sent
  <2> QED BY <2>1, <2>3, <2>4, <2>5, <2>7, <2>9, <2>10, <2>11, UnitStep
<1> QED BY <1>1, <1>2, <1>3, <1>4, <1>5 DEF Handle

\* The list of handlers is nothing to a unit or to a message.
LEMMA HandlersKeep ==
    ASSUME IInv, NEW h \in Handlers, Subscribe(h) \/ Unsubscribe(h)
    PROVE  IInv'
<1>0. /\ handlers \in Seq(Handlers) /\ IsInjective(handlers) /\ DOMAIN publishing = Units
  BY DEF IInv, TypeOK
<1>a. \A u \in Units : publishing[u] \in Publication /\ PublicationOK(publishing[u], handlers)
  BY DEF IInv, TypeOK, PublicationsInv
<1>1. UNCHANGED <<unit, queue, worker>> /\ changes' \in 0..MaxChanges
  <2>1. changes \in 0..MaxChanges /\ MaxChanges \in Nat
    BY BoundAssumption DEF IInv, TypeOK
  <2>2. UNCHANGED <<unit, queue, worker>> /\ changes' = changes + 1 /\ changes < MaxChanges
    BY DEF Subscribe, Unsubscribe
  <2> QED BY <2>1, <2>2
<1>2. /\ handlers' \in Seq(Handlers) /\ IsInjective(handlers')
      /\ DOMAIN publishing' = Units
      /\ \A u \in Units : /\ publishing'[u] \in Publication
                          /\ publishing'[u].state = publishing[u].state
                          /\ PublicationOK(publishing'[u], handlers')
  <2>1. CASE Subscribe(h)
    <3>1. handlers' = Append(handlers, h) /\ publishing' = publishing
          /\ ~Contains(handlers, h)
      BY <2>1 DEF Subscribe
    <3>2. handlers' \in Seq(Handlers) /\ IsInjective(handlers')
      BY <1>0, <3>1, AppendedApart
    <3> QED BY <1>0, <1>a, <3>1, <3>2, GrowsOK
  <2>2. CASE Unsubscribe(h)
    <3>1. PICK n \in DOMAIN handlers : handlers[n] = h /\ handlers' = RemoveAt(handlers, n)
      BY <2>2 DEF Unsubscribe
    <3>2. handlers' \in Seq(Handlers) /\ IsInjective(handlers')
      BY <1>0, <3>1, RemovedApart
    <3>3. DOMAIN publishing' = Units
      BY <2>2 DEF Unsubscribe
    <3>4. ASSUME NEW u \in Units
          PROVE  /\ publishing'[u] \in Publication
                 /\ publishing'[u].state = publishing[u].state
                 /\ PublicationOK(publishing'[u], handlers')
      <4> DEFINE p == publishing[u]
                 gone == h \in p.throughout
                 left == p.throughout \ {h}
                 over == p.shrunk \/ gone
                 q == [p EXCEPT !.throughout = left, !.shrunk = over]
      <4>1. publishing'[u] = q
        BY <2>2 DEF Unsubscribe
      <4>2. p \in Publication /\ left \in SUBSET Handlers /\ over \in BOOLEAN
        BY <1>a DEF Publication
      <4>3. /\ q \in Publication /\ q.state = p.state /\ q.at = p.at
            /\ q.invoked = p.invoked /\ q.throughout = left /\ q.shrunk = over
        <5> HIDE DEF left, over
        <5> QED BY <4>2 DEF Publication
      <4>4. PublicationOK(q, RemoveAt(handlers, n))
        <5>1. q.throughout = p.throughout \ {handlers[n]}
              /\ q.shrunk = (p.shrunk \/ handlers[n] \in p.throughout)
          BY <3>1, <4>3
        <5> HIDE DEF q, p
        <5> QED BY <1>0, <1>a, <4>2, <4>3, <5>1, ShrinksOK DEF p
      <4> HIDE DEF q
      <4> QED BY <3>1, <4>1, <4>3, <4>4
    <3> QED BY <3>2, <3>3, <3>4
  <2> QED BY <2>1, <2>2
<1>3. TypeOK'
  <2>1. publishing' \in [Units -> Publication]
    <3> DEFINE f == publishing'
    <3>1. f = [u \in Units |-> f[u]]
      BY DEF IInv, TypeOK, Subscribe, Unsubscribe
    <3>2. \A u \in Units : f[u] \in Publication
      BY <1>2
    <3> HIDE DEF f
    <3>3. f \in [Units -> Publication]
      BY <3>1, <3>2
    <3> QED BY <3>3 DEF f
  <2> QED BY <1>1, <1>2, <2>1 DEF IInv, TypeOK
<1>4. UnitsInv' /\ MessagesInv' /\ PublicationsInv'
  BY <1>1, <1>2 DEF IInv, UnitsInv, MessagesInv, PublicationsInv
<1> QED BY <1>3, <1>4 DEF IInv

-----------------------------------------------------------------------------
(* Workers.                                                                *)

\* A step of worker w, whose record becomes x.
LEMMA WorkerStep ==
    ASSUME IInv, NEW w \in Workers, UNCHANGED <<handlers, changes, unit, publishing>>,
           NEW x, worker' = [worker EXCEPT ![w] = x],
           x \in [message : Message \union {Nobody}, bound : Units \union {Nobody, Fresh}],
           x.message = Nobody => x.bound = Nobody,
           x.message # Nobody => MessageOK(x.message, unit[x.message.of])
               /\ (x.message.attempt = 0 => x.bound = Bound(x.message)),
           \A m \in queue' : m \in Message /\ MessageOK(m, unit[m.of])
    PROVE  IInv'
<1> USE DEF IInv
<1>1. /\ worker' \in [Workers -> [message : Message \union {Nobody},
                                  bound : Units \union {Nobody, Fresh}]]
      /\ worker'[w] = x /\ \A v \in Workers \ {w} : worker'[v] = worker[v]
  BY DEF TypeOK
<1>2. TypeOK'
  BY <1>1 DEF TypeOK
<1>3. MessagesInv'
  BY <1>1 DEF MessagesInv
<1> QED BY <1>2, <1>3 DEF UnitsInv, PublicationsInv

LEMMA NobodyIsNoMessage == Nobody \notin Message
<1>1. MaxTasks \in Nat /\ MaxRetries \in Nat
  BY BoundAssumption
<1>2. Message \subseteq [of : Units, task : Nat, early : BOOLEAN, attempt : Nat,
                        trace : Units \union {Nobody}]
  BY <1>1 DEF Message
<1> QED BY <1>2, NobodyAssumption

LEMMA ServeKeeps ==
    ASSUME IInv, NEW w \in Workers, Serve(w)
    PROVE  IInv'
<1>1. Nobody \notin Message
  BY NobodyIsNoMessage
<1>2. \A m \in queue : m \in Message /\ MessageOK(m, unit[m.of])
  BY DEF IInv, TypeOK, MessagesInv
<1>3. ASSUME NEW m \in queue, StartTask(w, m) PROVE IInv'
  <2> DEFINE x == [message |-> m, bound |-> Bound(m)]
  <2>1. x.message = m /\ x.bound = Bound(m)
    OBVIOUS
  <2>2. m \in Message /\ Bound(m) \in Units \union {Nobody, Fresh}
    BY <1>2 DEF Message, Bound
  <2>3. x \in [message : Message \union {Nobody}, bound : Units \union {Nobody, Fresh}]
    BY <2>2
  <2>4. worker' = [worker EXCEPT ![w] = x] /\ queue' = queue \ {m}
        /\ UNCHANGED <<handlers, changes, unit, publishing>>
    BY <1>3 DEF StartTask
  <2> HIDE DEF x
  <2> QED BY <1>1, <1>2, <2>1, <2>2, <2>3, <2>4, WorkerStep
<1>4. CASE EndTask(w)
  <2>1. /\ worker' = [worker EXCEPT ![w] = Idle]
        /\ UNCHANGED <<handlers, changes, unit, publishing, queue>>
    BY <1>4 DEF EndTask, ClearContext
  <2> QED BY <1>2, <2>1, WorkerStep DEF Idle
<1>5. CASE RetryTask(w)
  <2> DEFINE m == worker[w].message
             n == m.attempt + 1
             again == [m EXCEPT !.attempt = n, !.trace = Nobody]
  <2>1. m \in Message /\ MessageOK(m, unit[m.of]) /\ m.attempt < MaxRetries
    BY <1>5 DEF RetryTask, PublishAgain, IInv, TypeOK, MessagesInv
  <2>2. n \in 0..MaxRetries /\ n # 0
    BY <2>1, BoundAssumption DEF Message
  <2>3. again \in Message /\ again.of = m.of /\ again.early = m.early
        /\ again.attempt = n
    <3> HIDE DEF n, m
    <3> QED BY <2>1, <2>2 DEF Message
  <2>4. MessageOK(again, unit[again.of])
    <3> HIDE DEF again
    <3> QED BY <2>1, <2>2, <2>3 DEF MessageOK
  <2>5. queue' = queue \union {again}
        /\ UNCHANGED <<handlers, changes, unit, publishing>>
        /\ worker' = [worker EXCEPT ![w] = Idle]
    BY <1>5 DEF RetryTask, PublishAgain, BeforePublish, ClearContext
  <2> HIDE DEF again
  <2> QED BY <1>2, <2>3, <2>4, <2>5, WorkerStep DEF Idle
<1> QED BY <1>3, <1>4, <1>5 DEF Serve

-----------------------------------------------------------------------------
(* The theorems.                                                           *)

LEMMA NextIInv == IInv /\ [Next]_vars => IInv'
<1> SUFFICES ASSUME IInv, [Next]_vars PROVE IInv'
  OBVIOUS
<1>1. CASE \E u \in Units : Work(u) \/ Handle(u)
  BY <1>1, WorkKeeps, HandleKeeps
<1>2. CASE \E h \in Handlers : Subscribe(h) \/ Unsubscribe(h)
  BY <1>2, HandlersKeep
<1>3. CASE \E w \in Workers : Serve(w)
  BY <1>3, ServeKeeps
<1>4. CASE UNCHANGED vars
  BY <1>4 DEF vars, IInv, TypeOK, UnitsInv, MessagesInv, PublicationsInv
<1> QED BY <1>1, <1>2, <1>3, <1>4 DEF Next

LEMMA Invariant == Spec => []IInv
BY InitIInv, NextIInv, PTL DEF Spec

\* Every variable keeps its type: a unit never asks for more tasks than there is room
\* for, and no task is tried more often than its max_retries says.
THEOREM TypeCorrect == Spec => []TypeOK
<1>1. IInv => TypeOK
  BY DEF IInv
<1> QED BY <1>1, Invariant, PTL

\* A worker runs a task only after the row it is about was committed, unless a handler
\* of an event published inside the transaction asked for it (enqueue_on_commit,
\* _enqueue, run_on_commit).
THEOREM NoTaskBeforeCommit == Spec => []RunsAfterCommit
<1>1. IInv => RunsAfterCommit
  BY DEF IInv, MessagesInv, MessageOK, RunsAfterCommit
<1> QED BY <1>1, Invariant, PTL

\* The first attempt of a task runs under the trace of the unit that asked for it,
\* and a worker with no task has none bound (celery_signals).
THEOREM FirstAttemptTraced == Spec => []TracedFirst
<1>1. IInv => TracedFirst
  BY DEF IInv, MessagesInv, MessageOK, TracedFirst, Bound
<1> QED BY <1>1, Invariant, PTL

\* The tasks a unit asks for by itself are sent in the order it asked, before or after
\* its commit, and a unit that ends well has sent each of them (_enqueue_bulk,
\* run_on_commit).
THEOREM TasksSentInOrder == Spec => []TasksSent
<1>1. ASSUME IInv PROVE TasksSent
  <2>1. SentInOrder
    BY <1>1 DEF IInv, UnitsInv, SendOK, InOrder, SentInOrder
  <2>2. ASSUME NEW u \in Units, unit[u].pc = "done"
        PROVE  ToSet(unit[u].sent) = 1..unit[u].asked
    <3> DEFINE r == unit[u]
    <3>1. r \in Unit /\ SendOK(r, publishing[u].state) /\ r.hooks = <<>>
      BY <1>1, <2>2 DEF IInv, TypeOK, UnitsInv, SendOK
    <3>2. /\ r.sent \in Seq(1..MaxTasks) /\ r.asked \in Nat /\ MaxTasks \in Nat
          /\ DOMAIN r.hooks = {} /\ r.pc # "failed"
      BY <2>2, <3>1, BoundAssumption DEF Unit
    <3>3. \A i \in DOMAIN r.sent : r.sent[i] \in 1..r.asked
      <4>1. \A i \in DOMAIN r.sent : r.sent[i] \in 1..MaxTasks
        BY <3>2
      <4>2. \A i \in DOMAIN r.sent : r.sent[i] <= r.asked
        BY <3>1 DEF SendOK
      <4> QED BY <3>2, <4>1, <4>2
    <3>4. \A n \in 1..r.asked : \E i \in DOMAIN r.sent : r.sent[i] = n
      BY <3>1, <3>2 DEF SendOK, TakenCareOf
    <3> QED BY <3>3, <3>4 DEF ToSet
  <2> QED BY <2>1, <2>2 DEF TasksSent, NothingForgotten
<1> QED BY <1>1, Invariant, PTL

\* An event reaches every handler that was subscribed when its publication began once
\* and once only, whichever of them raise, whoever subscribes meanwhile and whichever
\* of the later ones leave, unless one of them is unsubscribed itself (publish).
THEOREM HandlersCalledOnce == Spec => []EveryHandlerCalled
<1>1. IInv => EveryHandlerCalled
  BY DEF IInv, PublicationsInv, PublicationOK, EveryHandlerCalled
<1> QED BY <1>1, Invariant, PTL
=============================================================================
