----------------------------- MODULE Background -----------------------------
(***************************************************************************)
(* What a piece of work sets off besides its own database writes: events   *)
(* for the handlers in its process (common/events/base.py) and tasks for   *)
(* the Celery workers (services/celery_dispatcher.py), which are to run    *)
(* after its commit and to log under its trace (observability/             *)
(* celery_signals.py, middleware/logging.py).                              *)
(*                                                                         *)
(* A unit is a request or another piece of work with a context of its own. *)
(* An "async" unit is a use case on the event loop: each of its writes     *)
(* commits by itself.  An "atomic" unit is synchronous code in             *)
(* transaction.atomic() with hooks on its models.  Every await is a place  *)
(* where others go on.  The broker may refuse a task at any time, a task   *)
(* may ask to be tried again.  Django, Celery and asgiref are modelled as  *)
(* far as this code relies on them.                                        *)
(*                                                                         *)
(* A definition X_<mistake>, placed before X, is X with a plausible        *)
(* mistake, swapped in for X to confirm that some property notices.        *)
(***************************************************************************)
EXTENDS Naturals, Sequences, SequencesExt

CONSTANTS
    Units, Workers,
    Handlers,       \* of the one type of event
    Enqueuers,      \* those whose handle() enqueues a task
    Nobody,         \* no handler, no trace, no task
    Fresh,          \* the uuid that is made up where there is no trace
    MaxTasks,       \* bound on the tasks of all units together
    MaxRetries,     \* bound on the retries of a task
    MaxChanges      \* bound on subscriptions and unsubscriptions

ASSUME HandlersAssumption ==
    IsFiniteSet(Handlers) /\ Enqueuers \subseteq Handlers /\ Nobody \notin Handlers
\* Nobody is no message.
ASSUME NobodyAssumption ==
    Nobody \notin [of : Units, task : Nat, early : BOOLEAN, attempt : Nat,
                  trace : Units \union {Nobody}]
\* For the count of their tasks.
ASSUME UnitsAssumption == IsFiniteSet(Units)
ASSUME BoundAssumption == {MaxTasks, MaxRetries, MaxChanges} \subseteq Nat

VARIABLES
    handlers,   \* _handlers[event_type]
    changes,    \* how often it was changed
    unit,       \* each unit: see Unit
    publishing, \* the publication of each unit's event: see Publication
    queue,      \* messages with the broker
    worker      \* what each worker runs, and the trace bound in its log context

vars == <<handlers, changes, unit, publishing, queue, worker>>

Unit == [pc : {"idle", "work", "bulk", "await", "hooks", "done", "failed"},
         mode : {"async", "atomic"},
         trace : Units \union {Nobody},         \* trace_id_var
         row : {"none", "pending", "committed"}, \* the row its tasks are about
         left : 0..MaxTasks,                     \* of kwargs_list
         asked : 0..MaxTasks,                    \* tasks asked for so far
         hooks : Seq(1..MaxTasks),               \* run_on_commit of its connection
         sent : Seq(1..MaxTasks)]                \* history: tasks sent, in order

Publication == [state : {"none", "scheduled", "running", "handling", "over"},
                at : Nat,                        \* position in the live list
                handler : Handlers \union {Nobody},
                invoked : Seq(Handlers),         \* history
                throughout : SUBSET Handlers,    \* history: subscribed all along
                shrunk : BOOLEAN]                \* history: one was unsubscribed

Message == [of : Units, task : 1..MaxTasks, early : BOOLEAN, attempt : 0..MaxRetries,
            trace : Units \union {Nobody}]       \* __metadata__["trace_id"]

NoPublication == [state |-> "none", at |-> 1, handler |-> Nobody, invoked |-> <<>>,
                  throughout |-> {}, shrunk |-> FALSE]
Idle == [message |-> Nobody, bound |-> Nobody]

Init ==
    /\ handlers \in {<<>>, SetToSeq(Handlers)}
    /\ changes = 0
    /\ unit = [u \in Units |->
           [pc |-> "idle", mode |-> "async", trace |-> Nobody, row |-> "none",
            left |-> 0, asked |-> 0, hooks |-> <<>>, sent |-> <<>>]]
    /\ publishing = [u \in Units |-> NoPublication]
    /\ queue = {}
    /\ worker = [w \in Workers |-> Idle]

-----------------------------------------------------------------------------
(* A unit.                                                                 *)

InAtomic(u) == unit[u].mode = "atomic" /\ unit[u].pc \in {"work", "await"}

\* The logging middlewares give a request a trace, its caller's or one of its own;
\* a request on an exempt path and other work have none.
TraceOf(u, exempt) == IF exempt THEN Nobody ELSE u

Begin(u, mode, exempt) ==
    /\ unit[u].pc = "idle"
    /\ unit' = [unit EXCEPT ![u].pc = "work", ![u].mode = mode,
                            ![u].trace = TraceOf(u, exempt)]
    /\ UNCHANGED <<handlers, changes, publishing, queue, worker>>

WriteRow(u) ==
    /\ unit[u].pc = "work" /\ unit[u].row = "none"
    /\ unit' = [unit EXCEPT ![u].row = IF InAtomic(u) THEN "pending" ELSE "committed"]
    /\ UNCHANGED <<handlers, changes, publishing, queue, worker>>

-----------------------------------------------------------------------------
(* Sending a task.                                                         *)

\* The tasks asked for, and those that a loop is about to ask for.
Asked(u) == unit[u].asked + unit[u].left
Tasks == {t \in Units \X (1..MaxTasks) : t[2] <= Asked(t[1])}
MayAsk(k) == Cardinality(Tasks) + k <= MaxTasks

BeforePublish_Forgotten(trace) == Nobody
\* _task_before_publish_handler, in the context of whoever publishes.
BeforePublish(trace) == trace

\* apply_async: the message of the unit's next, or n-th, task.
MessageOf(u, n, early) ==
    [of |-> u, task |-> n, early |-> early, attempt |-> 0,
     trace |-> BeforePublish(unit[u].trace)]

\* What becomes of unit u when apply_async of its n-th task returns.
Sent(u, n) == [unit[u] EXCEPT !.sent = Append(@, n)]

OnCommit_SendsAtOnce(u, n) ==
    /\ queue' = queue \union {MessageOf(u, n, FALSE)}
    /\ unit' = [unit EXCEPT ![u] = [Sent(u, n) EXCEPT !.asked = n]]
\* transaction.on_commit on the connection of the unit, with a transaction open.
OnCommit(u, n) ==
    /\ unit' = [unit EXCEPT ![u].asked = n, ![u].hooks = Append(@, n)]
    /\ UNCHANGED queue

\* enqueue_on_commit, from a hook on a model that has just been saved.
EnqueueOnCommit(u) ==
    /\ InAtomic(u) /\ unit[u].pc = "work"
    /\ unit[u].row # "none" /\ MayAsk(1)
    /\ OnCommit(u, unit[u].asked + 1)
    /\ UNCHANGED <<handlers, changes, publishing, worker>>

\* _enqueue_bulk, or _enqueue, of k tasks from a use case.
EnqueueBulk(u, k) ==
    /\ unit[u].pc = "work" /\ unit[u].mode = "async"
    /\ unit[u].row # "none" /\ MayAsk(k)
    /\ unit' = [unit EXCEPT ![u].pc = "bulk", ![u].left = k]
    /\ UNCHANGED <<handlers, changes, publishing, queue, worker>>

\* One turn of the loop.  The thread that sync_to_async uses has no transaction
\* open, so the callback of on_commit, or _send itself, runs at once.
After(u) == IF unit[u].left > 1 THEN "bulk" ELSE "work"
EnqueueNext(u) ==
    LET n == unit[u].asked + 1 IN
    /\ unit[u].pc = "bulk"
    /\ queue' = queue \union {MessageOf(u, n, FALSE)}
    /\ unit' = [unit EXCEPT ![u] =
           [Sent(u, n) EXCEPT !.asked = n, !.left = @ - 1, !.pc = After(u)]]
    /\ UNCHANGED <<handlers, changes, publishing, worker>>

\* The broker cannot be reached: the loop and the use case end.
BulkFails(u) ==
    /\ unit[u].pc = "bulk"
    /\ unit' = [unit EXCEPT ![u].pc = "failed", ![u].asked = @ + 1, ![u].left = 0]
    /\ UNCHANGED <<handlers, changes, publishing, queue, worker>>

-----------------------------------------------------------------------------
(* The end of a unit.                                                      *)

Commit(u) ==
    /\ unit[u].pc = "work" /\ InAtomic(u)
    /\ unit' = [unit EXCEPT ![u].pc = "hooks",
                            ![u].row = IF @ = "pending" THEN "committed" ELSE @]
    /\ UNCHANGED <<handlers, changes, publishing, queue, worker>>

\* Of the transaction: an exception left the atomic block.
Rollback(u) ==
    /\ unit[u].pc = "work" /\ InAtomic(u)
    /\ unit' = [unit EXCEPT ![u].pc = "failed", ![u].row = "none", ![u].hooks = <<>>]
    /\ UNCHANGED <<handlers, changes, publishing, queue, worker>>

Callbacks_LastFirst(u) == [next |-> Last(unit[u].hooks), rest |-> Front(unit[u].hooks)]
Callbacks(u) == [next |-> Head(unit[u].hooks), rest |-> Tail(unit[u].hooks)]

\* The callbacks run after the commit, in order.
RunCallback(u) ==
    LET n == Callbacks(u).next IN
    /\ unit[u].pc = "hooks" /\ unit[u].hooks # <<>>
    /\ queue' = queue \union {MessageOf(u, n, FALSE)}
    /\ unit' = [unit EXCEPT ![u] = [Sent(u, n) EXCEPT !.hooks = Callbacks(u).rest]]
    /\ UNCHANGED <<handlers, changes, publishing, worker>>

\* One that raises takes the others with it; the commit stands.
CallbackFails(u) ==
    /\ unit[u].pc = "hooks" /\ unit[u].hooks # <<>>
    /\ unit' = [unit EXCEPT ![u].pc = "failed", ![u].hooks = <<>>]
    /\ UNCHANGED <<handlers, changes, publishing, queue, worker>>

Finish(u) ==
    /\ \/ unit[u].pc = "work" /\ unit[u].mode = "async"
       \/ unit[u].pc = "hooks" /\ unit[u].hooks = <<>>
    /\ unit' = [unit EXCEPT ![u].pc = "done"]
    /\ UNCHANGED <<handlers, changes, publishing, queue, worker>>

-----------------------------------------------------------------------------
(* Events.                                                                 *)

Subscribe(h) ==
    /\ changes < MaxChanges /\ ~Contains(handlers, h)
    /\ handlers' = Append(handlers, h)
    /\ changes' = changes + 1
    /\ UNCHANGED <<unit, publishing, queue, worker>>

\* The list that a publication iterates over shrinks under it.
Unsubscribe(h) ==
    /\ changes < MaxChanges
    /\ \E i \in DOMAIN handlers : handlers[i] = h /\ handlers' = RemoveAt(handlers, i)
    /\ changes' = changes + 1
    /\ publishing' = [u \in Units |-> [publishing[u] EXCEPT
           !.throughout = @ \ {h}, !.shrunk = @ \/ h \in publishing[u].throughout]]
    /\ UNCHANGED <<unit, queue, worker>>

\* An event tells of something that was written.
MayPublish(u) ==
    unit[u].pc = "work" /\ unit[u].row # "none" /\ publishing[u].state = "none"

\* publish up to its loop: without handlers there is nothing to do.
EnterPublish(u) ==
    publishing' = [publishing EXCEPT ![u].state = IF handlers = <<>> THEN "over"
                                                                     ELSE "running",
                                     ![u].throughout = ToSet(handlers)]

\* await publish(event); or publish_sync(event) without a running loop, which is
\* asyncio.run(publish(event)).
Publish(u) ==
    /\ MayPublish(u)
    /\ EnterPublish(u)
    /\ unit' = [unit EXCEPT ![u].pc = IF handlers = <<>> THEN "work" ELSE "await"]
    /\ UNCHANGED <<handlers, changes, queue, worker>>

\* publish_sync(event) on the event loop: a task of its own, in a copy of the context.
PublishLater(u) ==
    /\ MayPublish(u) /\ unit[u].mode = "async"
    /\ publishing' = [publishing EXCEPT ![u].state = "scheduled"]
    /\ UNCHANGED <<handlers, changes, unit, queue, worker>>

StartScheduled(u) ==
    /\ publishing[u].state = "scheduled"
    /\ EnterPublish(u)
    /\ UNCHANGED <<handlers, changes, unit, queue, worker>>

\* The iterator's next handler, by its position in the list as it is now.
CallHandler(u) ==
    LET p == publishing[u] IN
    /\ p.state = "running" /\ p.at <= Len(handlers)
    /\ publishing' = [publishing EXCEPT ![u] =
           [p EXCEPT !.state = "handling", !.at = @ + 1, !.handler = handlers[p.at],
                     !.invoked = Append(@, handlers[p.at])]]
    /\ UNCHANGED <<handlers, changes, unit, queue, worker>>

EndPublication(u) ==
    /\ publishing[u].state = "running" /\ publishing[u].at > Len(handlers)
    /\ publishing' = [publishing EXCEPT ![u].state = "over"]
    /\ unit' = [unit EXCEPT ![u].pc = IF @ = "await" THEN "work" ELSE @]
    /\ UNCHANGED <<handlers, changes, queue, worker>>

AfterHandler(u) ==
    publishing' = [publishing EXCEPT ![u].state = "running", ![u].handler = Nobody]

AfterFailure_Stops(u) ==
    publishing' = [publishing EXCEPT ![u].at = Len(handlers) + 1, ![u].state = "running",
                                     ![u].handler = Nobody]
\* The exception is logged.
AfterFailure(u) == AfterHandler(u)

HandlerReturns(u) ==
    /\ publishing[u].state = "handling" /\ publishing[u].handler \notin Enqueuers
    /\ AfterHandler(u)
    /\ UNCHANGED <<handlers, changes, unit, queue, worker>>

\* handle() awaits _enqueue.  It is no part of a transaction, whoever published: one
\* that the publisher has open is on the connection of another thread.
HandlerEnqueues(u) ==
    LET n == unit[u].asked + 1 IN
    /\ publishing[u].state = "handling" /\ publishing[u].handler \in Enqueuers
    /\ MayAsk(1)
    /\ queue' = queue \union {MessageOf(u, n, InAtomic(u))}
    /\ unit' = [unit EXCEPT ![u] = [Sent(u, n) EXCEPT !.asked = n]]
    /\ AfterHandler(u)
    /\ UNCHANGED <<handlers, changes, worker>>

HandlerRaises(u) ==
    /\ publishing[u].state = "handling"
    /\ AfterFailure(u)
    /\ UNCHANGED <<handlers, changes, unit, queue, worker>>

-----------------------------------------------------------------------------
(* A worker.                                                               *)

\* _task_prerun_handler.
Bound(message) == IF message.trace = Nobody THEN Fresh ELSE message.trace

StartTask(w, message) ==
    /\ worker[w] = Idle /\ message \in queue
    /\ queue' = queue \ {message}
    /\ worker' = [worker EXCEPT ![w] = [message |-> message, bound |-> Bound(message)]]
    /\ UNCHANGED <<handlers, changes, unit, publishing>>

\* _task_postrun_handler.
ClearContext(w) == Idle

\* It returned, or it failed for good.
EndTask(w) ==
    /\ worker[w].message # Nobody
    /\ worker' = [worker EXCEPT ![w] = ClearContext(w)]
    /\ UNCHANGED <<handlers, changes, unit, publishing, queue>>

\* The worker publishes the task again: trace_id_var is not set in a worker.
PublishAgain(w) ==
    /\ worker[w].message # Nobody
    /\ queue' = queue \union {[worker[w].message EXCEPT
           !.attempt = @ + 1, !.trace = BeforePublish(Nobody)]}
    /\ worker' = [worker EXCEPT ![w] = ClearContext(w)]
    /\ UNCHANGED <<handlers, changes, unit, publishing>>

RetryTask_Forever(w) == PublishAgain(w)
\* A task that raises is tried again as often as its max_retries says.
RetryTask(w) ==
    /\ worker[w].message # Nobody /\ worker[w].message.attempt < MaxRetries
    /\ PublishAgain(w)

-----------------------------------------------------------------------------
Work(u) ==
    \/ \E mode \in {"async", "atomic"}, exempt \in BOOLEAN : Begin(u, mode, exempt)
    \/ WriteRow(u) \/ EnqueueOnCommit(u) \/ (\E k \in 1..MaxTasks : EnqueueBulk(u, k))
    \/ EnqueueNext(u) \/ BulkFails(u)
    \/ Commit(u) \/ Rollback(u) \/ RunCallback(u) \/ CallbackFails(u) \/ Finish(u)
    \/ Publish(u) \/ PublishLater(u)

Handle(u) ==
    \/ StartScheduled(u) \/ CallHandler(u) \/ EndPublication(u)
    \/ HandlerReturns(u) \/ HandlerEnqueues(u) \/ HandlerRaises(u)

Serve(w) == (\E message \in queue : StartTask(w, message)) \/ EndTask(w) \/ RetryTask(w)

Next ==
    \/ \E u \in Units : Work(u) \/ Handle(u)
    \/ \E h \in Handlers : Subscribe(h) \/ Unsubscribe(h)
    \/ \E w \in Workers : Serve(w)

Spec == Init /\ [][Next]_vars

-----------------------------------------------------------------------------
TypeOK ==
    /\ handlers \in Seq(Handlers) /\ IsInjective(handlers)
    /\ changes \in 0..MaxChanges
    /\ unit \in [Units -> Unit]
    /\ publishing \in [Units -> Publication]
    /\ queue \subseteq Message
    /\ worker \in [Workers -> [message : Message \union {Nobody},
                              bound : Units \union {Nobody, Fresh}]]

\* A worker runs a task only after the row it is about was committed (the dispatcher:
\* "tasks are enqueued only after the surrounding DB transaction commits"), unless
\* the task was enqueued by a handler of an event published inside a transaction.
RunsAfterCommit == \A w \in Workers :
    LET message == worker[w].message
    IN  message # Nobody /\ ~message.early => unit[message.of].row = "committed"

\* (Handlers ask in the unit's name at their own time.)
SentInOrder == \A u \in Units : publishing[u].state = "none" =>
    \A i \in DOMAIN unit[u].sent : unit[u].sent[i] = i

NothingForgotten == \A u \in Units :
    unit[u].pc = "done" => ToSet(unit[u].sent) = 1..unit[u].asked

\* The tasks a unit asked for by itself are sent in the order it asked, so what a
\* failure of the broker loses is a tail, and a unit that ends well has sent every
\* task it asked for (_enqueue_bulk, run_on_commit).
TasksSent == SentInOrder /\ NothingForgotten

\* The first attempt of a task logs under the trace of the unit that set it off,
\* and a worker between two tasks under none (celery_signals: "ensuring end-to-end
\* traceability").
TracedFirst == \A w \in Workers :
    LET message == worker[w].message
        trace == unit[message.of].trace
    IN  IF message = Nobody THEN worker[w].bound = Nobody
        ELSE message.attempt = 0 =>
                 worker[w].bound = IF trace = Nobody THEN Fresh ELSE trace

CalledOnce(p, h) == \E i \in DOMAIN p.invoked :
    p.invoked[i] = h /\ \A j \in DOMAIN p.invoked : p.invoked[j] = h => j = i

\* A publication that is over has called every handler that was subscribed when it
\* began once, and once only, unless one of them was unsubscribed meanwhile ("Failures
\* in one handler do not prevent subsequent handlers from running").
EveryHandlerCalled == \A u \in Units :
    LET p == publishing[u] IN
    p.state = "over" /\ ~p.shrunk => \A h \in p.throughout : CalledOnce(p, h)
=============================================================================
