\* Two units that publish one event each and set off up to two tasks; the
\* subscriptions change once, a task is tried twice.
SPECIFICATION Spec
CONSTANTS
    Units = {u1, u2}
    Workers = {k1}
    Handlers = {h1, h2}
    Enqueuers = {h1}
    Nobody = Nobody
    Fresh = Fresh
    MaxTasks = 2
    MaxRetries = 1
    MaxChanges = 1
SYMMETRY Symmetry
CHECK_DEADLOCK FALSE
INVARIANTS
    TypeOK
    RunsAfterCommit
    TasksSent
    TracedFirst
    EveryHandlerCalled
