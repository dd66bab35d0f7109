------------------------- MODULE SnowflakeGenerator -------------------------
(***************************************************************************)
(* One SnowflakeGenerator that is kept and asked again and again, while    *)
(* the wall clock may be set back, and that may be replaced by one resumed *)
(* from the last identifier it gave (from_snowflake).                      *)
(***************************************************************************)
EXTENDS SnowflakeId

CONSTANTS
    Instance,   \* the worker's instance number
    MaxClock,   \* bound on the clock
    MaxIds      \* bound on the identifiers made

ASSUME InstanceAssumption == Instance \in Instances
ASSUME BoundsAssumption == MaxClock \in Nat /\ MaxIds \in Nat

VARIABLES
    clock,   \* the wall clock
    gen,     \* _ts and _seq
    last,    \* the last identifier
    made     \* how many identifiers there were

vars == <<clock, gen, last, made>>

TypeOK ==
    /\ clock \in 0..MaxClock
    /\ gen \in [ts : Nat, seq : Seqs]
    /\ last \in Int
    /\ made \in 0..MaxIds

\* SnowflakeGenerator(instance): the current time and sequence number 0.
Init ==
    /\ clock = 0
    /\ gen = [ts |-> 0, seq |-> 0]
    /\ last = NoId
    /\ made = 0

\* next(gen) returns an identifier.
Emit ==
    /\ made < MaxIds
    /\ ~Refuses(gen, clock)
    /\ gen' = Advance(gen, clock)
    /\ last' = Encode(gen'.ts, Instance, gen'.seq)
    /\ made' = made + 1
    /\ UNCHANGED clock

\* next(gen) returns None and leaves the generator as it is.
Refuse ==
    /\ Refuses(gen, clock)
    /\ UNCHANGED vars

\* from_snowflake(Snowflake.parse(last)).  The constructor rejects a time that
\* is still to come: after the clock was set back the worker has to wait.
Resume ==
    /\ last # NoId
    /\ Parse(last).timestamp <= clock
    /\ gen' = [ts |-> Parse(last).timestamp, seq |-> Parse(last).seq]
    /\ UNCHANGED <<clock, last, made>>

Tick ==
    /\ clock < MaxClock
    /\ clock' = clock + 1
    /\ UNCHANGED <<gen, last, made>>

SetBack ==
    /\ clock > 0
    /\ clock' \in 0..(clock - 1)
    /\ UNCHANGED <<gen, last, made>>

Next == Emit \/ Refuse \/ Resume \/ Tick \/ SetBack

Spec == Init /\ [][Next]_vars

-----------------------------------------------------------------------------

\* A generator never repeats itself nor goes back: each identifier is greater
\* than every one before, whatever the clock does and however often the
\* generator is resumed from its last identifier (__next__, from_snowflake).
Increasing == [][made' # made => last' > last]_vars

\* An identifier decodes to the worker that made it and to the time and number it
\* was made with: a full sequence never spills into the fields above it (parse).
DecodesToMaker ==
    last # NoId =>
        Parse(last) = [timestamp |-> gen.ts, instance |-> Instance, seq |-> gen.seq]
=============================================================================
