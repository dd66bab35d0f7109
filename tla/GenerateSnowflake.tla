------------------------- MODULE GenerateSnowflake -------------------------
(***************************************************************************)
(* generate_snowflake (common/utils/snowflake.py), which models use as the *)
(* default of a column: each call makes a generator of its own, asks it up *)
(* to max_retries times and sleeps a millisecond after each None.          *)
(*                                                                         *)
(* Calls run in several threads and worker processes; all use the instance *)
(* number 0, for no setting gives another.  `now` is the time that passes, *)
(* which sleep() measures, in ticks that are a fraction of a millisecond;  *)
(* the wall clock is behind it by what it was set back, in ticks too, and  *)
(* what a generator reads of it are whole milliseconds.  No name is one of *)
(* SnowflakeGenerator's, so that one module can prove both.                *)
(***************************************************************************)
EXTENDS SnowflakeId

CONSTANTS
    Calls,        \* the calls of generate_snowflake
    MaxRetries,   \* max_retries
    TicksPerMs,   \* how many ticks a millisecond has
    MaxNow,       \* bound on the time
    MaxSetBack    \* bound on what the clock is set back in all

ASSUME RetriesAssumption == MaxRetries \in Nat \ {0}
ASSUME TicksAssumption == TicksPerMs \in Nat \ {0}
ASSUME CallBoundsAssumption == MaxNow \in Nat /\ MaxSetBack \in Nat

VARIABLES
    now,        \* the ticks that have passed
    setBack,    \* how many of them the wall clock has been set back
    pc,         \* where each call is
    generator,  \* the generator of each call
    tries,      \* how often each call has asked it
    slept,      \* when each call last went to sleep
    id,         \* the identifier each call has returned
    began       \* for the properties: the time, what was set back, and which calls
                \* were done, when a call began

callVars == <<now, setBack, pc, generator, tries, slept, id, began>>

\* int(time() * 1000).  The clock starts high enough to be positive.
Milliseconds(ticks) == ticks \div TicksPerMs
Wall == Milliseconds(MaxSetBack + now - setBack)

CallTypeOK ==
    /\ now \in 0..MaxNow
    /\ setBack \in 0..MaxSetBack
    /\ pc \in [Calls -> {"idle", "ask", "sleep", "done", "failed"}]
    /\ generator \in [Calls -> [ts : Nat, seq : Nat]]
    /\ tries \in [Calls -> 0..MaxRetries]
    /\ slept \in [Calls -> 0..MaxNow]
    /\ id \in [Calls -> Int]
    /\ began \in [Calls -> [now : 0..MaxNow, setBack : 0..MaxSetBack,
                            done : SUBSET Calls]]

CallInit ==
    /\ now = 0 /\ setBack = 0
    /\ pc = [c \in Calls |-> "idle"]
    /\ generator = [c \in Calls |-> [ts |-> 0, seq |-> 0]]
    /\ tries = [c \in Calls |-> 0]
    /\ slept = [c \in Calls |-> 0]
    /\ id = [c \in Calls |-> NoId]
    /\ began = [c \in Calls |-> [now |-> 0, setBack |-> 0, done |-> {}]]

\* The call makes its generator.
Create(c) ==
    /\ pc[c] = "idle"
    /\ pc' = [pc EXCEPT ![c] = "ask"]
    /\ generator' = [generator EXCEPT ![c] = [ts |-> Wall, seq |-> 0]]
    /\ began' = [began EXCEPT ![c] =
                    [now |-> now, setBack |-> setBack,
                     done |-> {d \in Calls : pc[d] = "done"}]]
    /\ UNCHANGED <<now, setBack, tries, slept, id>>

RetriesLeft(c) == tries[c] < MaxRetries

\* The generator has an identifier for the call.
Obtain(c) ==
    /\ pc[c] = "ask" /\ RetriesLeft(c)
    /\ ~Refuses(generator[c], Wall)
    /\ generator' = [generator EXCEPT ![c] = Advance(generator[c], Wall)]
    /\ id' = [id EXCEPT ![c] = Encode(generator'[c].ts, 0, generator'[c].seq)]
    /\ pc' = [pc EXCEPT ![c] = "done"]
    /\ UNCHANGED <<now, setBack, tries, slept, began>>

\* It has none, and the call goes to sleep.
GoToSleep(c) ==
    /\ pc[c] = "ask" /\ RetriesLeft(c)
    /\ Refuses(generator[c], Wall)
    /\ pc' = [pc EXCEPT ![c] = "sleep"]
    /\ tries' = [tries EXCEPT ![c] = @ + 1]
    /\ slept' = [slept EXCEPT ![c] = now]
    /\ UNCHANGED <<now, setBack, generator, id, began>>

\* sleep(0.001) returns, a millisecond later at the earliest.
Rested_NotSlept(c) == TRUE
Rested(c) == now >= slept[c] + TicksPerMs

WakeUp(c) ==
    /\ pc[c] = "sleep"
    /\ Rested(c)
    /\ pc' = [pc EXCEPT ![c] = "ask"]
    /\ UNCHANGED <<now, setBack, generator, tries, slept, id, began>>

\* The retries are used up: RuntimeError.
GiveUp(c) ==
    /\ pc[c] = "ask" /\ ~RetriesLeft(c)
    /\ pc' = [pc EXCEPT ![c] = "failed"]
    /\ UNCHANGED <<now, setBack, generator, tries, slept, id, began>>

TimePasses ==
    /\ now < MaxNow
    /\ now' = now + 1
    /\ UNCHANGED <<setBack, pc, generator, tries, slept, id, began>>

SetClockBack ==
    /\ setBack' \in (setBack + 1)..MaxSetBack
    /\ UNCHANGED <<now, pc, generator, tries, slept, id, began>>

CallNext ==
    \/ \E c \in Calls : Create(c) \/ Obtain(c) \/ GoToSleep(c) \/ WakeUp(c) \/ GiveUp(c)
    \/ TimePasses \/ SetClockBack

CallSpec == CallInit /\ [][CallNext]_callVars

-----------------------------------------------------------------------------

\* A call raises RuntimeError only if the clock was set back by more than
\* max_retries - 1 milliseconds while it ran; a smaller correction is slept through.
\* (The times it compares are truncated, so a little more is enough.)
FailsOnlyOnSkew ==
    \A c \in Calls : pc[c] = "failed" =>
        setBack - began[c].setBack > (MaxRetries - 1) * TicksPerMs

\* While the clock is not set back, a call that begins after another one has
\* returned gets an identifier that is not smaller: rows are ordered in time.
OrderedInTime ==
    \A c, d \in Calls :
        /\ pc[c] = "done" /\ pc[d] = "done" /\ c \in began[d].done
        /\ setBack = 0
        => id[d] >= id[c]

=============================================================================
