---------------------------- MODULE SnowflakeId ----------------------------
(***************************************************************************)
(* The identifiers of common/utils/snowflake.py and one step of the        *)
(* generator that makes them.  Times are milliseconds since the epoch that *)
(* is configured.  The three bit fields do not overlap, so `|` adds them.  *)
(*                                                                         *)
(* A definition X_<mistake>, placed before X, is X with a plausible        *)
(* mistake, swapped in for X to confirm that some property notices.        *)
(***************************************************************************)
EXTENDS Integers

CONSTANTS
    MaxSeq,       \* MAX_SEQ
    MaxInstance   \* MAX_INSTANCE

ASSUME FieldsAssumption == MaxSeq \in Nat \ {0} /\ MaxInstance \in Nat

Seqs == 0..MaxSeq
Instances == 0..MaxInstance

\* The sizes of the sequence field and of the instance field.
SeqSize == MaxSeq + 1
InstanceSize == MaxInstance + 1

\* The integer made of the three fields: Snowflake.value and __next__.
Encode_SeqAboveTimestamp(ts, instance, seq) ==
    (seq * InstanceSize + instance) * SeqSize + ts
Encode(ts, instance, seq) == (ts * InstanceSize + instance) * SeqSize + seq

\* Before the first identifier.
NoId == -1

\* Snowflake.parse.
Parse(id) == [timestamp |-> (id \div SeqSize) \div InstanceSize,
              instance  |-> (id \div SeqSize) % InstanceSize,
              seq       |-> id % SeqSize]

\* __next__ returns None: the sequence is used up, or the clock went back.
Refuses_AllowsSkew(gen, now) == now = gen.ts /\ gen.seq = MaxSeq
Refuses(gen, now) == now < gen.ts \/ (now = gen.ts /\ gen.seq = MaxSeq)

\* What the generator holds after __next__ has returned an identifier.
Advance(gen, now) ==
    [ts |-> now, seq |-> IF now = gen.ts THEN gen.seq + 1 ELSE 0]
=============================================================================
