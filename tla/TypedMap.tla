------------------------------ MODULE TypedMap ------------------------------
(***************************************************************************)
(* What one operation of rocks::DBMap does to the contents of its column    *)
(* family when it succeeds (crates/typed-store/src/rocks/mod.rs, impl Map    *)
(* for DBMap).  A column family is a function from Keys to Values or         *)
(* NoValue (the Option::None of the code).  An operation that fails leaves   *)
(* the contents alone: a single put or delete is atomic, and a batch that    *)
(* fails to serialise one entry is dropped before it is written.             *)
(* Keys and values are opaque here: encodings have their own modules.        *)
(***************************************************************************)
EXTENDS Naturals, Sequences

CONSTANTS Keys, Values, NoValue

ASSUME NoValueAssumption == NoValue \notin Values

\* The contents a column family can have.
Contents == [Keys -> Values \cup {NoValue}]

\* DBMap::get: Some(value) or None.
Get(m, k) == m[k]

\* The bincode image of a value, which DBMap::get_raw_bytes returns undecoded.
\* bincode is injective on the values of one type and never yields a value.
RawBytes(v) == IF v = NoValue THEN NoValue ELSE [bincode |-> v]

GetRawBytes(m, k) == RawBytes(m[k])

\* DBMap::multi_get: one answer per requested position, in request order.
MultiGet(m, ks) == [i \in DOMAIN ks |-> m[ks[i]]]

Insert(m, k, v) == [m EXCEPT ![k] = v]

Remove(m, k) == [m EXCEPT ![k] = NoValue]

\* Position i holds the entry of a batch that decides the value of key k: a
\* batch is applied in order, so the last entry for k wins.
Decides(ps, i, k) ==
    /\ i \in DOMAIN ps
    /\ ps[i][1] = k
    /\ \A j \in DOMAIN ps : j > i => ps[j][1] # k

\* DBMap::multi_insert: one DBBatch filled by insert_batch and written at once.
MultiInsert(m, ps) ==
    [k \in Keys |-> IF \E i \in DOMAIN ps : Decides(ps, i, k)
                    THEN ps[CHOOSE i \in DOMAIN ps : Decides(ps, i, k)][2]
                    ELSE m[k]]

\* DBMap::multi_remove: one DBBatch filled by delete_batch and written at once.
MultiRemove(m, ks) ==
    [k \in Keys |-> IF \E i \in DOMAIN ks : ks[i] = k THEN NoValue ELSE m[k]]

\* DBMap::iter collected: the (key, value) pairs present.
Entries(m) == {<<k, m[k]>> : k \in {j \in Keys : m[j] # NoValue}}
=============================================================================
