-------------------------- MODULE MCColumnFamilies --------------------------
(* Instances of ColumnFamilies for TLC. *)
EXTENDS ColumnFamilies, TLC

CONSTANTS t1, t2, v1, v2

MCKeys == 1..2
MCThreads == {t1, t2}
MCRequests == {{"a", "b"}, {"a"}}
MCValues == {v1, v2}

\* Every kind of operation, on a column family that is cleared as well (get is
\* the first step of get_or_insert).
EveryKind ==
    {[kind |-> "contains_key", cf |-> "a", key |-> 1],
     [kind |-> "multi_get", cf |-> "a", keys |-> <<1, 2>>],
     [kind |-> "get_or_insert", cf |-> "a", key |-> 1, value |-> v1],
     [kind |-> "put", cf |-> "a", key |-> 1, value |-> NoValue],
     [kind |-> "clear", cf |-> "a"],
     [kind |-> "report_metrics", cf |-> "a"],
     [kind |-> "batch", entries |-> <<Put("b", 1, v2), DeleteRange("a", 1, 2),
                                      Put("a", 2, v2)>>],
     [kind |-> "batch", entries |-> <<[Delete("a", 1) EXCEPT !.foreign = TRUE]>>]}

\* Reads against writes and clear.
ClearAndUse ==
    {[kind |-> "get", cf |-> "a", key |-> 1],
     [kind |-> "clear", cf |-> "a"]}
=============================================================================
