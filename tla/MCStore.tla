------------------------------- MODULE MCStore -------------------------------
(***************************************************************************)
(* Instances of the Store for TLC: two keys, two values, a channel of one or  *)
(* two slots so that it fills, three or four calls.                            *)
(***************************************************************************)
EXTENDS StoreRefinement, TLC

CONSTANTS k1, k2, v1, v2

Write(k, v, a) == [op |-> "Write", key |-> k, value |-> v, ack |-> a]
WriteAll(ps) == [op |-> "WriteAll", pairs |-> ps]
Delete(k) == [op |-> "Delete", key |-> k]
DeleteAll(ks) == [op |-> "DeleteAll", keys |-> ks]
ReadAll(ks) == [op |-> "ReadAll", keys |-> ks]
Read(k) == [op |-> "Read", key |-> k]
ReadRawBytes(k) == [op |-> "ReadRawBytes", key |-> k]
NotifyRead(k) == [op |-> "NotifyRead", key |-> k]
Iter(p) == [op |-> "Iter", pred |-> p]

\* Every kind of command, over two keys; a batch with a duplicate key.
AllKinds ==
    { Write(k1, v1, TRUE), Write(k1, v2, FALSE),
      WriteAll(<< <<k1, v1>>, <<k2, v2>>, <<k1, v2>> >>),
      Delete(k1), DeleteAll(<<k1, k2>>),
      Read(k1), ReadRawBytes(k2), ReadAll(<<k2, k1, k2>>),
      NotifyRead(k1), NotifyRead(k2), Iter({k1} \X {v1, v2}) }

\* Writers and waiters of one key, with a batch over both.
WaitersAndWriters ==
    { NotifyRead(k1), Write(k1, v1, FALSE), WriteAll(<< <<k2, v1>>, <<k1, v2>> >>),
      Delete(k1) }

\* A waiter and a batched write of its key.
BatchWake == { NotifyRead(k1), WriteAll(<< <<k1, v1>>, <<k2, v1>> >>) }

Symmetry == Permutations(Calls)
=============================================================================
