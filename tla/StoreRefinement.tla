--------------------------- MODULE StoreRefinement ---------------------------
(***************************************************************************)
(* The Store actor implements AtomicStore: a command takes effect when the   *)
(* task handles it; waiting for a slot and waiting for an answer are the      *)
(* same to a caller; the obligations of all keys together are the waiting     *)
(* calls; a closed oneshot is an answer that never came.                      *)
(***************************************************************************)
EXTENDS Store

CallerStatus ==
    [c \in Calls |-> IF InProgress(c) THEN "called" ELSE status[c]]

CallerReply ==
    [c \in Calls |-> IF reply[c] = Closed THEN Pending ELSE reply[c]]

Atomic == INSTANCE AtomicStore WITH
    alive <- task = "running",
    status <- CallerStatus,
    reply <- CallerReply,
    waiting <- UNION {obligations[k] : k \in Keys}

\* Every behaviour of the actor is one the callers of an atomic store could
\* see: one effect per call, in real-time order, and answers that agree with
\* the contents at that instant (lib.rs:65-162 seen from lib.rs:170-312).
ImplementsAtomicStore == Atomic!Spec
=============================================================================
