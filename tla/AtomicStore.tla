----------------------------- MODULE AtomicStore -----------------------------
(***************************************************************************)
(* What the Store promises its callers, without its channel, its task loop   *)
(* and its table of obligations: every call takes effect at one instant, at   *)
(* most once, after it began and after every call that had returned before    *)
(* it began; only a fire-and-forget call may return before its effect.  A     *)
(* notify_read that finds nothing waits, and the instant that writes or       *)
(* removes its key answers it.  If the store dies, calls without an answer    *)
(* end in a panic and calls without an effect never have one.                 *)
(***************************************************************************)
EXTENDS TypedMap

CONSTANTS Calls, Commands, DbMayFail

VARIABLES db, alive, status, cmd, reply, before, served, waiting

vars == <<db, alive, status, cmd, reply, before, served, waiting>>

\* What a caller has been told so far.
Pending == [is |-> "pending", val |-> NoValue]
Err     == [is |-> "err", val |-> NoValue]
Ok(x)   == [is |-> "ok", val |-> x]

FireAndForget(cm) == cm.op = "Delete" \/ (cm.op = "Write" /\ ~cm.ack)

\* The keys a command that changes the map is about.
Touched(cm) ==
    CASE cm.op \in {"Write", "Delete"} -> {cm.key}
      [] cm.op = "WriteAll" -> {cm.pairs[i][1] : i \in DOMAIN cm.pairs}
      [] cm.op = "DeleteAll" -> {cm.keys[i] : i \in DOMAIN cm.keys}
      [] OTHER -> {}

\* The map after a successful command, and the answer to its caller.
Effect(m, cm) ==
    CASE cm.op = "Write" -> Insert(m, cm.key, cm.value)
      [] cm.op = "WriteAll" -> MultiInsert(m, cm.pairs)
      [] cm.op = "Delete" -> Remove(m, cm.key)
      [] cm.op = "DeleteAll" -> MultiRemove(m, cm.keys)
      [] OTHER -> m

Answer(m, cm) ==
    CASE cm.op \in {"Read", "NotifyRead"} -> Ok(Get(m, cm.key))
      [] cm.op = "ReadRawBytes" -> Ok(GetRawBytes(m, cm.key))
      [] cm.op = "ReadAll" -> Ok([vec |-> MultiGet(m, cm.keys)])
      [] cm.op = "Iter" -> Ok([map |-> Entries(m) \cap cm.pred])
      [] OTHER -> Ok(NoValue)

\* What a waiting notify_read is told when its key is touched.
Wake(cm) == IF cm.op = "Write" THEN Ok(cm.value) ELSE Ok(NoValue)

Waiters(cm) == {w \in waiting : cmd[w].key \in Touched(cm)}

Init ==
    /\ db = [k \in Keys |-> NoValue]
    /\ alive = TRUE
    /\ status = [c \in Calls |-> "idle"]
    /\ cmd \in [Calls -> Commands]
    /\ reply = [c \in Calls |-> Pending]
    /\ before = [c \in Calls |-> {}]
    /\ served = {}
    /\ waiting = {}

Begin(c) ==
    /\ status[c] = "idle"
    /\ status' = [status EXCEPT ![c] = "called"]
    /\ before' = [before EXCEPT ![c] = {w \in Calls : status[w] = "returned"}]
    /\ UNCHANGED <<db, alive, cmd, reply, served, waiting>>

\* The call can take effect now: it began, it has not taken effect yet, and
\* every call that returned before it began has.
Ready(c) ==
    /\ alive
    /\ status[c] # "idle"
    /\ c \notin served
    /\ before[c] \subseteq served
    /\ served' = served \cup {c}
    /\ UNCHANGED <<alive, status, cmd, before>>

\* Only a call still in progress can learn an answer.
Tell(woken, w, c, r) ==
    [x \in Calls |-> IF status[x] # "called" THEN reply[x]
                     ELSE IF x \in woken THEN w
                     ELSE IF x = c /\ ~FireAndForget(cmd[c]) THEN r
                     ELSE reply[x]]

Succeed(c) ==
    /\ Ready(c)
    /\ cmd[c].op = "NotifyRead" => db[cmd[c].key] # NoValue
    /\ db' = Effect(db, cmd[c])
    /\ waiting' = waiting \ Waiters(cmd[c])
    /\ reply' = Tell(Waiters(cmd[c]), Wake(cmd[c]), c, Answer(db, cmd[c]))

\* notify_read of a key that is missing, or that could not be read.
Wait(c) ==
    /\ Ready(c)
    /\ cmd[c].op = "NotifyRead"
    /\ db[cmd[c].key] = NoValue \/ DbMayFail
    /\ waiting' = waiting \cup {c}
    /\ UNCHANGED <<db, reply>>

\* A failed command changes nothing.  Delete and Iter hide the failure: the
\* first still answers the waiters of its key, the second is cut short.
Fail(c) ==
    /\ DbMayFail
    /\ Ready(c)
    /\ UNCHANGED db
    /\ \/ /\ cmd[c].op = "Delete"
          /\ waiting' = waiting \ Waiters(cmd[c])
          /\ reply' = Tell(Waiters(cmd[c]), Ok(NoValue), c, Err)
       \/ /\ cmd[c].op = "Iter"
          /\ \E part \in SUBSET Entries(db) :
                reply' = Tell({}, Err, c, Ok([map |-> part \cap cmd[c].pred]))
          /\ UNCHANGED waiting
       \/ /\ cmd[c].op \notin {"Delete", "Iter", "NotifyRead"}
          /\ reply' = Tell({}, Err, c, Err)
          /\ UNCHANGED waiting

Return(c) ==
    /\ status[c] = "called"
    /\ \/ /\ FireAndForget(cmd[c])
          /\ status' = [status EXCEPT ![c] = "returned"]
       \/ /\ reply[c] # Pending
          /\ status' = [status EXCEPT ![c] = "returned"]
       \/ /\ ~alive
          /\ reply[c] = Pending
          /\ status' = [status EXCEPT ![c] = "panicked"]
    /\ UNCHANGED <<db, alive, cmd, reply, before, served, waiting>>

Cancel(c) ==
    /\ status[c] = "called"
    /\ status' = [status EXCEPT ![c] = "cancelled"]
    /\ UNCHANGED <<db, alive, cmd, reply, before, served, waiting>>

Die ==
    /\ alive
    /\ alive' = FALSE
    /\ waiting' = {}
    /\ UNCHANGED <<db, status, cmd, reply, before, served>>

Next ==
    \/ \E c \in Calls : \/ Begin(c) \/ Succeed(c) \/ Wait(c) \/ Fail(c)
                        \/ Return(c) \/ Cancel(c)
    \/ Die

Spec == Init /\ [][Next]_vars
=============================================================================
