------------------------------- MODULE Store --------------------------------
(***************************************************************************)
(* The Store actor of crates/typed-store/src/lib.rs: clients call methods   *)
(* on clones of a handle; each method sends one StoreCommand through a       *)
(* bounded mpsc channel to a single task that owns the DBMap, and most await  *)
(* the answer on a oneshot channel of their own.  notify_read of a missing    *)
(* key leaves its sender in the task's obligations until the key is written   *)
(* or removed.                                                                *)
(*                                                                            *)
(* A member of Calls is one method invocation; clients may be on any number   *)
(* of threads, so any set of calls can be in progress together.               *)
(***************************************************************************)
EXTENDS TypedMap

CONSTANTS Calls,        \* method invocations
          Commands,     \* the commands clients issue
          Capacity,     \* channel(100) in Store::new
          DbMayFail,    \* a RocksDB operation may return an error
          TaskMayPanic  \* a handler may panic (DBMap::cf, an Iter predicate)

\* StoreCommand.  "ack" says whether Write carries a oneshot sender
\* (sync_write) or None (async_write); "pred" is the set of pairs that the
\* predicate of Iter accepts (all of them for None).
StoreCommand ==
         [op : {"Write"}, key : Keys, value : Values, ack : BOOLEAN]
    \cup [op : {"WriteAll"}, pairs : Seq(Keys \X Values)]
    \cup [op : {"Delete"}, key : Keys]
    \cup [op : {"DeleteAll", "ReadAll"}, keys : Seq(Keys)]
    \cup [op : {"Read", "ReadRawBytes", "NotifyRead"}, key : Keys]
    \cup [op : {"Iter"}, pred : SUBSET (Keys \X Values)]

ASSUME CommandsAssumption == Commands \subseteq StoreCommand
ASSUME CapacityAssumption == Capacity \in Nat \ {0}
ASSUME FaultAssumption == DbMayFail \in BOOLEAN /\ TaskMayPanic \in BOOLEAN

VARIABLES
    db,           \* the column family the task owns
    channel,      \* commands sent and not yet received, oldest first
    obligations,  \* for each key the notify_read calls parked on it; all of a
                  \* key's senders are popped together, so their order is moot
    task,         \* "running", "stopped" (all handles gone) or "panicked"
    handles,      \* some clone of the Store handle is alive
    status,       \* where each call stands
    cmd,          \* the command each call issues, chosen by its client
    reply,        \* the oneshot channel of each call
    before,       \* history: the calls that had returned when this one began
    served,       \* history: the calls whose command the task has handled
    unreadable    \* history: the calls parked because get returned an error

vars == <<db, channel, obligations, task, handles, status, cmd, reply, before,
          served, unreadable>>

clientVars == <<handles, status, cmd, before>>
taskVars   == <<db, channel, obligations, task, reply, served, unreadable>>

\* What a oneshot channel holds.  Ok(()) is Ok(NoValue); the
\* answers of read_all and iter are tagged vec and map, a raw one bincode.
Pending == [is |-> "pending", val |-> NoValue]
Closed  == [is |-> "closed", val |-> NoValue]
Err     == [is |-> "err", val |-> NoValue]
Ok(x)   == [is |-> "ok", val |-> x]

Statuses == {"idle", "sending", "awaiting", "returned", "cancelled", "panicked"}

\* async_write and remove do not wait for the task.
FireAndForget(cm) == cm.op = "Delete" \/ (cm.op = "Write" /\ ~cm.ack)

InProgress(c) == status[c] \in {"sending", "awaiting"}

Init ==
    /\ db = [k \in Keys |-> NoValue]
    /\ channel = <<>>
    /\ obligations = [k \in Keys |-> {}]
    /\ task = "running"
    /\ handles = TRUE
    /\ status = [c \in Calls |-> "idle"]
    /\ cmd \in [Calls -> Commands]
    /\ reply = [c \in Calls |-> Pending]
    /\ before = [c \in Calls |-> {}]
    /\ served = {}
    /\ unreadable = {}

-----------------------------------------------------------------------------
(* The client side: one call is Begin, then Enqueue, then Receive.          *)

\* A client calls a method: the future is polled for the first time.
Begin(c) ==
    /\ handles
    /\ status[c] = "idle"
    /\ status' = [status EXCEPT ![c] = "sending"]
    /\ before' = [before EXCEPT ![c] = {w \in Calls : status[w] = "returned"}]
    /\ UNCHANGED <<handles, cmd>>
    /\ UNCHANGED taskVars

\* channel.send(..).await gets a slot; the methods without a reply end here.
Enqueue(c) ==
    /\ status[c] = "sending"
    /\ task = "running"
    /\ Len(channel) < Capacity
    /\ channel' = Append(channel, c)
    /\ status' = [status EXCEPT ![c] = IF FireAndForget(cmd[c])
                                       THEN "returned" ELSE "awaiting"]
    /\ UNCHANGED <<db, obligations, task, reply, served, unreadable>>
    /\ UNCHANGED <<handles, cmd, before>>

\* The task is gone, so its receiver is: send fails and the method panics.
SendFails(c) ==
    /\ status[c] = "sending"
    /\ task # "running"
    /\ status' = [status EXCEPT ![c] = "panicked"]
    /\ UNCHANGED <<handles, cmd, before>>
    /\ UNCHANGED taskVars

\* receiver.await resolves; a dropped sender makes .expect panic.
Receive(c) ==
    /\ status[c] = "awaiting"
    /\ reply[c].is # "pending"
    /\ status' = [status EXCEPT ![c] = IF reply[c].is = "closed"
                                       THEN "panicked" ELSE "returned"]
    /\ UNCHANGED <<handles, cmd, before>>
    /\ UNCHANGED taskVars

\* The client drops the future (a timeout, a select).  A command that is
\* already in the channel stays there.
Cancel(c) ==
    /\ InProgress(c)
    /\ status' = [status EXCEPT ![c] = "cancelled"]
    /\ UNCHANGED <<handles, cmd, before>>
    /\ UNCHANGED taskVars

\* The last clone of the handle goes; a call in progress borrows its handle.
DropHandles ==
    /\ handles
    /\ \A c \in Calls : ~InProgress(c)
    /\ handles' = FALSE
    /\ UNCHANGED <<status, cmd, before>>
    /\ UNCHANGED taskVars

-----------------------------------------------------------------------------
(* The task.  Each handler runs without an await: it is one step.           *)

\* Mutant of Receives: the newest command is taken first.
Receives_Newest(c, op) ==
    /\ task = "running"
    /\ channel # <<>>
    /\ c = channel[Len(channel)]
    /\ cmd[c].op = op
    /\ channel' = SubSeq(channel, 1, Len(channel) - 1)
    /\ served' = served \cup {c}
    /\ UNCHANGED task
    /\ UNCHANGED clientVars

\* rx.recv() yields the command of call c, which is of the given kind.
Receives(c, op) ==
    /\ task = "running"
    /\ channel # <<>>
    /\ c = Head(channel)
    /\ cmd[c].op = op
    /\ channel' = Tail(channel)
    /\ served' = served \cup {c}
    /\ UNCHANGED task
    /\ UNCHANGED clientVars

\* The notify_read calls parked on the keys of ks, and obligations.remove.
Parked(ks) == UNION {obligations[k] : k \in ks}

\* Mutant of Discharge: the whole table is cleared.
Discharge_ClearsAll(ks) == [k \in Keys |-> {}]

Discharge(ks) ==
    [k \in Keys |-> IF k \in ks THEN {} ELSE obligations[k]]

\* Every call of woken is sent w, call c is sent r.  "let _ = s.send(..)":
\* nothing reaches a call whose receiver is gone or that never had one.
Send(woken, w, c, r) ==
    [x \in Calls |-> IF status[x] # "awaiting" THEN reply[x]
                     ELSE IF x \in woken THEN w
                     ELSE IF x = c THEN r ELSE reply[x]]

\* Mutant of PairKeys: only the first pair of the batch is looked at.
PairKeys_FirstOnly(ps) == {ps[i][1] : i \in DOMAIN ps \cap {1}}

PairKeys(ps) == {ps[i][1] : i \in DOMAIN ps}
SeqKeys(ks) == {ks[i] : i \in DOMAIN ks}

\* Mutant of HandleWrite: the waiters are answered without checking that the
\* insert succeeded.
HandleWrite_WakesOnFailure(c) ==
    /\ Receives(c, "Write")
    /\ obligations' = Discharge({cmd[c].key})
    /\ \/ /\ db' = Insert(db, cmd[c].key, cmd[c].value)
          /\ reply' = Send(Parked({cmd[c].key}), Ok(cmd[c].value), c, Ok(NoValue))
       \/ /\ DbMayFail
          /\ reply' = Send(Parked({cmd[c].key}), Ok(cmd[c].value), c, Err)
          /\ UNCHANGED db
    /\ UNCHANGED unreadable

HandleWrite(c) ==
    /\ Receives(c, "Write")
    /\ \/ /\ db' = Insert(db, cmd[c].key, cmd[c].value)
          /\ obligations' = Discharge({cmd[c].key})
          /\ reply' = Send(Parked({cmd[c].key}), Ok(cmd[c].value), c, Ok(NoValue))
       \/ /\ DbMayFail
          /\ reply' = Send({}, Err, c, Err)
          /\ UNCHANGED <<db, obligations>>
    /\ UNCHANGED unreadable

\* The waiters of every written key are answered Ok(None).
HandleWriteAll(c) ==
    /\ Receives(c, "WriteAll")
    /\ \/ /\ db' = MultiInsert(db, cmd[c].pairs)
          /\ obligations' = Discharge(PairKeys(cmd[c].pairs))
          /\ reply' = Send(Parked(PairKeys(cmd[c].pairs)), Ok(NoValue),
                           c, Ok(NoValue))
       \/ /\ DbMayFail
          /\ reply' = Send({}, Err, c, Err)
          /\ UNCHANGED <<db, obligations>>
    /\ UNCHANGED unreadable

\* The outcome of keyed_db.remove is ignored: waiters are answered either way.
HandleDelete(c) ==
    /\ Receives(c, "Delete")
    /\ \/ db' = Remove(db, cmd[c].key)
       \/ DbMayFail /\ UNCHANGED db
    /\ obligations' = Discharge({cmd[c].key})
    /\ reply' = Send(Parked({cmd[c].key}), Ok(NoValue), c, Pending)
    /\ UNCHANGED unreadable

HandleDeleteAll(c) ==
    /\ Receives(c, "DeleteAll")
    /\ \/ /\ db' = MultiRemove(db, cmd[c].keys)
          /\ obligations' = Discharge(SeqKeys(cmd[c].keys))
          /\ reply' = Send(Parked(SeqKeys(cmd[c].keys)), Ok(NoValue),
                           c, Ok(NoValue))
       \/ /\ DbMayFail
          /\ reply' = Send({}, Err, c, Err)
          /\ UNCHANGED <<db, obligations>>
    /\ UNCHANGED unreadable

HandleRead(c) ==
    /\ Receives(c, "Read")
    /\ \/ reply' = Send({}, Err, c, Ok(Get(db, cmd[c].key)))
       \/ DbMayFail /\ reply' = Send({}, Err, c, Err)
    /\ UNCHANGED <<db, obligations, unreadable>>

HandleReadRawBytes(c) ==
    /\ Receives(c, "ReadRawBytes")
    /\ \/ reply' = Send({}, Err, c, Ok(GetRawBytes(db, cmd[c].key)))
       \/ DbMayFail /\ reply' = Send({}, Err, c, Err)
    /\ UNCHANGED <<db, obligations, unreadable>>

HandleReadAll(c) ==
    /\ Receives(c, "ReadAll")
    /\ \/ reply' = Send({}, Err, c, Ok([vec |-> MultiGet(db, cmd[c].keys)]))
       \/ DbMayFail /\ reply' = Send({}, Err, c, Err)
    /\ UNCHANGED <<db, obligations, unreadable>>

\* Only Ok(Some(_)) is answered: a missing key parks the sender, and so does
\* a get that failed, whatever the key holds.
HandleNotifyRead(c) ==
    /\ Receives(c, "NotifyRead")
    /\ LET k == cmd[c].key
           Park == obligations' = [obligations EXCEPT ![k] = @ \cup {c}]
       IN \/ /\ Get(db, k) # NoValue
             /\ reply' = Send({}, Err, c, Ok(Get(db, k)))
             /\ UNCHANGED <<obligations, unreadable>>
          \/ /\ Get(db, k) = NoValue
             /\ Park
             /\ UNCHANGED <<reply, unreadable>>
          \/ /\ DbMayFail
             /\ Park
             /\ unreadable' = unreadable \cup {c}
             /\ UNCHANGED reply
    /\ UNCHANGED db

\* The answer has no error case: a RocksDB iterator that fails, or an entry
\* that does not decode, ends the iteration, so the answer is the part of the
\* entries before it (any part, the order of keys being abstracted here).
HandleIter(c) ==
    /\ Receives(c, "Iter")
    /\ \E part \in SUBSET Entries(db) :
         /\ part = Entries(db) \/ DbMayFail
         /\ reply' = Send({}, Err, c, Ok([map |-> part \cap cmd[c].pred]))
    /\ UNCHANGED <<db, obligations, unreadable>>

\* Mutant of DropSenders: the oneshots are forgotten and never close.
DropSenders_Leaked ==
    /\ channel' = <<>>
    /\ obligations' = [k \in Keys |-> {}]
    /\ UNCHANGED reply

\* Dropping the receiver drops the commands in the channel, dropping the
\* obligations drops theirs: every oneshot that was not answered closes.
DropSenders ==
    /\ channel' = <<>>
    /\ obligations' = [k \in Keys |-> {}]
    /\ reply' = [c \in Calls |-> IF status[c] = "awaiting" /\ reply[c] = Pending
                                 THEN Closed ELSE reply[c]]

\* Does the command reach DBMap::cf?  An empty batch does not.
LooksUpCf(cm) ==
    /\ cm.op = "WriteAll" => cm.pairs # <<>>
    /\ cm.op = "DeleteAll" => cm.keys # <<>>

\* The column family is gone (DBMap::cf: expect), or the predicate of Iter
\* panics: the task unwinds before it has changed anything.
HandlerPanics(c) ==
    /\ TaskMayPanic
    /\ task = "running"
    /\ channel # <<>>
    /\ c = Head(channel)
    /\ LooksUpCf(cmd[c])
    /\ task' = "panicked"
    /\ DropSenders
    /\ UNCHANGED <<db, served, unreadable>>
    /\ UNCHANGED clientVars

\* Mutant of Stop: the task ends with the last handle, drained or not.
Stop_Undrained ==
    /\ task = "running"
    /\ ~handles
    /\ task' = "stopped"
    /\ DropSenders
    /\ UNCHANGED <<db, served, unreadable>>
    /\ UNCHANGED clientVars

\* rx.recv() yields None: no handle is left and the channel is drained.
Stop ==
    /\ task = "running"
    /\ ~handles
    /\ channel = <<>>
    /\ task' = "stopped"
    /\ DropSenders
    /\ UNCHANGED <<db, served, unreadable>>
    /\ UNCHANGED clientVars

Handle(c) ==
    \/ HandleWrite(c) \/ HandleWriteAll(c)
    \/ HandleDelete(c) \/ HandleDeleteAll(c)
    \/ HandleRead(c) \/ HandleReadRawBytes(c) \/ HandleReadAll(c)
    \/ HandleNotifyRead(c) \/ HandleIter(c)

TaskStep == Stop \/ \E c \in Calls : Handle(c)

Next ==
    \/ \E c \in Calls : \/ Begin(c) \/ Enqueue(c) \/ SendFails(c)
                        \/ Receive(c) \/ Cancel(c)
                        \/ Handle(c) \/ HandlerPanics(c)
    \/ DropHandles
    \/ Stop

\* The runtime keeps polling a task that is ready; clients choose freely when
\* to call, when to give up and when to drop the handle.
Fairness ==
    /\ WF_vars(TaskStep)
    /\ \A c \in Calls : WF_vars(Enqueue(c) \/ SendFails(c)) /\ WF_vars(Receive(c))

Spec == Init /\ [][Next]_vars

FairSpec == Spec /\ Fairness
-----------------------------------------------------------------------------
(* Properties.                                                               *)

\* What a successful answer to a command can hold: the T of its StoreResult<T>.
AnswerTo(cm) ==
    IF cm.op \in {"Read", "NotifyRead"} THEN Values \cup {NoValue}
    ELSE IF cm.op = "ReadRawBytes" THEN [bincode : Values] \cup {NoValue}
    ELSE IF cm.op = "ReadAll" THEN [vec : [DOMAIN cm.keys -> Values \cup {NoValue}]]
    ELSE IF cm.op = "Iter" THEN [map : SUBSET (Keys \X Values)]
    ELSE {NoValue}

\* Type correctness: every variable keeps its type; in particular an answer
\* always has the type of the method that receives it (lib.rs:39-52).
TypeOK ==
    /\ db \in Contents
    /\ channel \in Seq(Calls)
    /\ Len(channel) \leq Capacity
    /\ obligations \in [Keys -> SUBSET Calls]
    /\ task \in {"running", "stopped", "panicked"}
    /\ handles \in BOOLEAN
    /\ status \in [Calls -> Statuses]
    /\ cmd \in [Calls -> Commands]
    /\ \A c \in Calls :
         \/ reply[c] \in {Pending, Closed, Err}
         \/ reply[c].is = "ok" /\ reply[c].val \in AnswerTo(cmd[c])
    /\ before \in [Calls -> SUBSET Calls]
    /\ served \subseteq Calls
    /\ unreadable \subseteq Calls

Queued(c) == \E i \in DOMAIN channel : channel[i] = c

\* A oneshot sender is in one place: each call's command is in the channel at
\* most once, not once it was handled, and obligations hold only notify_read
\* calls that were handled, under their own key, never answered.
SendersInOnePlace ==
    /\ \A i, j \in DOMAIN channel : channel[i] = channel[j] => i = j
    /\ \A i \in DOMAIN channel : channel[i] \notin served
    /\ \A k \in Keys : \A c \in obligations[k] :
         /\ c \in served
         /\ cmd[c].op = "NotifyRead"
         /\ cmd[c].key = k
         /\ reply[c] = Pending

\* No call is orphaned: a call that awaits an answer it has not got yet still
\* has its sender with the task, in the channel or, for notify_read, among the
\* obligations of its key, and the task is there to use it.  (An orphaned call
\* would await a oneshot nobody will ever send on: lib.rs:189-191, 292-294.)
NoOrphanedCall ==
    \A c \in Calls : status[c] = "awaiting" /\ reply[c] = Pending =>
        /\ task = "running"
        /\ \/ Queued(c)
           \/ cmd[c].op = "NotifyRead" /\ c \in obligations[cmd[c].key]

\* No lost wake-up: a notify_read stays parked only while its key is missing
\* (lib.rs:75-79, 89-97, 130-139).  The one exception is a call whose get
\* returned an error when it was parked.
NoLostWakeup ==
    \A k \in Keys : \A c \in obligations[k] \ unreadable : db[k] = NoValue

\* Real-time order: the task handles a call only after every call that had
\* returned when that one began, fire-and-forget writes included
\* (lib.rs:170-178, 217-221: they return when the command is queued).
ServedInRealTimeOrder ==
    [][\A c \in served' \ served : before[c] \subseteq served]_vars

\* The same as a state predicate: what is still ahead of a queued or sending
\* call.
RealTimeOrder ==
    task = "running" =>
        /\ \A i \in DOMAIN channel : \A w \in before[channel[i]] :
             w \in served \/ \E j \in DOMAIN channel : j < i /\ channel[j] = w
        /\ \A c \in Calls : status[c] = "returned" => c \in served \/ Queued(c)
        /\ \A c \in Calls : status[c] = "sending" =>
             \A w \in before[c] : status[w] = "returned"

\* How far a call got agrees with where its command is: a command exists only
\* once it was sent, an answer only once the command was handled, and a handle
\* outlives the calls that borrow it.
Lifecycle ==
    /\ \A c \in Calls : status[c] \in {"idle", "sending"} =>
         ~Queued(c) /\ c \notin served /\ reply[c] = Pending
    /\ \A c \in Calls : status[c] = "awaiting" => ~FireAndForget(cmd[c])
    /\ \A c \in Calls : task = "running" /\ reply[c] # Pending => c \in served
    /\ ~handles => \A c \in Calls : ~InProgress(c)
    /\ task = "stopped" => ~handles
    /\ task # "running" => channel = <<>>

\* A task that ends because the last handle is gone has first handled every
\* command whose method returned, the fire-and-forget ones included.
DrainedBeforeStop ==
    task = "stopped" => \A c \in Calls : status[c] = "returned" => c \in served

\* The inductive invariant: the conjuncts support one another.
IInv ==
    /\ TypeOK
    /\ Lifecycle
    /\ SendersInOnePlace
    /\ NoOrphanedCall
    /\ NoLostWakeup
    /\ RealTimeOrder
    /\ DrainedBeforeStop

\* Every call that needs no other call to make progress ends: it returns, or
\* panics because the task died (lib.rs:170-312).  notify_read is exempt: it
\* may wait for a write that never comes.
CallsEnd ==
    \A c \in Calls :
        cmd[c].op # "NotifyRead" /\ InProgress(c) ~> ~InProgress(c)

\* The calls that end every wait on key k when they succeed.
Wakes(c, k) ==
    CASE cmd[c].op \in {"Write", "Delete"} -> cmd[c].key = k
      [] cmd[c].op = "WriteAll" -> \E i \in DOMAIN cmd[c].pairs : cmd[c].pairs[i][1] = k
      [] cmd[c].op = "DeleteAll" -> \E i \in DOMAIN cmd[c].keys : cmd[c].keys[i] = k
      [] OTHER -> FALSE

\* A parked notify_read ends once a write or a removal of its key has been
\* queued behind it, if the database does not fail (lib.rs:72-121).
WaitersWakeUp ==
    \A c, w \in Calls :
        (/\ status[c] = "awaiting"
         /\ Queued(w)
         /\ \E k \in Keys : c \in obligations[k] /\ Wakes(w, k))
        ~> status[c] # "awaiting"

\* What the read_notify test says of notify_read (store_tests.rs:95-96): after
\* a write of its key it returns the result; so Ok(None) is never the answer
\* while the key has a value.
NotifyReadReturnsTheResult ==
    [][\A c \in Calls :
         /\ cmd[c].op = "NotifyRead"
         /\ reply[c] = Pending
         /\ reply'[c].is = "ok"
         => reply'[c].val = db'[cmd[c].key]]_vars
=============================================================================
