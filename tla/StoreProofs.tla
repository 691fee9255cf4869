----------------------------- MODULE StoreProofs -----------------------------
(***************************************************************************)
(* Safety of the Store actor for every set of keys, values and calls, every   *)
(* set of commands and every channel capacity: IInv of module Store is an     *)
(* inductive invariant.  Eight of the nine handlers answer the calls parked   *)
(* on some set of keys and the caller; what they have in common is proved     *)
(* once, in lemma AnswerKeepsIInv.                                            *)
(***************************************************************************)
EXTENDS StoreRefinement, TLAPS

\* What the fields of a command are, from its kind (the enum StoreCommand).
LEMMA CommandFields ==
    ASSUME NEW cm \in StoreCommand
    PROVE  /\ cm.op \in {"Write", "Delete", "Read", "ReadRawBytes", "NotifyRead"}
              => cm.key \in Keys
           /\ cm.op = "Write" => cm.value \in Values /\ cm.ack \in BOOLEAN
           /\ cm.op = "WriteAll" => cm.pairs \in Seq(Keys \X Values)
           /\ cm.op \in {"DeleteAll", "ReadAll"} => cm.keys \in Seq(Keys)
           /\ cm.op = "Iter" => cm.pred \in SUBSET (Keys \X Values)
  BY DEF StoreCommand

\* The map operations keep the type of the contents, and only a key of the
\* batch can change (DBMap::multi_insert).
LEMMA MultiInsertContents ==
    ASSUME NEW m \in Contents, NEW ps \in Seq(Keys \X Values)
    PROVE  /\ MultiInsert(m, ps) \in Contents
           /\ PairKeys(ps) \subseteq Keys
           /\ \A k \in Keys \ PairKeys(ps) : MultiInsert(m, ps)[k] = m[k]
  <1>1. ASSUME NEW k \in Keys, \E i \in DOMAIN ps : Decides(ps, i, k)
        PROVE  ps[CHOOSE i \in DOMAIN ps : Decides(ps, i, k)][2] \in Values
    <2>1. PICK j \in DOMAIN ps : j = CHOOSE i \in DOMAIN ps : Decides(ps, i, k)
      BY <1>1
    <2>2. ps[j] \in Keys \X Values
      OBVIOUS
    <2> QED BY <2>1, <2>2
  <1>2. MultiInsert(m, ps) \in Contents
    BY <1>1 DEF MultiInsert, Contents
  <1>3. PairKeys(ps) \subseteq Keys
    <2>1. \A i \in DOMAIN ps : ps[i] \in Keys \X Values
      OBVIOUS
    <2> QED BY <2>1 DEF PairKeys
  <1>4. \A k \in Keys \ PairKeys(ps) : MultiInsert(m, ps)[k] = m[k]
    BY DEF MultiInsert, PairKeys, Decides
  <1> QED BY <1>2, <1>3, <1>4

\* The same for batched removal (DBMap::multi_remove).
LEMMA MultiRemoveContents ==
    ASSUME NEW m \in Contents, NEW ks \in Seq(Keys)
    PROVE  /\ MultiRemove(m, ks) \in Contents
           /\ SeqKeys(ks) \subseteq Keys
           /\ \A k \in Keys \ SeqKeys(ks) : MultiRemove(m, ks)[k] = m[k]
  BY DEF MultiRemove, SeqKeys, Contents

\* The command a handler takes is the head of the channel; the others move up.
LEMMA HeadTaken ==
    ASSUME TypeOK, SendersInOnePlace, NEW c \in Calls, NEW op, Receives(c, op)
    PROVE  /\ channel' \in Seq(Calls)
           /\ Len(channel') \leq Capacity
           /\ \A i \in DOMAIN channel' : /\ i + 1 \in DOMAIN channel
                                         /\ channel'[i] = channel[i + 1]
           /\ \A i \in DOMAIN channel : i # 1 => /\ i - 1 \in DOMAIN channel'
                                                 /\ channel'[i - 1] = channel[i]
           /\ 1 \in DOMAIN channel /\ channel[1] = c
           /\ c \notin served
           /\ \A x \in Calls : Queued(x)' <=> Queued(x) /\ x # c
  <1> USE DEF TypeOK
  <1>1. /\ channel \in Seq(Calls) /\ channel # <<>>
        /\ channel' = Tail(channel) /\ c = Head(channel)
    BY DEF Receives
  <1>2. /\ channel' \in Seq(Calls) /\ Len(channel') = Len(channel) - 1
        /\ Len(channel) \in Nat /\ Len(channel) > 0
        /\ DOMAIN channel = 1..Len(channel)
        /\ DOMAIN channel' = 1..Len(channel')
        /\ \A i \in 1..Len(channel') : channel'[i] = channel[i + 1]
        /\ channel[1] = c
    BY <1>1
  <1>3. /\ \A i \in DOMAIN channel' : /\ i + 1 \in DOMAIN channel
                                      /\ channel'[i] = channel[i + 1]
        /\ \A i \in DOMAIN channel : i # 1 => /\ i - 1 \in DOMAIN channel'
                                              /\ channel'[i - 1] = channel[i]
        /\ 1 \in DOMAIN channel
    BY <1>2
  <1>4. c \notin served
    BY <1>2, <1>3 DEF SendersInOnePlace
  <1>5. ASSUME NEW x \in Calls
        PROVE  Queued(x)' <=> Queued(x) /\ x # c
    <2>1. ASSUME NEW i \in DOMAIN channel', channel'[i] = x
          PROVE  Queued(x) /\ x # c
      <3>1. i + 1 \in DOMAIN channel /\ channel[i + 1] = x /\ i + 1 # 1
        BY <1>2, <1>3, <2>1
      <3> QED BY <3>1, <1>2, <1>3 DEF Queued, SendersInOnePlace
    <2>2. ASSUME NEW i \in DOMAIN channel, channel[i] = x, x # c
          PROVE  \E j \in DOMAIN channel' : channel'[j] = x
      BY <1>2, <1>3, <2>2
    <2> QED BY <2>1, <2>2 DEF Queued
  <1> QED BY <1>2, <1>3, <1>4, <1>5, CapacityAssumption

\* What a handler never disturbs: the order of the commands that are left.
LEMMA ReceiveKeepsOrder ==
    ASSUME IInv, NEW c \in Calls, NEW op, Receives(c, op)
    PROVE  /\ RealTimeOrder'
           /\ DrainedBeforeStop'
           /\ \A i, j \in DOMAIN channel' : channel'[i] = channel'[j] => i = j
           /\ \A i \in DOMAIN channel' : channel'[i] \notin served'
           /\ before[c] \subseteq served
  <1>1. TypeOK /\ SendersInOnePlace /\ RealTimeOrder /\ task = "running"
    BY DEF IInv, Receives
  <1>2. /\ UNCHANGED <<task, status, before>> /\ served' = served \cup {c}
    BY DEF Receives, clientVars
  <1>3. /\ \A i \in DOMAIN channel' : /\ i + 1 \in DOMAIN channel
                                      /\ channel'[i] = channel[i + 1]
        /\ \A i \in DOMAIN channel : i # 1 => /\ i - 1 \in DOMAIN channel'
                                              /\ channel'[i - 1] = channel[i]
        /\ 1 \in DOMAIN channel /\ channel[1] = c
        /\ \A x \in Calls : Queued(x)' <=> Queued(x) /\ x # c
    BY <1>1, HeadTaken
  <1>4. /\ channel \in Seq(Calls) /\ channel' \in Seq(Calls)
        /\ DOMAIN channel \subseteq Nat \ {0} /\ DOMAIN channel' \subseteq Nat \ {0}
    BY <1>1, HeadTaken DEF TypeOK
  <1>5. \A i, j \in DOMAIN channel' : channel'[i] = channel'[j] => i = j
    BY <1>1, <1>3, <1>4 DEF SendersInOnePlace
  <1>6. \A i \in DOMAIN channel' : channel'[i] \notin served'
    <2> SUFFICES ASSUME NEW i \in DOMAIN channel' PROVE channel'[i] \notin served'
      OBVIOUS
    <2>1. channel'[i] = channel[i + 1] /\ i + 1 # 1 /\ i + 1 \in DOMAIN channel
      BY <1>3, <1>4
    <2>2. channel[i + 1] \notin served /\ channel[i + 1] # c
      BY <2>1, <1>1, <1>3 DEF SendersInOnePlace
    <2> QED BY <2>1, <2>2, <1>2
  <1>7. ASSUME NEW i \in DOMAIN channel', NEW w \in before'[channel'[i]]
        PROVE  w \in served' \/ \E j \in DOMAIN channel' : j < i /\ channel'[j] = w
    <2>1. i + 1 \in DOMAIN channel /\ w \in before[channel[i + 1]]
      BY <1>2, <1>3, <1>7
    <2>2. w \in served \/ \E j \in DOMAIN channel : j < i + 1 /\ channel[j] = w
      BY <2>1, <1>1 DEF RealTimeOrder
    <2>3. ASSUME NEW j \in DOMAIN channel, j < i + 1, channel[j] = w, j # 1
          PROVE  \E l \in DOMAIN channel' : l < i /\ channel'[l] = w
      <3>1. j - 1 \in DOMAIN channel' /\ channel'[j - 1] = w
        BY <2>3, <1>3
      <3>2. j \in Nat /\ i \in Nat /\ j - 1 < i
        BY <2>3, <1>4
      <3> QED BY <3>1, <3>2
    <2> QED BY <2>2, <2>3, <1>2, <1>3
  <1>8. ASSUME NEW x \in Calls, status'[x] = "returned"
        PROVE  x \in served' \/ Queued(x)'
    BY <1>1, <1>2, <1>3, <1>8 DEF RealTimeOrder
  <1>9. ASSUME NEW x \in Calls, status'[x] = "sending", NEW w \in before'[x]
        PROVE  status'[w] = "returned"
    BY <1>1, <1>2, <1>9 DEF RealTimeOrder
  <1>10. RealTimeOrder'
    BY <1>7, <1>8, <1>9 DEF RealTimeOrder
  <1>11. DrainedBeforeStop'
    BY <1>1, <1>2 DEF DrainedBeforeStop
  <1>12. before[c] \subseteq served
    BY <1>1, <1>3, <1>4 DEF RealTimeOrder
  <1> QED BY <1>5, <1>6, <1>10, <1>11, <1>12

\* A well-formed answer to a command.
GoodReply(r, cm) == r \in {Err} \/ (r.is = "ok" /\ r.val \in AnswerTo(cm))

\* A handler that changes the map only at the keys of ks (elsewhere a key can
\* only disappear), answers every call parked on ks with Ok(v) and answers the
\* caller keeps the invariant.
LEMMA AnswerKeepsIInv ==
    ASSUME IInv, NEW c \in Calls, NEW op, Receives(c, op), UNCHANGED unreadable,
           NEW ks \in SUBSET Keys, NEW v \in Values \cup {NoValue}, NEW r,
           db' \in Contents,
           \A k \in Keys \ ks : db'[k] = db[k] \/ db'[k] = NoValue,
           obligations' = Discharge(ks),
           reply' = Send(Parked(ks), Ok(v), c, r),
           FireAndForget(cmd[c]) \/ GoodReply(r, cmd[c])
    PROVE  IInv'
  <1>1. /\ TypeOK /\ Lifecycle /\ SendersInOnePlace /\ NoOrphanedCall
        /\ NoLostWakeup /\ task = "running"
    BY DEF IInv, Receives
  <1>2. /\ UNCHANGED <<task, handles, status, cmd, before, unreadable>>
        /\ served' = served \cup {c}
    BY DEF Receives, clientVars
  <1>3. /\ channel' \in Seq(Calls) /\ Len(channel') \leq Capacity
        /\ c \notin served
        /\ \A x \in Calls : Queued(x)' <=> Queued(x) /\ x # c
    BY <1>1, HeadTaken
  <1>4. /\ \A x \in Parked(ks) : /\ x \in Calls /\ x \in served
                                 /\ cmd[x].op = "NotifyRead"
        /\ c \notin Parked(ks)
    BY <1>1, <1>3 DEF Parked, SendersInOnePlace, TypeOK
  <1>5. ASSUME NEW x \in Calls
        PROVE  \/ reply'[x] = reply[x]
               \/ status[x] = "awaiting" /\ x \in Parked(ks) /\ reply'[x] = Ok(v)
               \/ status[x] = "awaiting" /\ x = c /\ reply'[x] = r
    BY DEF Send
  <1>6. status[c] = "awaiting" => GoodReply(r, cmd[c])
    BY <1>1 DEF Lifecycle
  <1>7. \A x \in Calls : GoodReply(Ok(v), cmd[x]) \/ cmd[x].op # "NotifyRead"
    BY DEF GoodReply, Ok, AnswerTo
  <1>8. ASSUME NEW q, NEW cm, GoodReply(q, cm) PROVE q # Pending
    BY <1>8 DEF GoodReply, Pending, Err
  <1>9. TypeOK'
    <2>1. ASSUME NEW x \in Calls
          PROVE  \/ reply'[x] \in {Pending, Closed, Err}
                 \/ reply'[x].is = "ok" /\ reply'[x].val \in AnswerTo(cmd[x])
      <3>1. CASE reply'[x] = reply[x]
        BY <3>1, <1>1 DEF TypeOK
      <3>2. CASE x \in Parked(ks) /\ reply'[x] = Ok(v)
        BY <3>2, <1>4, <1>7 DEF GoodReply
      <3>3. CASE status[x] = "awaiting" /\ x = c /\ reply'[x] = r
        BY <3>3, <1>6 DEF GoodReply
      <3> QED BY <3>1, <3>2, <3>3, <1>5
    <2>2. obligations' \in [Keys -> SUBSET Calls]
      BY <1>1 DEF TypeOK, Discharge
    <2>3. served' \subseteq Calls
      BY <1>1, <1>2 DEF TypeOK
    <2> QED BY <1>1, <1>2, <1>3, <2>1, <2>2, <2>3 DEF TypeOK
  <1>10. Lifecycle'
    <2>1. ASSUME NEW x \in Calls, status[x] \in {"idle", "sending"}
          PROVE  ~Queued(x)' /\ x \notin served' /\ reply'[x] = Pending
      <3>1. Queued(c)
        BY <1>1, HeadTaken DEF Queued
      <3>2. ~Queued(x) /\ x \notin served /\ reply[x] = Pending
        BY <2>1, <1>1 DEF Lifecycle
      <3> QED BY <3>1, <3>2, <2>1, <1>2, <1>3, <1>5
    <2>2. ASSUME NEW x \in Calls, reply'[x] # Pending
          PROVE  x \in served'
      BY <2>2, <1>1, <1>2, <1>4, <1>5 DEF Lifecycle
    <2> QED BY <1>1, <1>2, <2>1, <2>2 DEF Lifecycle, InProgress
  <1>11. SendersInOnePlace'
    <2>1. ASSUME NEW k \in Keys, NEW x \in obligations'[k]
          PROVE  /\ x \in served' /\ cmd'[x].op = "NotifyRead" /\ cmd'[x].key = k
                 /\ reply'[x] = Pending
      <3>1. x \in obligations[k] /\ k \notin ks
        BY <2>1, <1>1 DEF Discharge
      <3>2. /\ x \in Calls /\ x \in served /\ cmd[x].op = "NotifyRead"
            /\ cmd[x].key = k /\ reply[x] = Pending
        BY <3>1, <1>1 DEF SendersInOnePlace, TypeOK
      <3>3. x \notin Parked(ks)
        BY <3>1, <3>2, <1>1 DEF Parked, SendersInOnePlace
      <3> QED BY <3>2, <3>3, <1>2, <1>3, <1>5
    <2> QED BY <2>1, ReceiveKeepsOrder DEF SendersInOnePlace
  <1>12. NoOrphanedCall'
    <2> SUFFICES ASSUME NEW x \in Calls, status[x] = "awaiting", reply'[x] = Pending
                 PROVE  \/ Queued(x)'
                        \/ cmd[x].op = "NotifyRead" /\ x \in obligations'[cmd[x].key]
      BY <1>1, <1>2 DEF NoOrphanedCall
    <2>1. x # c
      <3>1. x = c => reply'[x] = r
        BY <1>4 DEF Send
      <3> QED BY <3>1, <1>6, <1>8
    <2>2. x \notin Parked(ks)
      BY DEF Send, Ok, Pending
    <2>3. reply[x] = Pending
      BY <2>1, <2>2, <1>5
    <2>4. Queued(x) \/ (cmd[x].op = "NotifyRead" /\ x \in obligations[cmd[x].key])
      BY <2>3, <1>1 DEF NoOrphanedCall
    <2>5. cmd[x].op = "NotifyRead" => cmd[x].key \in Keys
      BY <1>1, CommandFields, CommandsAssumption DEF TypeOK
    <2>6. ASSUME cmd[x].op = "NotifyRead", x \in obligations[cmd[x].key]
          PROVE  x \in obligations'[cmd[x].key]
      BY <2>2, <2>5, <2>6 DEF Parked, Discharge
    <2> QED BY <2>1, <2>4, <2>6, <1>3
  <1>13. NoLostWakeup'
    <2> SUFFICES ASSUME NEW k \in Keys, NEW x \in obligations'[k] \ unreadable
                 PROVE  db'[k] = NoValue
      BY <1>2 DEF NoLostWakeup
    <2>1. k \notin ks /\ x \in obligations[k]
      BY DEF Discharge
    <2>2. db[k] = NoValue
      BY <2>1, <1>1 DEF NoLostWakeup
    <2> QED BY <2>1, <2>2
  <1> QED BY <1>9, <1>10, <1>11, <1>12, <1>13, ReceiveKeepsOrder DEF IInv

\* A handler that answers only its caller and leaves the map alone.
LEMMA ReplyKeepsIInv ==
    ASSUME IInv, NEW c \in Calls, NEW op, Receives(c, op), NEW r,
           UNCHANGED <<db, obligations, unreadable>>,
           reply' = Send({}, Err, c, r),
           GoodReply(r, cmd[c])
    PROVE  IInv'
  <1>1. TypeOK
    BY DEF IInv
  <1>2. obligations' = Discharge({})
    BY <1>1 DEF Discharge, TypeOK
  <1>3. reply' = Send(Parked({}), Ok(NoValue), c, r)
    BY DEF Send, Parked
  <1>4. db' \in Contents /\ db' = db
    BY <1>1 DEF TypeOK
  <1> QED BY <1>2, <1>3, <1>4, AnswerKeepsIInv

\* Parking the sender of a notify_read whose key is missing or unreadable.
LEMMA ParkKeepsIInv ==
    ASSUME IInv, NEW c \in Calls, Receives(c, "NotifyRead"),
           UNCHANGED <<db, reply>>,
           obligations' = [obligations EXCEPT ![cmd[c].key] = @ \cup {c}],
           \/ db[cmd[c].key] = NoValue /\ UNCHANGED unreadable
           \/ unreadable' = unreadable \cup {c}
    PROVE  IInv'
  <1>1. /\ TypeOK /\ Lifecycle /\ SendersInOnePlace /\ NoOrphanedCall
        /\ NoLostWakeup /\ task = "running" /\ cmd[c].op = "NotifyRead"
    BY DEF IInv, Receives
  <1>2. /\ UNCHANGED <<task, handles, status, cmd, before>>
        /\ served' = served \cup {c}
    BY DEF Receives, clientVars
  <1>3. /\ channel' \in Seq(Calls) /\ Len(channel') \leq Capacity
        /\ c \notin served
        /\ Queued(c)
        /\ \A x \in Calls : Queued(x)' <=> Queued(x) /\ x # c
    BY <1>1, HeadTaken DEF Queued
  <1>4. cmd[c].key \in Keys
    BY <1>1, CommandFields, CommandsAssumption DEF TypeOK
  <1>5. reply[c] = Pending
    BY <1>1, <1>3 DEF Lifecycle
  <1>6. \A k \in Keys : obligations'[k] = IF k = cmd[c].key
                                          THEN obligations[k] \cup {c}
                                          ELSE obligations[k]
    BY <1>1, <1>4 DEF TypeOK
  <1>7. TypeOK'
    <2>1. obligations' \in [Keys -> SUBSET Calls]
      BY <1>1, <1>4 DEF TypeOK
    <2>2. served' \subseteq Calls /\ unreadable' \subseteq Calls
      BY <1>1, <1>2 DEF TypeOK
    <2> QED BY <1>1, <1>2, <1>3, <2>1, <2>2 DEF TypeOK
  <1>8. Lifecycle'
    BY <1>1, <1>2, <1>3 DEF Lifecycle, InProgress
  <1>9. SendersInOnePlace'
    <2>1. ASSUME NEW k \in Keys, NEW x \in obligations'[k]
          PROVE  /\ x \in served' /\ cmd'[x].op = "NotifyRead" /\ cmd'[x].key = k
                 /\ reply'[x] = Pending
      BY <2>1, <1>1, <1>2, <1>5, <1>6 DEF SendersInOnePlace
    <2> QED BY <2>1, ReceiveKeepsOrder DEF SendersInOnePlace
  <1>10. NoOrphanedCall'
    <2> SUFFICES ASSUME NEW x \in Calls, status[x] = "awaiting", reply[x] = Pending
                 PROVE  \/ Queued(x)'
                        \/ cmd[x].op = "NotifyRead" /\ x \in obligations'[cmd[x].key]
      BY <1>1, <1>2 DEF NoOrphanedCall
    <2>1. Queued(x) \/ (cmd[x].op = "NotifyRead" /\ x \in obligations[cmd[x].key])
      BY <1>1 DEF NoOrphanedCall
    <2>2. cmd[x].op = "NotifyRead" => cmd[x].key \in Keys
      BY <1>1, CommandFields, CommandsAssumption DEF TypeOK
    <2>3. CASE x = c
      BY <2>3, <1>1, <1>4, <1>6
    <2>4. CASE x # c /\ Queued(x)
      BY <2>4, <1>3
    <2>5. CASE cmd[x].op = "NotifyRead" /\ x \in obligations[cmd[x].key]
      BY <2>5, <2>2, <1>6
    <2> QED BY <2>1, <2>3, <2>4, <2>5
  <1>11. NoLostWakeup'
    BY <1>1, <1>6 DEF NoLostWakeup
  <1> QED BY <1>7, <1>8, <1>9, <1>10, <1>11, ReceiveKeepsOrder DEF IInv

\* Every handler of the task keeps the invariant.
LEMMA HandleKeepsIInv ==
    ASSUME IInv, NEW c \in Calls, Handle(c)
    PROVE  IInv'
  <1>1. TypeOK /\ db \in Contents /\ cmd[c] \in StoreCommand
    BY CommandsAssumption DEF IInv, TypeOK
  <1>2. GoodReply(Err, cmd[c])
    BY DEF GoodReply
  <1>3. ASSUME cmd[c].op \notin {"Read", "NotifyRead", "ReadRawBytes", "ReadAll", "Iter"}
        PROVE  GoodReply(Ok(NoValue), cmd[c])
    BY <1>3 DEF GoodReply, Ok, AnswerTo
  <1>4. ASSUME UNCHANGED <<db, obligations, unreadable>>, NEW op, Receives(c, op),
               reply' = Send({}, Err, c, Err)
        PROVE  IInv'
    BY <1>2, <1>4, ReplyKeepsIInv
  <1>5. CASE HandleWrite(c)
    <2> DEFINE k == cmd[c].key
    <2>1. /\ Receives(c, "Write") /\ UNCHANGED unreadable /\ cmd[c].op = "Write"
      BY <1>5 DEF HandleWrite, Receives
    <2>2. k \in Keys /\ cmd[c].value \in Values
      BY <2>1, <1>1, CommandFields
    <2>3. CASE /\ db' = Insert(db, k, cmd[c].value)
               /\ obligations' = Discharge({k})
               /\ reply' = Send(Parked({k}), Ok(cmd[c].value), c, Ok(NoValue))
      <3>1. db' \in Contents /\ \A j \in Keys \ {k} : db'[j] = db[j]
        BY <2>2, <2>3, <1>1 DEF Insert, Contents
      <3>2. GoodReply(Ok(NoValue), cmd[c])
        BY <1>3, <2>1
      <3> QED BY <2>1, <2>2, <2>3, <3>1, <3>2, AnswerKeepsIInv
    <2>4. CASE UNCHANGED <<db, obligations>> /\ reply' = Send({}, Err, c, Err)
      BY <1>4, <2>1, <2>4
    <2> QED BY <1>5, <2>3, <2>4 DEF HandleWrite
  <1>6. CASE HandleWriteAll(c)
    <2> DEFINE ks == PairKeys(cmd[c].pairs)
    <2>1. /\ Receives(c, "WriteAll") /\ UNCHANGED unreadable /\ cmd[c].op = "WriteAll"
      BY <1>6 DEF HandleWriteAll, Receives
    <2>2. cmd[c].pairs \in Seq(Keys \X Values)
      BY <2>1, <1>1, CommandFields
    <2>3. CASE /\ db' = MultiInsert(db, cmd[c].pairs)
               /\ obligations' = Discharge(ks)
               /\ reply' = Send(Parked(ks), Ok(NoValue), c, Ok(NoValue))
      <3>1. /\ db' \in Contents /\ ks \subseteq Keys
            /\ \A j \in Keys \ ks : db'[j] = db[j]
        BY <2>2, <2>3, <1>1, MultiInsertContents
      <3>2. GoodReply(Ok(NoValue), cmd[c])
        BY <1>3, <2>1
      <3> QED BY <2>1, <2>3, <3>1, <3>2, AnswerKeepsIInv
    <2>4. CASE UNCHANGED <<db, obligations>> /\ reply' = Send({}, Err, c, Err)
      BY <1>4, <2>1, <2>4
    <2> QED BY <1>6, <2>3, <2>4 DEF HandleWriteAll
  <1>7. CASE HandleDelete(c)
    <2> DEFINE k == cmd[c].key
    <2>1. /\ Receives(c, "Delete") /\ UNCHANGED unreadable /\ cmd[c].op = "Delete"
          /\ db' = Remove(db, k) \/ db' = db
          /\ obligations' = Discharge({k})
          /\ reply' = Send(Parked({k}), Ok(NoValue), c, Pending)
      BY <1>7 DEF HandleDelete, Receives
    <2>2. k \in Keys
      BY <2>1, <1>1, CommandFields
    <2>3. db' \in Contents /\ \A j \in Keys \ {k} : db'[j] = db[j]
      BY <2>1, <2>2, <1>1 DEF Remove, Contents
    <2>4. FireAndForget(cmd[c])
      BY <2>1 DEF FireAndForget
    <2> QED BY <2>1, <2>2, <2>3, <2>4, AnswerKeepsIInv
  <1>8. CASE HandleDeleteAll(c)
    <2> DEFINE ks == SeqKeys(cmd[c].keys)
    <2>1. /\ Receives(c, "DeleteAll") /\ UNCHANGED unreadable
          /\ cmd[c].op = "DeleteAll"
      BY <1>8 DEF HandleDeleteAll, Receives
    <2>2. cmd[c].keys \in Seq(Keys)
      BY <2>1, <1>1, CommandFields
    <2>3. CASE /\ db' = MultiRemove(db, cmd[c].keys)
               /\ obligations' = Discharge(ks)
               /\ reply' = Send(Parked(ks), Ok(NoValue), c, Ok(NoValue))
      <3>1. /\ db' \in Contents /\ ks \subseteq Keys
            /\ \A j \in Keys \ ks : db'[j] = db[j]
        BY <2>2, <2>3, <1>1, MultiRemoveContents
      <3>2. GoodReply(Ok(NoValue), cmd[c])
        BY <1>3, <2>1
      <3> QED BY <2>1, <2>3, <3>1, <3>2, AnswerKeepsIInv
    <2>4. CASE UNCHANGED <<db, obligations>> /\ reply' = Send({}, Err, c, Err)
      BY <1>4, <2>1, <2>4
    <2> QED BY <1>8, <2>3, <2>4 DEF HandleDeleteAll
  <1>9. CASE HandleRead(c)
    <2>1. /\ Receives(c, "Read") /\ cmd[c].op = "Read"
          /\ UNCHANGED <<db, obligations, unreadable>>
      BY <1>9 DEF HandleRead, Receives
    <2>2. GoodReply(Ok(Get(db, cmd[c].key)), cmd[c])
      <3>1. cmd[c].key \in Keys
        BY <2>1, <1>1, CommandFields
      <3> QED BY <3>1, <2>1, <1>1 DEF GoodReply, Ok, Get, AnswerTo, Contents
    <2> QED BY <1>9, <1>4, <2>1, <2>2, ReplyKeepsIInv DEF HandleRead
  <1>10. CASE HandleReadRawBytes(c)
    <2>1. /\ Receives(c, "ReadRawBytes") /\ cmd[c].op = "ReadRawBytes"
          /\ UNCHANGED <<db, obligations, unreadable>>
      BY <1>10 DEF HandleReadRawBytes, Receives
    <2>2. GoodReply(Ok(GetRawBytes(db, cmd[c].key)), cmd[c])
      <3>1. cmd[c].key \in Keys
        BY <2>1, <1>1, CommandFields
      <3> QED BY <3>1, <2>1, <1>1
              DEF GoodReply, Ok, GetRawBytes, RawBytes, AnswerTo, Contents
    <2> QED BY <1>10, <1>4, <2>1, <2>2, ReplyKeepsIInv DEF HandleReadRawBytes
  <1>11. CASE HandleReadAll(c)
    <2> DEFINE ks == cmd[c].keys
    <2>1. /\ Receives(c, "ReadAll") /\ cmd[c].op = "ReadAll"
          /\ UNCHANGED <<db, obligations, unreadable>>
      BY <1>11 DEF HandleReadAll, Receives
    <2>2. GoodReply(Ok([vec |-> MultiGet(db, ks)]), cmd[c])
      <3>1. ks \in Seq(Keys)
        BY <2>1, <1>1, CommandFields
      <3>2. MultiGet(db, ks) \in [DOMAIN ks -> Values \cup {NoValue}]
        BY <3>1, <1>1 DEF MultiGet, Contents
      <3> QED BY <3>2, <2>1 DEF GoodReply, Ok, AnswerTo
    <2> QED BY <1>11, <1>4, <2>1, <2>2, ReplyKeepsIInv DEF HandleReadAll
  <1>12. CASE HandleNotifyRead(c)
    <2> DEFINE k == cmd[c].key
    <2>1. /\ Receives(c, "NotifyRead") /\ cmd[c].op = "NotifyRead" /\ UNCHANGED db
      BY <1>12 DEF HandleNotifyRead, Receives
    <2>2. CASE /\ reply' = Send({}, Err, c, Ok(Get(db, k)))
               /\ UNCHANGED <<obligations, unreadable>>
      <3>1. k \in Keys
        BY <2>1, <1>1, CommandFields
      <3>2. GoodReply(Ok(Get(db, k)), cmd[c])
        BY <3>1, <2>1, <1>1 DEF GoodReply, Ok, Get, AnswerTo, Contents
      <3> QED BY <2>1, <2>2, <3>2, ReplyKeepsIInv
    <2>3. CASE /\ Get(db, k) = NoValue
               /\ obligations' = [obligations EXCEPT ![k] = @ \cup {c}]
               /\ UNCHANGED <<reply, unreadable>>
      BY <2>1, <2>3, ParkKeepsIInv DEF Get
    <2>4. CASE /\ obligations' = [obligations EXCEPT ![k] = @ \cup {c}]
               /\ unreadable' = unreadable \cup {c}
               /\ UNCHANGED reply
      BY <2>1, <2>4, ParkKeepsIInv
    <2> QED BY <1>12, <2>2, <2>3, <2>4 DEF HandleNotifyRead
  <1>13. CASE HandleIter(c)
    <2>1. /\ Receives(c, "Iter") /\ cmd[c].op = "Iter"
          /\ UNCHANGED <<db, obligations, unreadable>>
      BY <1>13 DEF HandleIter, Receives
    <2>2. PICK part \in SUBSET Entries(db) :
            reply' = Send({}, Err, c, Ok([map |-> part \cap cmd[c].pred]))
      BY <1>13 DEF HandleIter
    <2>3. part \cap cmd[c].pred \in SUBSET (Keys \X Values)
      BY <2>1, <1>1, CommandFields
    <2>4. GoodReply(Ok([map |-> part \cap cmd[c].pred]), cmd[c])
      BY <2>1, <2>3 DEF GoodReply, Ok, AnswerTo
    <2> QED BY <2>1, <2>2, <2>4, ReplyKeepsIInv
  <1> QED BY <1>5, <1>6, <1>7, <1>8, <1>9, <1>10, <1>11, <1>12, <1>13 DEF Handle

\* A command that gets its slot goes behind everything it must follow.
LEMMA EnqueueKeepsIInv ==
    ASSUME IInv, NEW c \in Calls, Enqueue(c)
    PROVE  IInv'
  <1>1. /\ TypeOK /\ Lifecycle /\ SendersInOnePlace /\ NoOrphanedCall
        /\ NoLostWakeup /\ RealTimeOrder /\ task = "running"
    BY DEF IInv, Enqueue
  <1>2. /\ UNCHANGED <<db, obligations, task, reply, served, unreadable>>
        /\ UNCHANGED <<handles, cmd, before>>
        /\ status[c] = "sending"
        /\ status' = [status EXCEPT ![c] = IF FireAndForget(cmd[c])
                                           THEN "returned" ELSE "awaiting"]
    BY DEF Enqueue
  <1>3. /\ channel \in Seq(Calls) /\ channel' = Append(channel, c)
        /\ Len(channel) < Capacity
    BY <1>1 DEF Enqueue, TypeOK
  <1>4. /\ channel' \in Seq(Calls) /\ Len(channel') = Len(channel) + 1
        /\ DOMAIN channel = 1..Len(channel) /\ Len(channel) \in Nat
        /\ DOMAIN channel' = 1..(Len(channel) + 1)
        /\ channel'[Len(channel) + 1] = c
        /\ \A i \in DOMAIN channel : channel'[i] = channel[i] /\ channel[i] \in Calls
    BY <1>3
  <1>5. ~Queued(c) /\ c \notin served /\ reply[c] = Pending
    BY <1>1, <1>2 DEF Lifecycle
  <1>6. \A x \in Calls : Queued(x)' <=> Queued(x) \/ x = c
    BY <1>4 DEF Queued
  <1>7. \A x \in Calls : status'[x] = IF x = c
            THEN (IF FireAndForget(cmd[c]) THEN "returned" ELSE "awaiting")
            ELSE status[x]
    BY <1>1, <1>2 DEF TypeOK
  <1>8. TypeOK'
    <2>1. Len(channel') \leq Capacity
      BY <1>3, <1>4, CapacityAssumption
    <2>2. status' \in [Calls -> Statuses]
      BY <1>1, <1>2 DEF TypeOK, Statuses
    <2> QED BY <1>1, <1>2, <1>4, <2>1, <2>2 DEF TypeOK
  <1>9. Lifecycle'
    <2>1. handles
      BY <1>1, <1>2 DEF Lifecycle, InProgress
    <2>2. \A x \in Calls : status'[x] \in {"idle", "sending"} =>
             ~Queued(x)' /\ x \notin served' /\ reply'[x] = Pending
      BY <1>1, <1>2, <1>6, <1>7 DEF Lifecycle
    <2>3. \A x \in Calls : status'[x] = "awaiting" => ~FireAndForget(cmd[x])
      BY <1>1, <1>7 DEF Lifecycle
    <2> QED BY <1>1, <1>2, <2>1, <2>2, <2>3 DEF Lifecycle
  <1>10. SendersInOnePlace'
    <2>1. \A i, j \in DOMAIN channel' : channel'[i] = channel'[j] => i = j
      BY <1>1, <1>4, <1>5 DEF SendersInOnePlace, Queued
    <2>2. \A i \in DOMAIN channel' : channel'[i] \notin served
      BY <1>1, <1>4, <1>5 DEF SendersInOnePlace
    <2> QED BY <1>1, <1>2, <2>1, <2>2 DEF SendersInOnePlace
  <1>11. NoOrphanedCall'
    BY <1>1, <1>2, <1>6, <1>7 DEF NoOrphanedCall
  <1>12. RealTimeOrder'
    <2>1. ASSUME NEW i \in DOMAIN channel', NEW w \in before[channel'[i]]
          PROVE  w \in served \/ \E j \in DOMAIN channel' : j < i /\ channel'[j] = w
      <3>1. CASE i \in DOMAIN channel
        <4>1. w \in served \/ \E j \in DOMAIN channel : j < i /\ channel[j] = w
          BY <3>1, <1>1, <1>4 DEF RealTimeOrder
        <4> QED BY <4>1, <1>4
      <3>2. CASE i = Len(channel) + 1
        <4>1. w \in Calls /\ w \in before[c]
          BY <3>2, <1>1, <1>4 DEF TypeOK
        <4>2. w \in served \/ Queued(w)
          BY <4>1, <1>1, <1>2 DEF RealTimeOrder
        <4>3. ASSUME NEW j \in DOMAIN channel, channel[j] = w
              PROVE  j \in DOMAIN channel' /\ j < i /\ channel'[j] = w
          BY <4>3, <3>2, <1>4
        <4> QED BY <4>2, <4>3 DEF Queued
      <3> QED BY <3>1, <3>2, <1>4
    <2>2. \A x \in Calls : status'[x] = "returned" => x \in served \/ Queued(x)'
      BY <1>1, <1>6, <1>7 DEF RealTimeOrder
    <2>3. ASSUME NEW x \in Calls, status'[x] = "sending", NEW w \in before[x]
          PROVE  status'[w] = "returned"
      BY <2>3, <1>1, <1>2, <1>7 DEF RealTimeOrder, TypeOK
    <2> QED BY <1>2, <2>1, <2>2, <2>3 DEF RealTimeOrder
  <1>13. NoLostWakeup' /\ DrainedBeforeStop'
    BY <1>1, <1>2 DEF NoLostWakeup, DrainedBeforeStop
  <1> QED BY <1>8, <1>9, <1>10, <1>11, <1>12, <1>13 DEF IInv

\* A call that begins has all the calls that returned before it behind it.
LEMMA BeginKeepsIInv ==
    ASSUME IInv, NEW c \in Calls, Begin(c)
    PROVE  IInv'
  <1>1. /\ TypeOK /\ Lifecycle /\ SendersInOnePlace /\ NoOrphanedCall
        /\ NoLostWakeup /\ RealTimeOrder /\ DrainedBeforeStop
    BY DEF IInv
  <1>2. /\ handles /\ status[c] = "idle"
        /\ UNCHANGED <<handles, cmd>>
        /\ UNCHANGED <<db, channel, obligations, task, reply, served, unreadable>>
    BY DEF Begin, taskVars
  <1>3. \A x \in Calls :
          /\ status'[x] = IF x = c THEN "sending" ELSE status[x]
          /\ before'[x] = IF x = c THEN {w \in Calls : status[w] = "returned"}
                                   ELSE before[x]
    BY <1>1 DEF Begin, TypeOK
  <1>4. \A x \in Calls : Queued(x)' <=> Queued(x)
    BY <1>2 DEF Queued
  <1>5. TypeOK'
    BY <1>1, <1>2 DEF TypeOK, Begin, Statuses
  <1>6. Lifecycle'
    BY <1>1, <1>2, <1>3, <1>4 DEF Lifecycle
  <1>7. SendersInOnePlace'
    BY <1>1, <1>2 DEF SendersInOnePlace
  <1>8. NoOrphanedCall'
    BY <1>1, <1>2, <1>3, <1>4 DEF NoOrphanedCall
  <1>9. RealTimeOrder'
    <2> SUFFICES ASSUME task = "running" PROVE RealTimeOrder'
      BY <1>2 DEF RealTimeOrder
    <2>1. \A i \in DOMAIN channel : channel[i] \in Calls /\ channel[i] # c
      BY <1>1, <1>2 DEF TypeOK, Lifecycle, Queued
    <2>2. \A x \in Calls, w \in Calls :
            status'[x] = "sending" /\ w \in before'[x] => status'[w] = "returned"
      <3> SUFFICES ASSUME NEW x \in Calls, NEW w \in Calls, status'[x] = "sending",
                          w \in before'[x]
                   PROVE  status'[w] = "returned"
        OBVIOUS
      <3>1. CASE x = c
        BY <3>1, <1>2, <1>3
      <3>2. CASE x # c
        <4>1. status[w] = "returned"
          BY <3>2, <1>1, <1>3 DEF RealTimeOrder
        <4> QED BY <4>1, <1>2, <1>3
      <3> QED BY <3>1, <3>2
    <2>3. \A x \in Calls : before'[x] \subseteq Calls
      BY <1>5 DEF TypeOK
    <2>4. \A i \in DOMAIN channel' : \A w \in before'[channel'[i]] :
            \/ w \in served'
            \/ \E j \in DOMAIN channel' : j < i /\ channel'[j] = w
      <3> SUFFICES ASSUME NEW i \in DOMAIN channel, NEW w \in before'[channel[i]]
                   PROVE  \/ w \in served
                          \/ \E j \in DOMAIN channel : j < i /\ channel[j] = w
        BY <1>2
      <3>1. w \in before[channel[i]]
        BY <1>3, <2>1
      <3> QED BY <3>1, <1>1 DEF RealTimeOrder
    <2>5. \A x \in Calls : status'[x] = "returned" => x \in served \/ Queued(x)'
      BY <1>1, <1>3, <1>4 DEF RealTimeOrder
    <2> QED BY <1>2, <2>2, <2>3, <2>4, <2>5 DEF RealTimeOrder
  <1>10. NoLostWakeup' /\ DrainedBeforeStop'
    BY <1>1, <1>2, <1>3 DEF NoLostWakeup, DrainedBeforeStop
  <1> QED BY <1>5, <1>6, <1>7, <1>8, <1>9, <1>10 DEF IInv

\* A call ends: it returned because it was answered, panicked or was dropped.
LEMMA EndKeepsIInv ==
    ASSUME IInv, NEW c \in Calls, Receive(c) \/ SendFails(c) \/ Cancel(c)
    PROVE  IInv'
  <1>1. /\ TypeOK /\ Lifecycle /\ SendersInOnePlace /\ NoOrphanedCall
        /\ NoLostWakeup /\ RealTimeOrder /\ DrainedBeforeStop
    BY DEF IInv
  <1>2. /\ UNCHANGED <<handles, cmd, before>>
        /\ UNCHANGED <<db, channel, obligations, task, reply, served, unreadable>>
    BY DEF Receive, SendFails, Cancel, taskVars
  <1>3. PICK s \in {"returned", "panicked", "cancelled"} :
          /\ status' = [status EXCEPT ![c] = s]
          /\ InProgress(c)
          /\ s = "returned" => status[c] = "awaiting" /\ reply[c] # Pending
    BY DEF Receive, SendFails, Cancel, InProgress, Pending
  <1>4. \A x \in Calls : status'[x] = IF x = c THEN s ELSE status[x]
    BY <1>1, <1>3 DEF TypeOK
  <1>5. \A x \in Calls : Queued(x)' <=> Queued(x)
    BY <1>2 DEF Queued
  <1>6. TypeOK'
    BY <1>1, <1>2, <1>3 DEF TypeOK, Statuses
  <1>7. Lifecycle'
    BY <1>1, <1>2, <1>4, <1>5 DEF Lifecycle, InProgress
  <1>8. SendersInOnePlace'
    BY <1>1, <1>2 DEF SendersInOnePlace
  <1>9. NoOrphanedCall'
    BY <1>1, <1>2, <1>4, <1>5 DEF NoOrphanedCall
  <1>10. handles
    BY <1>1, <1>3 DEF Lifecycle
  <1>11. RealTimeOrder'
    <2> SUFFICES ASSUME task = "running" PROVE RealTimeOrder'
      BY <1>2 DEF RealTimeOrder
    <2>1. s = "returned" => c \in served
      BY <1>1, <1>3 DEF Lifecycle
    <2>2. \A x \in Calls : status'[x] = "sending" =>
             \A w \in before[x] : status'[w] = "returned"
      <3> SUFFICES ASSUME NEW x \in Calls, status'[x] = "sending", NEW w \in before[x]
                   PROVE  status'[w] = "returned"
        OBVIOUS
      <3>1. x # c /\ status[x] = "sending" /\ w \in Calls
        BY <1>1, <1>4 DEF TypeOK
      <3>2. status[w] = "returned" /\ w # c
        BY <3>1, <1>1, <1>3 DEF RealTimeOrder, InProgress
      <3> QED BY <3>1, <3>2, <1>4
    <2> QED BY <1>1, <1>2, <1>4, <1>5, <2>1, <2>2 DEF RealTimeOrder
  <1>12. NoLostWakeup' /\ DrainedBeforeStop'
    BY <1>1, <1>2, <1>10 DEF NoLostWakeup, DrainedBeforeStop, Lifecycle
  <1> QED BY <1>6, <1>7, <1>8, <1>9, <1>11, <1>12 DEF IInv

\* Dropping the last handle changes nothing else.
LEMMA DropHandlesKeepsIInv ==
    ASSUME IInv, DropHandles
    PROVE  IInv'
  <1>1. /\ UNCHANGED <<status, cmd, before>>
        /\ UNCHANGED <<db, channel, obligations, task, reply, served, unreadable>>
        /\ handles' = FALSE /\ \A c \in Calls : ~InProgress(c)
    BY DEF DropHandles, taskVars
  <1>2. \A x \in Calls : (Queued(x)' <=> Queued(x)) /\ (InProgress(x)' <=> InProgress(x))
    BY <1>1 DEF Queued, InProgress
  <1>3. TypeOK' /\ SendersInOnePlace'
    BY <1>1 DEF IInv, TypeOK, SendersInOnePlace
  <1>4. Lifecycle'
    BY <1>1, <1>2 DEF IInv, Lifecycle
  <1>5. NoOrphanedCall' /\ RealTimeOrder'
    BY <1>1, <1>2 DEF IInv, NoOrphanedCall, RealTimeOrder
  <1>6. NoLostWakeup' /\ DrainedBeforeStop'
    BY <1>1 DEF IInv, NoLostWakeup, DrainedBeforeStop
  <1> QED BY <1>3, <1>4, <1>5, <1>6 DEF IInv

\* The task ends, by panic or because no handle is left: every sender it held
\* is dropped.
LEMMA TaskEndKeepsIInv ==
    ASSUME IInv, Stop \/ \E c \in Calls : HandlerPanics(c)
    PROVE  IInv'
  <1>1. /\ TypeOK /\ Lifecycle /\ SendersInOnePlace /\ RealTimeOrder
    BY DEF IInv
  <1>2. /\ UNCHANGED <<handles, status, cmd, before, db, served, unreadable>>
        /\ task = "running" /\ task' \in {"stopped", "panicked"}
        /\ task' = "stopped" => ~handles /\ channel = <<>>
        /\ DropSenders
    BY DEF Stop, HandlerPanics, clientVars
  <1>3. /\ channel' = <<>> /\ obligations' = [k \in Keys |-> {}]
        /\ \A c \in Calls : reply'[c] = IF status[c] = "awaiting" /\ reply[c] = Pending
                                        THEN Closed ELSE reply[c]
    BY <1>2 DEF DropSenders
  <1>4. /\ channel' \in Seq(Calls) /\ Len(channel') = 0 /\ DOMAIN channel' = {}
        /\ \A c \in Calls : ~Queued(c)'
    BY <1>3 DEF Queued
  <1>5. TypeOK'
    <2>1. \A c \in Calls :
            \/ reply'[c] \in {Pending, Closed, Err}
            \/ reply'[c].is = "ok" /\ reply'[c].val \in AnswerTo(cmd[c])
      BY <1>1, <1>3 DEF TypeOK
    <2> QED BY <1>1, <1>2, <1>3, <1>4, <2>1, CapacityAssumption DEF TypeOK
  <1>6. Lifecycle'
    BY <1>1, <1>2, <1>3, <1>4 DEF Lifecycle, InProgress
  <1>7. SendersInOnePlace' /\ NoLostWakeup' /\ RealTimeOrder'
    BY <1>2, <1>3, <1>4 DEF SendersInOnePlace, NoLostWakeup, RealTimeOrder
  <1>8. NoOrphanedCall'
    BY <1>2, <1>3 DEF NoOrphanedCall, Pending, Closed
  <1>9. DrainedBeforeStop'
    <2> SUFFICES ASSUME task' = "stopped", NEW c \in Calls, status[c] = "returned"
                 PROVE  c \in served
      BY <1>2 DEF DrainedBeforeStop
    <2>1. ~Queued(c)
      BY <1>2 DEF Queued
    <2> QED BY <2>1, <1>1, <1>2 DEF RealTimeOrder
  <1> QED BY <1>5, <1>6, <1>7, <1>8, <1>9 DEF IInv

\* The invariant holds initially.
LEMMA InitIInv == Init => IInv
  <1> SUFFICES ASSUME Init PROVE IInv
    OBVIOUS
  <1>1. /\ channel \in Seq(Calls) /\ Len(channel) = 0 /\ DOMAIN channel = {}
    BY DEF Init
  <1>2. TypeOK
    BY <1>1, CapacityAssumption DEF Init, TypeOK, Contents, Statuses
  <1>3. Lifecycle /\ NoOrphanedCall
    BY <1>1 DEF Init, Lifecycle, NoOrphanedCall, Queued, InProgress
  <1>4. SendersInOnePlace /\ NoLostWakeup /\ RealTimeOrder /\ DrainedBeforeStop
    BY <1>1 DEF Init, SendersInOnePlace, NoLostWakeup, RealTimeOrder, DrainedBeforeStop
  <1> QED BY <1>2, <1>3, <1>4 DEF IInv

\* Every step, stuttering included, keeps the invariant.
LEMMA NextIInv == IInv /\ [Next]_vars => IInv'
  <1> SUFFICES ASSUME IInv, [Next]_vars PROVE IInv'
    OBVIOUS
  <1>1. ASSUME NEW c \in Calls, Begin(c) PROVE IInv'
    BY <1>1, BeginKeepsIInv
  <1>2. ASSUME NEW c \in Calls, Enqueue(c) PROVE IInv'
    BY <1>2, EnqueueKeepsIInv
  <1>3. ASSUME NEW c \in Calls, Receive(c) \/ SendFails(c) \/ Cancel(c) PROVE IInv'
    BY <1>3, EndKeepsIInv
  <1>4. ASSUME NEW c \in Calls, Handle(c) PROVE IInv'
    BY <1>4, HandleKeepsIInv
  <1>5. CASE DropHandles
    BY <1>5, DropHandlesKeepsIInv
  <1>6. CASE Stop \/ \E c \in Calls : HandlerPanics(c)
    BY <1>6, TaskEndKeepsIInv
  <1>7. CASE UNCHANGED vars
    BY <1>7 DEF vars, IInv, TypeOK, Lifecycle, SendersInOnePlace, NoOrphanedCall,
                NoLostWakeup, RealTimeOrder, DrainedBeforeStop, Queued, InProgress
  <1> QED BY <1>1, <1>2, <1>3, <1>4, <1>5, <1>6, <1>7 DEF Next

\* The inductive invariant holds in every reachable state of the actor.
THEOREM Invariance == Spec => []IInv
  BY InitIInv, NextIInv, PTL DEF Spec

\* Type correctness of the actor: in particular the channel never exceeds its
\* capacity and every answer has the type its method returns (lib.rs:39-52).
THEOREM TypeCorrectness == Spec => []TypeOK
  <1>1. IInv => TypeOK
    BY DEF IInv
  <1> QED BY <1>1, Invariance, PTL

\* No call waits for an answer that nobody can send (lib.rs:65-162).
THEOREM NoOrphans == Spec => [](SendersInOnePlace /\ NoOrphanedCall)
  <1>1. IInv => SendersInOnePlace /\ NoOrphanedCall
    BY DEF IInv
  <1> QED BY <1>1, Invariance, PTL

\* A notify_read parked on a key whose get succeeded waits only while the key
\* is missing (lib.rs:72-139).
THEOREM WakeupSafety == Spec => []NoLostWakeup
  <1>1. IInv => NoLostWakeup
    BY DEF IInv
  <1> QED BY <1>1, Invariance, PTL

\* Nothing accepted is lost when the task stops in good order (lib.rs:70).
THEOREM Drained == Spec => []DrainedBeforeStop
  <1>1. IInv => DrainedBeforeStop
    BY DEF IInv
  <1> QED BY <1>1, Invariance, PTL

\* Commands take effect in the real-time order of their calls, even those whose
\* methods return at once (lib.rs:170-178, 217-221).
THEOREM RealTime == Spec => ServedInRealTimeOrder
  <1>1. IInv /\ [Next]_vars
          => [\A c \in served' \ served : before[c] \subseteq served]_vars
    <2> SUFFICES ASSUME IInv, Next, NEW c \in served' \ served
                 PROVE  before[c] \subseteq served
      OBVIOUS
    <2>1. PICK x \in Calls : Handle(x)
      BY DEF Next, Begin, Enqueue, SendFails, Receive, Cancel, HandlerPanics,
             DropHandles, Stop, taskVars
    <2>2. PICK op : Receives(x, op)
      BY <2>1 DEF Handle, HandleWrite, HandleWriteAll, HandleDelete, HandleDeleteAll,
                  HandleRead, HandleReadRawBytes, HandleReadAll, HandleNotifyRead,
                  HandleIter
    <2>3. c = x
      BY <2>2 DEF Receives
    <2> QED BY <2>2, <2>3, ReceiveKeepsOrder
  <1> QED BY <1>1, Invariance, PTL DEF Spec, ServedInRealTimeOrder

-----------------------------------------------------------------------------
(* The actor implements AtomicStore.                                         *)

\* A oneshot closes only when the task is gone.
ClosedByDeath == \A c \in Calls : reply[c].is = "closed" => task # "running"

\* What Send leaves in the oneshots.
LEMMA SendOpens ==
    ASSUME ClosedByDeath, task = "running", UNCHANGED task, NEW W, NEW w, NEW c, NEW r,
           w.is # "closed", r.is # "closed", reply' = Send(W, w, c, r)
    PROVE  ClosedByDeath'
  BY DEF ClosedByDeath, Send

LEMMA ClosedInvariance == Spec => []ClosedByDeath
  <1>1. Init => ClosedByDeath
    BY DEF Init, ClosedByDeath, Pending
  <1>2. ClosedByDeath /\ [Next]_vars => ClosedByDeath'
    <2> SUFFICES ASSUME ClosedByDeath, [Next]_vars PROVE ClosedByDeath'
      OBVIOUS
    <2>1. ASSUME UNCHANGED <<reply, task>> PROVE ClosedByDeath'
      BY <2>1 DEF ClosedByDeath
    <2>2. /\ Err.is # "closed" /\ Pending.is # "closed"
          /\ \A x : Ok(x).is # "closed"
      BY DEF Err, Pending, Ok
    <2>3. ASSUME NEW c \in Calls, Handle(c) PROVE ClosedByDeath'
      <3>1. task = "running" /\ UNCHANGED task
        BY <2>3 DEF Handle, HandleWrite, HandleWriteAll, HandleDelete, HandleDeleteAll,
                    HandleRead, HandleReadRawBytes, HandleReadAll, HandleNotifyRead,
                    HandleIter, Receives
      <3>2. CASE HandleWrite(c) \/ HandleWriteAll(c)
        BY <3>1, <3>2, <2>2, SendOpens DEF HandleWrite, HandleWriteAll
      <3>3. CASE HandleDelete(c) \/ HandleDeleteAll(c)
        BY <3>1, <3>3, <2>2, SendOpens DEF HandleDelete, HandleDeleteAll
      <3>4. CASE HandleRead(c) \/ HandleReadRawBytes(c) \/ HandleReadAll(c)
        BY <3>1, <3>4, <2>2, SendOpens DEF HandleRead, HandleReadRawBytes, HandleReadAll
      <3>5. CASE HandleNotifyRead(c)
        BY <3>1, <3>5, <2>1, <2>2, SendOpens DEF HandleNotifyRead
      <3>6. CASE HandleIter(c)
        BY <3>1, <3>6, <2>2, SendOpens DEF HandleIter
      <3> QED BY <2>3, <3>2, <3>3, <3>4, <3>5, <3>6 DEF Handle
    <2>4. ASSUME NEW c \in Calls,
                 Begin(c) \/ Enqueue(c) \/ SendFails(c) \/ Receive(c) \/ Cancel(c)
          PROVE  ClosedByDeath'
      BY <2>1, <2>4 DEF Begin, Enqueue, SendFails, Receive, Cancel, taskVars
    <2>5. CASE DropHandles
      BY <2>1, <2>5 DEF DropHandles, taskVars
    <2>6. CASE Stop \/ \E c \in Calls : HandlerPanics(c)
      BY <2>6 DEF Stop, HandlerPanics, ClosedByDeath
    <2>7. CASE UNCHANGED vars
      BY <2>1, <2>7 DEF vars
    <2> QED BY <2>3, <2>4, <2>5, <2>6, <2>7 DEF Next
  <1> QED BY <1>1, <1>2, PTL DEF Spec

\* The two modules mean the same by the words they share.
LEMMA SameWords ==
    /\ Atomic!Pending = Pending /\ Atomic!Err = Err
    /\ \A x : Atomic!Ok(x) = Ok(x)
    /\ \A cm : Atomic!FireAndForget(cm) <=> FireAndForget(cm)
  BY DEF Atomic!Pending, Atomic!Err, Atomic!Ok, Atomic!FireAndForget,
         Pending, Err, Ok, FireAndForget

\* What the callers wait on, all keys together.
AllParked == UNION {obligations[k] : k \in Keys}
ParkedOn(ks) == {w \in AllParked : cmd[w].key \in ks}

\* A call whose command the task takes may take effect, as AtomicStore has it.
LEMMA TakenIsReady ==
    ASSUME IInv, NEW c \in Calls, NEW op, Receives(c, op)
    PROVE  Atomic!Ready(c)
  <1>1. TypeOK /\ SendersInOnePlace /\ Lifecycle /\ task = "running"
    BY DEF IInv, Receives
  <1>2. Queued(c) /\ c \notin served /\ before[c] \subseteq served
    BY <1>1, HeadTaken, ReceiveKeepsOrder DEF Queued
  <1>3. status[c] \in Statuses /\ status[c] # "idle"
    BY <1>1, <1>2 DEF Lifecycle, TypeOK
  <1>4. CallerStatus[c] # "idle"
    BY <1>3 DEF CallerStatus
  <1>5. UNCHANGED <<task, status, cmd, before>> /\ served' = served \cup {c}
    BY DEF Receives, clientVars
  <1>6. CallerStatus' = CallerStatus
    BY <1>5 DEF CallerStatus, InProgress
  <1> QED BY <1>1, <1>2, <1>4, <1>5, <1>6 DEF Atomic!Ready

\* Sending on the oneshots is telling the callers, and discharging the keys of
\* ks ends the waits on them.
LEMMA SendIsTell ==
    ASSUME IInv, NEW c \in Calls, NEW op, Receives(c, op),
           NEW ks \in SUBSET Keys, NEW w, NEW r, NEW s,
           w # Closed, r # Closed, r = s \/ FireAndForget(cmd[c]),
           obligations' = Discharge(ks), reply' = Send(Parked(ks), w, c, r)
    PROVE  /\ AllParked' = AllParked \ ParkedOn(ks)
           /\ CallerReply' = Atomic!Tell(ParkedOn(ks), w, c, s)
  <1>1. /\ TypeOK /\ SendersInOnePlace /\ Lifecycle
        /\ UNCHANGED <<status, cmd>>
    BY DEF IInv, Receives, clientVars
  <1>2. Queued(c)
    BY <1>1, HeadTaken DEF Queued
  <1>3. \A k \in Keys : \A x \in obligations[k] :
            x \in Calls /\ cmd[x].key = k /\ x \in served
    BY <1>1 DEF SendersInOnePlace, TypeOK
  <1>4. Parked(ks) = ParkedOn(ks)
    BY <1>3 DEF Parked, ParkedOn, AllParked
  <1>5. AllParked' = AllParked \ ParkedOn(ks)
    BY <1>3 DEF AllParked, ParkedOn, Discharge
  <1>6. ASSUME NEW x \in Calls
        PROVE  CallerReply'[x] = Atomic!Tell(ParkedOn(ks), w, c, s)[x]
    <2> DEFINE old == IF reply[x] = Closed THEN Pending ELSE reply[x]
    <2>1. Atomic!Tell(ParkedOn(ks), w, c, s)[x] =
            IF CallerStatus[x] # "called" THEN old
            ELSE IF x \in ParkedOn(ks) THEN w
            ELSE IF x = c /\ ~FireAndForget(cmd[c]) THEN s ELSE old
      BY SameWords DEF Atomic!Tell, CallerReply
    <2>2. CallerReply'[x] = IF reply'[x] = Closed THEN Pending ELSE reply'[x]
      BY DEF CallerReply
    <2>3. reply'[x] = IF status[x] # "awaiting" THEN reply[x]
                      ELSE IF x \in Parked(ks) THEN w
                      ELSE IF x = c THEN r ELSE reply[x]
      BY DEF Send
    <2>4. CallerStatus[x] = IF status[x] \in {"sending", "awaiting"} THEN "called"
                            ELSE status[x]
      BY DEF CallerStatus, InProgress
    <2>5. status[x] # "called"
      BY <1>1 DEF TypeOK, Statuses
    <2>6. status[x] = "sending" => x # c /\ x \notin ParkedOn(ks)
      BY <1>1, <1>2, <1>3 DEF Lifecycle, ParkedOn, AllParked
    <2>7. status[x] = "awaiting" => ~FireAndForget(cmd[x])
      BY <1>1 DEF Lifecycle
    <2> HIDE DEF old
    <2>8. CASE status[x] = "awaiting"
      BY <2>1, <2>2, <2>3, <2>4, <2>7, <2>8, <1>4 DEF old
    <2>9. CASE status[x] = "sending"
      BY <2>1, <2>2, <2>3, <2>4, <2>6, <2>9 DEF old
    <2>10. CASE status[x] \notin {"awaiting", "sending"}
      BY <2>1, <2>2, <2>3, <2>4, <2>5, <2>10 DEF old
    <2> QED BY <2>8, <2>9, <2>10
  <1>7. CallerReply' = Atomic!Tell(ParkedOn(ks), w, c, s)
    BY <1>6 DEF CallerReply, Atomic!Tell
  <1> QED BY <1>5, <1>7

\* A handler that answers its caller alone.
LEMMA ReplyIsTell ==
    ASSUME IInv, NEW c \in Calls, NEW op, Receives(c, op), NEW w, NEW r, r # Closed,
           UNCHANGED obligations, reply' = Send({}, Err, c, r)
    PROVE  /\ AllParked' = AllParked
           /\ CallerReply' = Atomic!Tell({}, w, c, r)
  <1>1. obligations' = Discharge({})
    BY DEF IInv, TypeOK, Discharge
  <1>2. reply' = Send(Parked({}), Err, c, r) /\ Err # Closed
    BY DEF Send, Parked, Err, Closed
  <1>3. /\ AllParked' = AllParked \ ParkedOn({})
        /\ CallerReply' = Atomic!Tell(ParkedOn({}), Err, c, r)
    BY <1>1, <1>2, SendIsTell
  <1>4. ParkedOn({}) = {}
    BY DEF ParkedOn
  <1>5. Atomic!Tell({}, Err, c, r) = Atomic!Tell({}, w, c, r)
    BY DEF Atomic!Tell
  <1> QED BY <1>3, <1>4, <1>5

\* A write, batched or not, and a removal: the callers that wait on its keys are
\* told, if it succeeds.
LEMMA WriterRefines ==
    ASSUME IInv, NEW c \in Calls, NEW op, Receives(c, op),
           NEW ks \in SUBSET Keys, ks = Atomic!Touched(cmd[c]),
           op \in {"Write", "WriteAll", "Delete", "DeleteAll"},
           NEW r, r = Ok(NoValue) \/ (r = Pending /\ FireAndForget(cmd[c])),
           db' = Atomic!Effect(db, cmd[c]),
           obligations' = Discharge(ks),
           reply' = Send(Parked(ks), Atomic!Wake(cmd[c]), c, r)
    PROVE  Atomic!Succeed(c)
  <1>1. cmd[c].op = op
    BY DEF Receives
  <1>2. Atomic!Answer(db, cmd[c]) = Ok(NoValue)
    BY <1>1, SameWords DEF Atomic!Answer
  <1>3. Atomic!Wake(cmd[c]) # Closed /\ r # Closed
    BY SameWords DEF Atomic!Wake, Ok, Closed, Pending
  <1>4. /\ AllParked' = AllParked \ ParkedOn(ks)
        /\ CallerReply' = Atomic!Tell(ParkedOn(ks), Atomic!Wake(cmd[c]), c, Ok(NoValue))
    BY <1>3, SendIsTell
  <1>5. Atomic!Waiters(cmd[c]) = ParkedOn(ks)
    BY DEF Atomic!Waiters, ParkedOn, AllParked
  <1>6. Atomic!Ready(c)
    BY TakenIsReady
  <1> QED BY <1>1, <1>2, <1>4, <1>5, <1>6 DEF Atomic!Succeed, AllParked

\* A handler whose command fails and that tells its caller so.
LEMMA FailureRefines ==
    ASSUME IInv, NEW c \in Calls, NEW op, Receives(c, op), DbMayFail,
           op \notin {"Delete", "Iter", "NotifyRead"},
           UNCHANGED <<db, obligations>>, reply' = Send({}, Err, c, Err)
    PROVE  Atomic!Fail(c)
  <1>1. cmd[c].op = op
    BY DEF Receives
  <1>2. Err # Closed
    BY DEF Err, Closed
  <1>3. AllParked' = AllParked /\ CallerReply' = Atomic!Tell({}, Err, c, Err)
    BY <1>2, ReplyIsTell
  <1>4. Atomic!Ready(c)
    BY TakenIsReady
  <1> QED BY <1>1, <1>3, <1>4, SameWords DEF Atomic!Fail, AllParked

\* A read that is answered.
LEMMA ReaderRefines ==
    ASSUME IInv, NEW c \in Calls, NEW op, Receives(c, op),
           op \in {"Read", "ReadRawBytes", "ReadAll", "NotifyRead", "Iter"},
           op = "NotifyRead" => db[cmd[c].key] # NoValue,
           UNCHANGED <<db, obligations>>,
           reply' = Send({}, Err, c, Atomic!Answer(db, cmd[c]))
    PROVE  Atomic!Succeed(c)
  <1>1. cmd[c].op = op
    BY DEF Receives
  <1>2. Atomic!Touched(cmd[c]) = {} /\ Atomic!Effect(db, cmd[c]) = db
    BY <1>1 DEF Atomic!Touched, Atomic!Effect
  <1>3. Atomic!Waiters(cmd[c]) = {}
    BY <1>2 DEF Atomic!Waiters
  <1>4. Atomic!Answer(db, cmd[c]) # Closed
    BY <1>1, SameWords DEF Atomic!Answer, Ok, Closed
  <1>5. /\ AllParked' = AllParked
        /\ CallerReply' = Atomic!Tell({}, Atomic!Wake(cmd[c]), c, Atomic!Answer(db, cmd[c]))
    BY <1>4, ReplyIsTell
  <1>6. Atomic!Ready(c)
    BY TakenIsReady
  <1> QED BY <1>1, <1>2, <1>3, <1>5, <1>6 DEF Atomic!Succeed, AllParked

\* Each handler is the effect of its call, at one instant.
LEMMA HandleRefines ==
    ASSUME IInv, NEW c \in Calls, Handle(c)
    PROVE  Atomic!Succeed(c) \/ Atomic!Wait(c) \/ Atomic!Fail(c)
  <1>1. cmd[c] \in StoreCommand
    BY CommandsAssumption DEF IInv, TypeOK
  <1>2. TypeOK /\ SendersInOnePlace
    BY DEF IInv
  <1>3. CASE HandleWrite(c)
    <2>1. Receives(c, "Write") /\ cmd[c].op = "Write" /\ cmd[c].key \in Keys
      BY <1>1, <1>3, CommandFields DEF HandleWrite, Receives
    <2>2. CASE /\ db' = Insert(db, cmd[c].key, cmd[c].value)
               /\ obligations' = Discharge({cmd[c].key})
               /\ reply' = Send(Parked({cmd[c].key}), Ok(cmd[c].value), c, Ok(NoValue))
      <3>1. Atomic!Touched(cmd[c]) = {cmd[c].key} /\ {cmd[c].key} \in SUBSET Keys
        BY <2>1 DEF Atomic!Touched
      <3>2. Atomic!Effect(db, cmd[c]) = db'
        BY <2>1, <2>2 DEF Atomic!Effect, Atomic!Insert, Insert
      <3>3. Atomic!Wake(cmd[c]) = Ok(cmd[c].value)
        BY <2>1, SameWords DEF Atomic!Wake
      <3> QED BY <2>1, <2>2, <3>1, <3>2, <3>3, WriterRefines
    <2>3. CASE DbMayFail /\ reply' = Send({}, Err, c, Err) /\ UNCHANGED <<db, obligations>>
      BY <2>1, <2>3, FailureRefines
    <2> QED BY <1>3, <2>2, <2>3 DEF HandleWrite
  <1>4. CASE HandleWriteAll(c)
    <2> DEFINE ks == PairKeys(cmd[c].pairs)
    <2>1. /\ Receives(c, "WriteAll") /\ cmd[c].op = "WriteAll"
          /\ cmd[c].pairs \in Seq(Keys \X Values)
      BY <1>1, <1>4, CommandFields DEF HandleWriteAll, Receives
    <2>2. CASE /\ db' = MultiInsert(db, cmd[c].pairs)
               /\ obligations' = Discharge(ks)
               /\ reply' = Send(Parked(ks), Ok(NoValue), c, Ok(NoValue))
      <3>1. Atomic!Touched(cmd[c]) = ks
        BY <2>1 DEF Atomic!Touched, PairKeys
      <3>2. ks \in SUBSET Keys
        BY <2>1, <1>2, MultiInsertContents DEF TypeOK
      <3>3. Atomic!Effect(db, cmd[c]) = db'
        <4>1. Atomic!Effect(db, cmd[c]) = Atomic!MultiInsert(db, cmd[c].pairs)
          BY <2>1 DEF Atomic!Effect
        <4>2. Atomic!MultiInsert(db, cmd[c].pairs) = MultiInsert(db, cmd[c].pairs)
          BY DEF Atomic!MultiInsert, Atomic!Decides, MultiInsert, Decides
        <4> QED BY <4>1, <4>2, <2>2
      <3>4. Atomic!Wake(cmd[c]) = Ok(NoValue)
        BY <2>1, SameWords DEF Atomic!Wake
      <3> QED BY <2>1, <2>2, <3>1, <3>2, <3>3, <3>4, WriterRefines
    <2>3. CASE DbMayFail /\ reply' = Send({}, Err, c, Err) /\ UNCHANGED <<db, obligations>>
      BY <2>1, <2>3, FailureRefines
    <2> QED BY <1>4, <2>2, <2>3 DEF HandleWriteAll
  <1>5. CASE HandleDelete(c)
    <2> DEFINE ks == {cmd[c].key}
    <2>1. /\ Receives(c, "Delete") /\ cmd[c].op = "Delete" /\ cmd[c].key \in Keys
          /\ obligations' = Discharge(ks)
          /\ reply' = Send(Parked(ks), Ok(NoValue), c, Pending)
      BY <1>1, <1>5, CommandFields DEF HandleDelete, Receives
    <2>2. FireAndForget(cmd[c]) /\ Atomic!Touched(cmd[c]) = ks /\ ks \in SUBSET Keys
      BY <2>1 DEF FireAndForget, Atomic!Touched
    <2>3. CASE db' = Remove(db, cmd[c].key)
      <3>1. Atomic!Effect(db, cmd[c]) = db'
        BY <2>1, <2>3 DEF Atomic!Effect, Atomic!Remove, Remove
      <3>2. Atomic!Wake(cmd[c]) = Ok(NoValue)
        BY <2>1, SameWords DEF Atomic!Wake
      <3> QED BY <2>1, <2>2, <3>1, <3>2, WriterRefines
    <2>4. CASE DbMayFail /\ UNCHANGED db
      <3>1. Ok(NoValue) # Closed /\ Pending # Closed
        BY DEF Ok, Closed, Pending
      <3>2. /\ AllParked' = AllParked \ ParkedOn(ks)
            /\ CallerReply' = Atomic!Tell(ParkedOn(ks), Ok(NoValue), c, Err)
        BY <2>1, <2>2, <3>1, SendIsTell
      <3>3. Atomic!Waiters(cmd[c]) = ParkedOn(ks)
        BY <2>2 DEF Atomic!Waiters, ParkedOn, AllParked
      <3>4. Atomic!Ready(c)
        BY <2>1, TakenIsReady
      <3>5. Atomic!Fail(c)
        BY <2>1, <2>4, <3>2, <3>3, <3>4, SameWords DEF Atomic!Fail, AllParked
      <3> QED BY <3>5
    <2> QED BY <1>5, <2>3, <2>4 DEF HandleDelete
  <1>6. CASE HandleDeleteAll(c)
    <2> DEFINE ks == SeqKeys(cmd[c].keys)
    <2>1. /\ Receives(c, "DeleteAll") /\ cmd[c].op = "DeleteAll"
          /\ cmd[c].keys \in Seq(Keys)
      BY <1>1, <1>6, CommandFields DEF HandleDeleteAll, Receives
    <2>2. CASE /\ db' = MultiRemove(db, cmd[c].keys)
               /\ obligations' = Discharge(ks)
               /\ reply' = Send(Parked(ks), Ok(NoValue), c, Ok(NoValue))
      <3>1. Atomic!Touched(cmd[c]) = ks
        BY <2>1 DEF Atomic!Touched, SeqKeys
      <3>2. ks \in SUBSET Keys
        BY <2>1, <1>2, MultiRemoveContents DEF TypeOK
      <3>3. Atomic!Effect(db, cmd[c]) = db'
        BY <2>1, <2>2 DEF Atomic!Effect, Atomic!MultiRemove, MultiRemove
      <3>4. Atomic!Wake(cmd[c]) = Ok(NoValue)
        BY <2>1, SameWords DEF Atomic!Wake
      <3> QED BY <2>1, <2>2, <3>1, <3>2, <3>3, <3>4, WriterRefines
    <2>3. CASE DbMayFail /\ reply' = Send({}, Err, c, Err) /\ UNCHANGED <<db, obligations>>
      BY <2>1, <2>3, FailureRefines
    <2> QED BY <1>6, <2>2, <2>3 DEF HandleDeleteAll
  <1>7. CASE HandleRead(c)
    <2>1. /\ Receives(c, "Read") /\ cmd[c].op = "Read" /\ UNCHANGED <<db, obligations>>
      BY <1>7 DEF HandleRead, Receives
    <2>2. Atomic!Answer(db, cmd[c]) = Ok(Get(db, cmd[c].key))
      BY <2>1, SameWords DEF Atomic!Answer, Atomic!Get, Get
    <2> QED BY <1>7, <2>1, <2>2, ReaderRefines, FailureRefines DEF HandleRead
  <1>8. CASE HandleReadRawBytes(c)
    <2>1. /\ Receives(c, "ReadRawBytes") /\ cmd[c].op = "ReadRawBytes"
          /\ UNCHANGED <<db, obligations>>
      BY <1>8 DEF HandleReadRawBytes, Receives
    <2>2. Atomic!Answer(db, cmd[c]) = Ok(GetRawBytes(db, cmd[c].key))
      <3>1. Atomic!GetRawBytes(db, cmd[c].key) = GetRawBytes(db, cmd[c].key)
        BY DEF Atomic!GetRawBytes, Atomic!RawBytes, GetRawBytes, RawBytes
      <3> QED BY <3>1, <2>1, SameWords DEF Atomic!Answer
    <2> QED BY <1>8, <2>1, <2>2, ReaderRefines, FailureRefines DEF HandleReadRawBytes
  <1>9. CASE HandleReadAll(c)
    <2>1. /\ Receives(c, "ReadAll") /\ cmd[c].op = "ReadAll" /\ UNCHANGED <<db, obligations>>
      BY <1>9 DEF HandleReadAll, Receives
    <2>2. Atomic!Answer(db, cmd[c]) = Ok([vec |-> MultiGet(db, cmd[c].keys)])
      <3>1. Atomic!MultiGet(db, cmd[c].keys) = MultiGet(db, cmd[c].keys)
        BY DEF Atomic!MultiGet, MultiGet
      <3> QED BY <3>1, <2>1, SameWords DEF Atomic!Answer
    <2> QED BY <1>9, <2>1, <2>2, ReaderRefines, FailureRefines DEF HandleReadAll
  <1>10. CASE HandleNotifyRead(c)
    <2>1. /\ Receives(c, "NotifyRead") /\ cmd[c].op = "NotifyRead" /\ UNCHANGED db
          /\ cmd[c].key \in Keys
      BY <1>1, <1>10, CommandFields DEF HandleNotifyRead, Receives
    <2>2. CASE /\ Get(db, cmd[c].key) # NoValue
               /\ reply' = Send({}, Err, c, Ok(Get(db, cmd[c].key)))
               /\ UNCHANGED obligations
      <3>1. Atomic!Answer(db, cmd[c]) = Ok(Get(db, cmd[c].key))
        BY <2>1, SameWords DEF Atomic!Answer, Atomic!Get, Get
      <3> QED BY <2>1, <2>2, <3>1, ReaderRefines DEF Get
    <2>3. CASE /\ db[cmd[c].key] = NoValue \/ DbMayFail
               /\ obligations' = [obligations EXCEPT ![cmd[c].key] = @ \cup {c}]
               /\ UNCHANGED reply
      <3>1. AllParked' = AllParked \cup {c}
        <4>1. \A k \in Keys : obligations'[k] = IF k = cmd[c].key
                                                THEN obligations[k] \cup {c}
                                                ELSE obligations[k]
          BY <2>3, <1>2 DEF TypeOK
        <4>2. c \in obligations'[cmd[c].key] /\ cmd[c].key \in Keys
          BY <4>1, <2>1
        <4>3. /\ \A x : x \in AllParked <=> \E k \in Keys : x \in obligations[k]
              /\ \A x : x \in AllParked' <=> \E k \in Keys : x \in obligations'[k]
          BY DEF AllParked
        <4>4. ASSUME NEW x PROVE x \in AllParked' <=> x \in AllParked \/ x = c
          <5>1. \A k \in Keys : x \in obligations'[k] <=>
                               x \in obligations[k] \/ (k = cmd[c].key /\ x = c)
            BY <4>1
          <5>2. CASE x = c
            BY <5>2, <4>2, <4>3
          <5>3. CASE x # c
            <6>1. \A k \in Keys : x \in obligations'[k] <=> x \in obligations[k]
              BY <5>1, <5>3
            <6> QED BY <6>1, <5>3, <4>3
          <5> QED BY <5>2, <5>3
        <4> QED BY <4>4
      <3>2. CallerReply' = CallerReply
        BY <2>3 DEF CallerReply
      <3>3. Atomic!Ready(c)
        BY <2>1, TakenIsReady
      <3>4. Atomic!Wait(c)
        BY <2>1, <2>3, <3>1, <3>2, <3>3 DEF Atomic!Wait, AllParked
      <3> QED BY <3>4
    <2> QED BY <1>10, <2>2, <2>3 DEF HandleNotifyRead, Get
  <1>11. CASE HandleIter(c)
    <2>1. PICK part \in SUBSET Entries(db) :
            /\ part = Entries(db) \/ DbMayFail
            /\ reply' = Send({}, Err, c, Ok([map |-> part \cap cmd[c].pred]))
      BY <1>11 DEF HandleIter
    <2>2. /\ Receives(c, "Iter") /\ cmd[c].op = "Iter" /\ UNCHANGED <<db, obligations>>
      BY <1>11 DEF HandleIter, Receives
    <2>3. Atomic!Entries(db) = Entries(db)
      BY DEF Atomic!Entries, Entries
    <2>4. CASE part = Entries(db)
      <3>1. Atomic!Answer(db, cmd[c]) = Ok([map |-> part \cap cmd[c].pred])
        BY <2>2, <2>3, <2>4, SameWords DEF Atomic!Answer
      <3> QED BY <2>1, <2>2, <3>1, ReaderRefines
    <2>5. CASE DbMayFail
      <3> DEFINE r == Ok([map |-> part \cap cmd[c].pred])
      <3>1. r # Closed
        BY DEF Ok, Closed
      <3> HIDE DEF r
      <3>2. AllParked' = AllParked /\ CallerReply' = Atomic!Tell({}, Err, c, r)
        BY <2>1, <2>2, <3>1, ReplyIsTell DEF r
      <3>3. Atomic!Ready(c)
        BY <2>2, TakenIsReady
      <3>4. Atomic!Fail(c)
        BY <2>1, <2>2, <2>3, <2>5, <3>2, <3>3, SameWords DEF Atomic!Fail, AllParked, r
      <3> QED BY <3>4
    <2> QED BY <2>1, <2>4, <2>5
  <1> QED BY <1>3, <1>4, <1>5, <1>6, <1>7, <1>8, <1>9, <1>10, <1>11 DEF Handle

\* What a client does is what AtomicStore's client does; getting a slot of the
\* channel is not seen.
LEMMA ClientRefines ==
    ASSUME IInv, ClosedByDeath, NEW c \in Calls,
           Begin(c) \/ Enqueue(c) \/ SendFails(c) \/ Receive(c) \/ Cancel(c)
    PROVE  \/ Atomic!Begin(c) \/ Atomic!Return(c) \/ Atomic!Cancel(c)
           \/ UNCHANGED Atomic!vars
  <1>1. TypeOK /\ Lifecycle
    BY DEF IInv
  <1>2. /\ UNCHANGED <<db, obligations, task, cmd, reply, served>>
        /\ CallerReply' = CallerReply /\ AllParked' = AllParked
    BY DEF Begin, Enqueue, SendFails, Receive, Cancel, taskVars, CallerReply, AllParked
  <1>3. \A x \in Calls : /\ status[x] \in Statuses
                         /\ CallerStatus[x] = IF status[x] \in {"sending", "awaiting"}
                                              THEN "called" ELSE status[x]
    BY <1>1 DEF TypeOK, CallerStatus, InProgress
  <1>4. ASSUME NEW s, status' = [status EXCEPT ![c] = s]
        PROVE  CallerStatus' = [CallerStatus EXCEPT ![c] =
                   IF s \in {"sending", "awaiting"} THEN "called" ELSE s]
    BY <1>4, <1>1 DEF TypeOK, CallerStatus, InProgress
  <1>5. CASE Begin(c)
    <2>1. /\ status[c] = "idle" /\ status' = [status EXCEPT ![c] = "sending"]
          /\ before' = [before EXCEPT ![c] = {w \in Calls : status[w] = "returned"}]
      BY <1>5 DEF Begin
    <2>2. {w \in Calls : status[w] = "returned"} = {w \in Calls : CallerStatus[w] = "returned"}
      BY <1>3
    <2>3. CallerStatus' = [CallerStatus EXCEPT ![c] = "called"]
      BY <2>1, <1>4
    <2>4. Atomic!Begin(c)
      BY <2>1, <2>2, <2>3, <1>2, <1>3 DEF Atomic!Begin, AllParked
    <2> QED BY <2>4
  <1>6. UNCHANGED before \/ Begin(c)
    BY DEF Enqueue, SendFails, Receive, Cancel
  <1>7. CASE Enqueue(c) /\ FireAndForget(cmd[c])
    <2>1. status[c] = "sending" /\ status' = [status EXCEPT ![c] = "returned"]
      BY <1>7 DEF Enqueue
    <2>2. CallerStatus' = [CallerStatus EXCEPT ![c] = "returned"] /\ CallerStatus[c] = "called"
      BY <2>1, <1>3, <1>4
    <2>3. UNCHANGED before
      BY <1>7 DEF Enqueue
    <2>4. Atomic!Return(c)
      BY <2>2, <2>3, <1>2, <1>7, SameWords DEF Atomic!Return, AllParked
    <2> QED BY <2>4
  <1>8. CASE Enqueue(c) /\ ~FireAndForget(cmd[c])
    <2>1. status[c] = "sending" /\ status' = [status EXCEPT ![c] = "awaiting"]
      BY <1>8 DEF Enqueue
    <2>2. CallerStatus' = CallerStatus
      BY <2>1, <1>1 DEF TypeOK, CallerStatus, InProgress
    <2>3. UNCHANGED before
      BY <1>8 DEF Enqueue
    <2> QED BY <2>2, <2>3, <1>2 DEF Atomic!vars, AllParked
  <1>9. CASE SendFails(c)
    <2>1. /\ status[c] = "sending" /\ status' = [status EXCEPT ![c] = "panicked"]
          /\ task # "running" /\ UNCHANGED before
      BY <1>9 DEF SendFails
    <2>2. CallerStatus' = [CallerStatus EXCEPT ![c] = "panicked"] /\ CallerStatus[c] = "called"
      BY <2>1, <1>3, <1>4
    <2>3. CallerReply[c] = Pending
      BY <2>1, <1>1 DEF Lifecycle, CallerReply
    <2>4. Atomic!Return(c)
      BY <2>1, <2>2, <2>3, <1>2, SameWords DEF Atomic!Return, AllParked
    <2> QED BY <2>4
  <1>10. CASE Receive(c)
    <2>1. /\ status[c] = "awaiting" /\ reply[c].is # "pending" /\ UNCHANGED before
          /\ status' = [status EXCEPT ![c] = IF reply[c].is = "closed"
                                             THEN "panicked" ELSE "returned"]
      BY <1>10 DEF Receive
    <2>2. CASE reply[c].is = "closed"
      <3>1. task # "running"
        BY <2>2 DEF ClosedByDeath
      <3>2. CallerReply[c] = Pending
        <4>1. reply[c] = Closed
          BY <2>2, <1>1 DEF TypeOK, Pending, Err
        <4> QED BY <4>1 DEF CallerReply
      <3>3. CallerStatus' = [CallerStatus EXCEPT ![c] = "panicked"] /\ CallerStatus[c] = "called"
        BY <2>1, <2>2, <1>3, <1>4
      <3>4. Atomic!Return(c)
        BY <2>1, <3>1, <3>2, <3>3, <1>2, SameWords DEF Atomic!Return, AllParked
      <3> QED BY <3>4
    <2>3. CASE reply[c].is # "closed"
      <3>1. CallerReply[c] # Pending
        BY <2>1, <2>3 DEF CallerReply, Closed, Pending
      <3>2. CallerStatus' = [CallerStatus EXCEPT ![c] = "returned"] /\ CallerStatus[c] = "called"
        BY <2>1, <2>3, <1>3, <1>4
      <3>3. Atomic!Return(c)
        BY <2>1, <3>1, <3>2, <1>2, SameWords DEF Atomic!Return, AllParked
      <3> QED BY <3>3
    <2> QED BY <2>2, <2>3
  <1>11. CASE Cancel(c)
    <2>1. InProgress(c) /\ status' = [status EXCEPT ![c] = "cancelled"] /\ UNCHANGED before
      BY <1>11 DEF Cancel
    <2>2. CallerStatus' = [CallerStatus EXCEPT ![c] = "cancelled"] /\ CallerStatus[c] = "called"
      BY <2>1, <1>3, <1>4 DEF InProgress
    <2>3. Atomic!Cancel(c)
      BY <2>1, <2>2, <1>2 DEF Atomic!Cancel, AllParked
    <2> QED BY <2>3
  <1> QED BY <1>5, <1>7, <1>8, <1>9, <1>10, <1>11

\* The end of the task is the death of the store.
LEMMA TaskEndRefines ==
    ASSUME IInv, Stop \/ \E c \in Calls : HandlerPanics(c)
    PROVE  Atomic!Die
  <1>1. /\ UNCHANGED <<status, cmd, before, db, served>>
        /\ task = "running" /\ task' # "running" /\ DropSenders
    BY DEF Stop, HandlerPanics, clientVars
  <1>2. AllParked' = {}
    BY <1>1 DEF AllParked, DropSenders
  <1>3. CallerReply' = CallerReply
    BY <1>1 DEF CallerReply, DropSenders, Closed, Pending
  <1>4. CallerStatus' = CallerStatus
    BY <1>1 DEF CallerStatus, InProgress
  <1> QED BY <1>1, <1>2, <1>3, <1>4 DEF Atomic!Die, AllParked

\* The actor implements the atomic store: every call takes effect at one
\* instant between its beginning and its answer, at most once, in real-time
\* order, and its answer agrees with the contents at that instant (lib.rs:65-162
\* seen from lib.rs:170-312).
THEOREM Refinement == Spec => ImplementsAtomicStore
  <1>1. Init => Atomic!Init
    <2> SUFFICES ASSUME Init PROVE Atomic!Init
      OBVIOUS
    <2>1. CallerStatus = [c \in Calls |-> "idle"]
      BY DEF Init, CallerStatus, InProgress
    <2>2. CallerReply = [c \in Calls |-> Pending]
      BY DEF Init, CallerReply, Closed, Pending
    <2>3. UNION {obligations[k] : k \in Keys} = {}
      BY DEF Init
    <2> QED BY <2>1, <2>2, <2>3, SameWords DEF Init, Atomic!Init
  <1>2. IInv /\ ClosedByDeath /\ [Next]_vars => [Atomic!Next]_(Atomic!vars)
    <2> SUFFICES ASSUME IInv, ClosedByDeath, [Next]_vars
                 PROVE  Atomic!Next \/ UNCHANGED Atomic!vars
      OBVIOUS
    <2>1. ASSUME NEW c \in Calls, Handle(c) PROVE Atomic!Next
      BY <2>1, HandleRefines DEF Atomic!Next
    <2>2. ASSUME NEW c \in Calls,
                 Begin(c) \/ Enqueue(c) \/ SendFails(c) \/ Receive(c) \/ Cancel(c)
          PROVE  Atomic!Next \/ UNCHANGED Atomic!vars
      BY <2>2, ClientRefines DEF Atomic!Next
    <2>3. CASE Stop \/ \E c \in Calls : HandlerPanics(c)
      BY <2>3, TaskEndRefines DEF Atomic!Next
    <2>4. CASE DropHandles \/ UNCHANGED vars
      <3>1. UNCHANGED <<db, obligations, task, status, cmd, reply, before, served>>
        BY <2>4 DEF DropHandles, taskVars, vars
      <3>2. CallerStatus' = CallerStatus /\ CallerReply' = CallerReply
        BY <3>1 DEF CallerStatus, CallerReply, InProgress
      <3> QED BY <3>1, <3>2 DEF Atomic!vars
    <2> QED BY <2>1, <2>2, <2>3, <2>4 DEF Next
  <1> QED BY <1>1, <1>2, Invariance, ClosedInvariance, PTL
          DEF Spec, ImplementsAtomicStore, Atomic!Spec
=============================================================================
