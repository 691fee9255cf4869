------------------------ MODULE ColumnFamiliesProofs ------------------------
(***************************************************************************)
(* Proofs about ColumnFamilies, for every database, set of threads and      *)
(* operations.  The heart is CallsWitness: an operation that holds a handle   *)
(* has witnessed the contents behind it, because they are either those of     *)
(* its name, so that every change is witnessed as it happens, or were dropped *)
(* and are frozen.                                                            *)
(***************************************************************************)
EXTENDS ColumnFamilies, TLAPS

\* The fields of the operations.
LEMMA OperationFields ==
    ASSUME NEW o \in Operations
    PROVE  /\ o.kind # "batch" => o.cf \in Names
           /\ o.kind \in {"get", "contains_key", "get_or_insert", "put"} => o.key \in Keys
           /\ o.kind \in {"get_or_insert", "put"} => o.value \in Values \cup {NoValue}
           /\ o.kind = "get_or_insert" => o.value # NoValue
           /\ o.kind = "batch" => o.entries \in Seq(Entry)
           /\ o.kind \in {"get", "contains_key", "multi_get", "get_or_insert",
                          "put", "clear", "report_metrics", "batch"}
BY OperationsAssumption, NoValueAssumption DEF Operation

\* An answer to a read depends on its own column family only.
LEMMA ReadIsLocal ==
    ASSUME NEW o \in Operations, o.kind \in Readers, NEW v
    PROVE  Right(o, v) = Right(o, Everywhere(v[o.cf]))
<1>1. o.cf \in Names
  BY OperationFields DEF Readers
<1>2. Everywhere(v[o.cf])[o.cf] = v[o.cf]
  BY <1>1 DEF Everywhere
<1> QED BY <1>2 DEF Right, Readers, Given

\* The contents under every name are contents.
LEMMA ViewType ==
    ASSUME TypeOK
    PROVE  View(catalog, data) \in [Names -> Contents]
<1>1. Empty \in Contents
  BY DEF Empty, Contents
<1>2. ASSUME NEW n \in Names
      PROVE  (IF catalog[n] = 0 THEN Empty ELSE data[catalog[n]]) \in Contents
  BY <1>1 DEF TypeOK, Ids
<1> QED BY <1>2 DEF View

\* Applying a batch twice is applying it once.
LEMMA BatchedTwice ==
    ASSUME NEW m \in Contents, NEW es, NEW n
    PROVE  Batched(Batched(m, es, n), es, n) = Batched(m, es, n)
BY DEF Batched

\* A batch leaves the column families it does not name alone.
LEMMA BatchedElsewhere ==
    ASSUME NEW m \in Contents, NEW es, NEW n,
           \A j \in DOMAIN es : es[j].cf # n
    PROVE  Batched(m, es, n) = m
BY DEF Batched, Wins, Contents

\* A batch makes contents of contents.
LEMMA BatchedType ==
    ASSUME NEW m \in Contents, NEW es \in Seq(Entry), NEW n
    PROVE  Batched(m, es, n) \in Contents
<1>1. ASSUME NEW k \in Keys, \E j \in DOMAIN es : Wins(es, j, n, k)
      PROVE  es[CHOOSE j \in DOMAIN es : Wins(es, j, n, k)].value \in Values \cup {NoValue}
  <2>1. PICK i \in DOMAIN es : i = CHOOSE j \in DOMAIN es : Wins(es, j, n, k)
    BY <1>1
  <2>2. es[i] \in Entry
    BY <2>1
  <2> QED BY <2>1, <2>2 DEF Entry
<1> QED BY <1>1 DEF Batched, Contents

-----------------------------------------------------------------------------
\* The initial states.
LEMMA InitInv == Init => IInv
<1> SUFFICES ASSUME Init PROVE IInv
  OBVIOUS
<1>1. Empty \in Contents
  BY DEF Empty, Contents
<1>2. TypeOK
  <2>1. "idle" \in Stages /\ 0 \in 0..MaxIds /\ <<>> \in Seq(Ids)
    BY ColumnFamiliesBounds DEF Stages
  <2>2. DOMAIN answer = Threads /\ DOMAIN witness = Threads
    BY DEF Init
  <2> QED BY <1>1, <2>1, <2>2 DEF Init, TypeOK
<1>3. Handles /\ StagesFit /\ CallsWitness /\ MissingOnlyWhileClearing
  BY DEF Init, Handles, StagesFit, CallsWitness, MissingOnlyWhileClearing, Ids
<1>4. AnswersAreWitnessed
  BY DEF Init, AnswersAreWitnessed, Lost
<1> QED BY <1>2, <1>3, <1>4 DEF IInv

\* A call returns and nothing else changes.
LEMMA FinishStep ==
    ASSUME IInv, NEW t \in Threads, stage[t] # "create", NEW a,
           Finish(t, a), UNCHANGED dbVars, UNCHANGED witness,
           a.is = "ok" => a \in witness[t]
    PROVE  IInv'
<1> USE DEF dbVars, Finish
<1>1. TypeOK'
  <2>1. "idle" \in Stages /\ 0 \in 0..MaxIds /\ <<>> \in Seq(Ids)
    BY ColumnFamiliesBounds DEF Stages
  <2> QED BY <2>1 DEF IInv, TypeOK
<1>2. Handles'
  BY DEF IInv, TypeOK, Handles
<1>3. StagesFit'
  BY DEF IInv, TypeOK, StagesFit
<1>4. CallsWitness'
  <2> SUFFICES ASSUME NEW u \in Threads, stage'[u] # "idle"
               PROVE  CallsWitness!(u)'
    BY DEF CallsWitness
  <2>1. u # t /\ stage[u] # "idle" /\ holding'[u] = holding[u]
    BY DEF IInv, TypeOK
  <2> QED BY <2>1 DEF IInv, CallsWitness
<1>5. AnswersAreWitnessed'
  BY DEF IInv, TypeOK, AnswersAreWitnessed
<1>6. MissingOnlyWhileClearing'
  BY DEF IInv, TypeOK, MissingOnlyWhileClearing
<1> QED BY <1>1, <1>2, <1>3, <1>4, <1>5, <1>6 DEF IInv

\* A call goes on with another stage and nothing else changes.
LEMMA GoOnStep ==
    ASSUME IInv, NEW t \in Threads, stage[t] \notin {"idle", "create"},
           NEW s \in {"get", "put"}, GoOn(t, s), UNCHANGED dbVars, UNCHANGED witness,
           s = "get" => op[t].kind \in Readers,
           s = "put" => op[t].kind = "get_or_insert"
    PROVE  IInv'
<1> USE DEF dbVars, GoOn
<1>1. TypeOK'
  <2>1. s \in Stages /\ 0 \in 0..MaxIds
    BY ColumnFamiliesBounds DEF Stages
  <2> QED BY <2>1 DEF IInv, TypeOK
<1>2. Handles'
  BY DEF IInv, TypeOK, Handles
<1>3. StagesFit'
  BY DEF IInv, TypeOK, StagesFit
<1>4. CallsWitness'
  <2> SUFFICES ASSUME NEW u \in Threads, stage'[u] # "idle"
               PROVE  CallsWitness!(u)'
    BY DEF CallsWitness
  <2>1. stage[u] # "idle" /\ (holding'[u] = holding[u] \/ holding'[u] = 0)
    BY DEF IInv, TypeOK
  <2> QED BY <2>1 DEF IInv, CallsWitness
<1>5. AnswersAreWitnessed'
  BY DEF IInv, TypeOK, AnswersAreWitnessed
<1>6. MissingOnlyWhileClearing'
  BY DEF IInv, TypeOK, MissingOnlyWhileClearing
<1> QED BY <1>1, <1>2, <1>3, <1>4, <1>5, <1>6 DEF IInv

\* A call changes the contents of column families the database has, and returns
\* or goes on to read back what it inserted.
LEMMA DataStep ==
    ASSUME IInv, NEW t \in Threads, stage[t] \notin {"idle", "create"},
           data' \in [Ids -> Contents],
           \A i \in Ids : data'[i] # data[i] => \E n \in Names : catalog[n] = i,
           Witnessed(View(catalog, data')),
           UNCHANGED <<open, opened, catalog, handle, created, broken>>,
           NEW a, a.is = "ok" => a \in Right(op[t], View(catalog, data')),
           \/ Finish(t, a)
           \/ GoOn(t, "reget") /\ op[t].kind = "get_or_insert"
    PROVE  IInv'
<1> USE DEF Finish, GoOn
<1>a. /\ op' = op
      /\ \A u \in Threads : u # t => stage'[u] = stage[u] /\ holding'[u] = holding[u]
                                       /\ answer'[u] = answer[u]
      /\ holding'[t] = 0
      /\ stage'[t] \in {"idle", "reget"}
      /\ answer'[t] \in {answer[t], a}
  BY DEF IInv, TypeOK
<1>b. \A u \in Threads : stage[u] = "idle" => witness'[u] = witness[u]
  BY DEF Witnessed
<1>c. \A u \in Threads : stage[u] # "idle" =>
        witness'[u] = witness[u] \cup Right(op[u], View(catalog, data'))
  BY DEF Witnessed
<1>1. TypeOK'
  <2>1. /\ {"idle", "reget"} \subseteq Stages
        /\ 0 \in 0..MaxIds
        /\ <<>> \in Seq(Ids)
    BY ColumnFamiliesBounds DEF Stages
  <2>2. DOMAIN witness' = Threads
    BY DEF Witnessed
  <2>3. /\ stage' \in [Threads -> Stages]
        /\ holding' \in [Threads -> 0..MaxIds]
        /\ built' \in [Threads -> Seq(Ids)]
        /\ DOMAIN answer' = Threads
    <3>1. CASE Finish(t, a)
      BY <2>1, <3>1 DEF IInv, TypeOK
    <3>2. CASE GoOn(t, "reget")
      BY <2>1, <3>2 DEF IInv, TypeOK
    <3> QED BY <3>1, <3>2
  <2> QED BY <2>2, <2>3, <1>a DEF IInv, TypeOK
<1>2. Handles'
  BY <1>a DEF IInv, TypeOK, Handles
<1>3. StagesFit'
  BY <1>a DEF IInv, TypeOK, StagesFit
<1>4. CallsWitness'
  <2> SUFFICES ASSUME NEW u \in Threads, stage'[u] # "idle"
               PROVE  CallsWitness!(u)'
    BY DEF CallsWitness
  <2>1. stage[u] # "idle" /\ op[u] \in Operations /\ op'[u] = op[u]
    BY <1>a DEF IInv, TypeOK, StagesFit
  <2>2. Right(op[u], View(catalog, data')) \subseteq witness'[u]
    BY <1>c, <2>1
  <2>3. ASSUME holding'[u] # 0
        PROVE  /\ holding[u] = holding'[u]
               /\ holding[u] \in Ids
               /\ holding[u] \leq created
               /\ op[u].kind # "batch"
               /\ holding[u] = catalog[op[u].cf] \/ \A n \in Names : catalog[n] # holding[u]
    <3>1. holding[u] = holding'[u]
      BY <1>a, <2>3
    <3> QED BY <3>1, <2>1, <2>3 DEF IInv, TypeOK, CallsWitness, Ids
  <2>4. ASSUME holding'[u] # 0, op[u].kind \in Readers
        PROVE  Right(op[u], Everywhere(data'[holding[u]])) \subseteq witness'[u]
    <3>1. CASE data'[holding[u]] = data[holding[u]]
      BY <3>1, <2>1, <2>3, <2>4, <1>c DEF IInv, CallsWitness
    <3>2. CASE data'[holding[u]] # data[holding[u]]
      <4>1. holding[u] = catalog[op[u].cf]
        BY <3>2, <2>3, <2>4
      <4>2. open /\ \A x \in Names : handle[x] \in {0, catalog[x]}
        BY <2>1 DEF IInv, Handles, TypeOK
      <4>3. op[u].cf \in Names
        BY <2>1, <2>4, OperationFields DEF Readers
      <4>4. View(catalog, data')[op[u].cf] = data'[holding[u]]
        BY <4>1, <4>2, <4>3, <2>3, <2>4 DEF View
      <4> QED BY <4>4, <2>1, <2>2, <2>4, ReadIsLocal
    <3> QED BY <3>1, <3>2
  <2> QED BY <2>1, <2>2, <2>3, <2>4 DEF CallsWitness
<1>5. AnswersAreWitnessed'
  <2> SUFFICES ASSUME NEW u \in Threads, answer'[u].is = "ok"
               PROVE  answer'[u] \in witness'[u]
    BY DEF AnswersAreWitnessed
  <2>1. witness[u] \subseteq witness'[u]
    BY <1>b, <1>c
  <2>2. CASE answer'[u] = answer[u]
    BY <2>1, <2>2 DEF IInv, AnswersAreWitnessed
  <2>3. CASE u = t /\ answer'[u] = a
    BY <2>3, <1>c
  <2> QED BY <2>2, <2>3, <1>a
<1>6. MissingOnlyWhileClearing'
  BY <1>a DEF IInv, TypeOK, MissingOnlyWhileClearing
<1> QED BY <1>1, <1>2, <1>3, <1>4, <1>5, <1>6 DEF IInv

-----------------------------------------------------------------------------
\* What a thread that holds a handle reads is a right answer it has witnessed.
LEMMA ReadIsWitnessed ==
    ASSUME IInv, NEW t \in Threads, stage[t] # "idle", holding[t] # 0,
           op[t].kind \in Readers
    PROVE  /\ op[t] \in Operations /\ op[t].cf \in Names
           /\ Right(op[t], Everywhere(data[holding[t]])) \subseteq witness[t]
           /\ Everywhere(data[holding[t]])[op[t].cf] = data[holding[t]]
<1>1. op[t] \in Operations
  BY DEF IInv, StagesFit
<1>2. op[t].cf \in Names
  BY <1>1, OperationFields DEF Readers
<1> QED BY <1>1, <1>2 DEF IInv, CallsWitness, Everywhere

\* The probe of contains_key.
LEMMA KeyMayExistInv ==
    ASSUME IInv, NEW t \in Threads, KeyMayExist(t) PROVE IInv'
<1>1. op[t].kind = "contains_key" /\ stage[t] = "probe" /\ op[t].kind \in Readers
  BY DEF KeyMayExist, IInv, StagesFit, Readers
<1>2. CASE data[holding[t]][op[t].key] = NoValue /\ Finish(t, Ok(FALSE))
  <2>1. Ok(FALSE) \in witness[t]
    BY <1>1, <1>2, ReadIsWitnessed DEF KeyMayExist, Right, Given
  <2> QED BY <1>1, <1>2, <2>1, FinishStep DEF KeyMayExist
<1>3. CASE GoOn(t, "get")
  BY <1>1, <1>3, GoOnStep DEF KeyMayExist
<1> QED BY <1>2, <1>3 DEF KeyMayExist

\* The read of get, contains_key, multi_get and get_or_insert_unsafe.
LEMMA GetCfInv ==
    ASSUME IInv, NEW t \in Threads, GetCf(t) PROVE IInv'
<1> DEFINE m == data[holding[t]]
<1>1. /\ stage[t] = "get" /\ op[t].kind \in Readers /\ holding[t] # 0
      /\ UNCHANGED dbVars /\ UNCHANGED witness
  BY DEF GetCf, IInv, StagesFit
<1>2. Right(op[t], Everywhere(m)) \subseteq witness[t]
  BY <1>1, ReadIsWitnessed
<1>3. Everywhere(m)[op[t].cf] = m
  BY <1>1, ReadIsWitnessed
<1>4. CASE op[t].kind = "get" /\ Finish(t, Ok(Get(m, op[t].key)))
  <2>1. Ok(Get(m, op[t].key)) \in witness[t]
    BY <1>2, <1>3, <1>4 DEF Right, Given, Get
  <2> QED BY <1>1, <1>4, <2>1, FinishStep
<1>5. CASE op[t].kind = "contains_key" /\ Finish(t, Ok(Get(m, op[t].key) # NoValue))
  <2>1. Ok(Get(m, op[t].key) # NoValue) \in witness[t]
    BY <1>2, <1>3, <1>5 DEF Right, Given, Get
  <2> QED BY <1>1, <1>5, <2>1, FinishStep
<1>6. CASE op[t].kind = "multi_get" /\ Finish(t, Ok(MultiGet(m, op[t].keys)))
  <2>1. Ok(MultiGet(m, op[t].keys)) \in witness[t]
    BY <1>2, <1>3, <1>6 DEF Right, Given
  <2> QED BY <1>1, <1>6, <2>1, FinishStep
<1>7. CASE op[t].kind = "get_or_insert" /\ Get(m, op[t].key) = NoValue /\ GoOn(t, "put")
  BY <1>1, <1>7, GoOnStep
<1>8. CASE /\ op[t].kind = "get_or_insert" /\ Get(m, op[t].key) # NoValue
           /\ Finish(t, Ok(Get(m, op[t].key)))
  <2>1. Ok(Get(m, op[t].key)) \in witness[t]
    BY <1>2, <1>3, <1>8 DEF Right, Given, Get
  <2> QED BY <1>1, <1>8, <2>1, FinishStep
<1> QED BY <1>4, <1>5, <1>6, <1>7, <1>8 DEF GetCf

\* get_or_insert_unsafe reads its default back.
LEMMA ReGetInv ==
    ASSUME IInv, NEW t \in Threads, ReGet(t) PROVE IInv'
<1> DEFINE v == Get(data[holding[t]], op[t].key)
           a == IF v = NoValue THEN NoDefault ELSE Ok(v)
<1>1. /\ stage[t] = "reget" /\ op[t].kind = "get_or_insert" /\ holding[t] # 0
      /\ Finish(t, a) /\ UNCHANGED dbVars /\ UNCHANGED witness
  BY DEF ReGet, IInv, StagesFit
<1>2. a.is = "ok" => a \in witness[t]
  <2>1. CASE v = NoValue
    BY <2>1 DEF NoDefault
  <2>2. CASE v # NoValue
    <3>1. /\ Right(op[t], Everywhere(data[holding[t]])) \subseteq witness[t]
          /\ Everywhere(data[holding[t]])[op[t].cf] = data[holding[t]]
      BY <1>1, ReadIsWitnessed DEF Readers
    <3> QED BY <1>1, <2>2, <3>1 DEF Right, Given, Get
  <2> QED BY <2>1, <2>2
<1> QED BY <1>1, <1>2, FinishStep

\* A lookup finds its handle: the contents behind it are the present ones.
LEMMA LookUpInv ==
    ASSUME IInv, NEW t \in Threads, LookUp(t) PROVE IInv'
<1> USE DEF LookUp, dbVars
<1>1. /\ stage[t] \notin {"idle", "build"} /\ op[t] \in Operations
      /\ op[t].kind # "batch" /\ op[t].cf \in Names
  BY OperationFields DEF NeedsHandle, IInv, StagesFit, Readers
<1>2. open /\ \A x \in Names : handle[x] \in {0, catalog[x]}
  BY <1>1 DEF IInv, Handles, TypeOK
<1>3. TypeOK'
  BY <1>1 DEF IInv, TypeOK
<1>4. Handles' /\ StagesFit' /\ AnswersAreWitnessed' /\ MissingOnlyWhileClearing'
  BY <1>1 DEF IInv, TypeOK, Handles, StagesFit, AnswersAreWitnessed,
     MissingOnlyWhileClearing
<1>5. CallsWitness'
  <2> SUFFICES ASSUME NEW u \in Threads, stage[u] # "idle"
               PROVE  CallsWitness!(u)'
    BY DEF CallsWitness
  <2>1. CASE u # t
    <3>1. holding'[u] = holding[u]
      BY <2>1 DEF IInv, TypeOK
    <3> QED BY <3>1 DEF IInv, CallsWitness
  <2>2. CASE u = t
    <3>1. holding'[t] = catalog[op[t].cf] /\ holding'[t] # 0
      BY <1>1, <1>2 DEF IInv, TypeOK
    <3>2. View(catalog, data)[op[t].cf] = data[holding'[t]]
      BY <3>1, <1>1, <1>2 DEF View
    <3>3. op[t].kind \in Readers =>
            Right(op[t], Everywhere(data[holding'[t]])) \subseteq witness[t]
      BY <3>2, <1>1, ReadIsLocal, <2>2 DEF IInv, CallsWitness
    <3>4. holding'[t] \leq created
      BY <3>1, <1>1 DEF IInv, Handles
    <3> QED BY <2>2, <3>1, <3>3, <3>4, <1>1 DEF IInv, CallsWitness
  <2> QED BY <2>1, <2>2
<1> QED BY <1>3, <1>4, <1>5 DEF IInv

\* Steps that end a call with an error or a panic.
LEMMA FailureInv ==
    ASSUME IInv, NEW t \in Threads,
           LookUpPanics(t) \/ RocksDbFails(t) \/ ReportMetrics(t)
    PROVE  IInv'
<1>1. CASE LookUpPanics(t)
  BY <1>1, FinishStep DEF LookUpPanics, NeedsHandle, NoCf
<1>2. CASE RocksDbFails(t)
  BY <1>2, FinishStep DEF RocksDbFails, Err
<1>3. CASE ReportMetrics(t)
  <2>1. stage[t] = "report" /\ op[t].kind = "report_metrics"
    BY <1>3 DEF ReportMetrics, IInv, StagesFit
  <2>2. Ok(NoValue) \in witness[t]
    BY <2>1 DEF IInv, CallsWitness, Right, Given
  <2> QED BY <1>3, <2>1, <2>2, FinishStep DEF ReportMetrics
<1> QED BY <1>1, <1>2, <1>3

\* A put or a delete, through a current or a stale handle.
LEMMA PutCfInv ==
    ASSUME IInv, NEW t \in Threads, PutCf(t) PROVE IInv'
<1>1. /\ stage[t] = "put" /\ op[t] \in Operations
      /\ op[t].kind \in {"put", "get_or_insert"}
      /\ op[t].cf \in Names /\ op[t].key \in Keys /\ op[t].value \in Values \cup {NoValue}
      /\ holding[t] \in Ids
  BY OperationFields DEF PutCf, IInv, StagesFit, TypeOK, Ids
<1>2. open /\ \A x \in Names : handle[x] \in {0, catalog[x]}
  BY <1>1 DEF IInv, Handles, TypeOK
<1>3. CASE ~Current(t)
  BY <1>1, <1>3, FinishStep DEF PutCf, dbVars, Err
<1>4. CASE Current(t)
  <2> DEFINE m == Insert(data[holding[t]], op[t].key, op[t].value)
  <2>1. data' = [data EXCEPT ![holding[t]] = m]
    BY <1>4 DEF PutCf
  <2>2. m \in Contents /\ m[op[t].key] = op[t].value
    BY <1>1 DEF IInv, TypeOK, Contents, Insert
  <2>3. data' \in [Ids -> Contents] /\ data'[holding[t]] = m
    BY <1>1, <2>1, <2>2 DEF IInv, TypeOK
  <2>4. \A i \in Ids : data'[i] # data[i] => catalog[op[t].cf] = i
    BY <1>1, <1>4, <2>1 DEF Current, IInv, TypeOK
  <2>5. View(catalog, data')[op[t].cf] = m
    BY <1>1, <1>2, <1>4, <2>3 DEF View, Current, Ids
  <2>6. op[t].kind = "put" => Ok(NoValue) \in Right(op[t], View(catalog, data'))
    BY <2>2, <2>5 DEF Right, Given
  <2>7. /\ Witnessed(View(catalog, data'))
        /\ UNCHANGED <<open, opened, catalog, handle, created, broken>>
        /\ \/ op[t].kind = "get_or_insert" /\ GoOn(t, "reget")
           \/ op[t].kind # "get_or_insert" /\ Finish(t, Ok(NoValue))
    BY <1>4 DEF PutCf
  <2>8. CASE op[t].kind = "get_or_insert"
    <3>1. Err.is # "ok"
      BY DEF Err
    <3> QED BY <1>1, <2>3, <2>4, <2>7, <2>8, <3>1, DataStep
  <2>9. CASE op[t].kind = "put"
    BY <1>1, <2>3, <2>4, <2>6, <2>7, <2>9, DataStep
  <2> QED BY <1>1, <2>8, <2>9
<1> QED BY <1>3, <1>4

\* An entry is added to a batch.
LEMMA AddEntryInv ==
    ASSUME IInv, NEW t \in Threads, AddEntry(t) PROVE IInv'
<1>1. stage[t] = "build" /\ op[t].kind = "batch" /\ op[t].entries \in Seq(Entry)
  BY OperationFields DEF AddEntry, MoreEntries, IInv, StagesFit
<1>2. CASE Finish(t, Err) \/ Finish(t, NoCf)
  BY <1>1, <1>2, FinishStep DEF AddEntry, Err, NoCf
<1>3. CASE /\ handle[NextEntry(t).cf] # 0
           /\ built' = [built EXCEPT ![t] = Append(@, handle[NextEntry(t).cf])]
           /\ UNCHANGED <<op, stage, holding, answer>>
  <2>1. NextEntry(t) \in Entry
    <3>1. Len(built[t]) + 1 \in 1..Len(op[t].entries)
      BY <1>1 DEF AddEntry, MoreEntries, IInv, TypeOK
    <3> QED BY <1>1, <3>1 DEF NextEntry
  <2>2. handle[NextEntry(t).cf] \in Ids
    BY <1>3, <2>1 DEF Entry, IInv, TypeOK, Ids
  <2>3. built' \in [Threads -> Seq(Ids)]
    BY <1>3, <2>2 DEF IInv, TypeOK
  <2>4. TypeOK'
    BY <1>3, <2>3 DEF AddEntry, dbVars, IInv, TypeOK
  <2>5. Handles' /\ StagesFit' /\ CallsWitness' /\ AnswersAreWitnessed'
          /\ MissingOnlyWhileClearing'
    BY <1>3 DEF AddEntry, dbVars, IInv, Handles, StagesFit, CallsWitness,
       AnswersAreWitnessed, MissingOnlyWhileClearing
  <2> QED BY <2>4, <2>5 DEF IInv
<1> QED BY <1>2, <1>3 DEF AddEntry

\* A batch that is written takes effect under every name at once.
LEMMA WriteBatchView ==
    ASSUME IInv, NEW t \in Threads, WriteBatch(t), NEW n \in Names,
           \A j \in DOMAIN op[t].entries : built[t][j] = catalog[op[t].entries[j].cf]
    PROVE  View(catalog, data')[n] = Batched(View(catalog, data)[n], op[t].entries, n)
<1> DEFINE es == op[t].entries
           Owner(i) == CHOOSE x \in Names : catalog[x] = i
<1>1. stage[t] = "build" /\ op[t].kind = "batch" /\ es \in Seq(Entry)
  BY OperationFields DEF WriteBatch, IInv, StagesFit
<1>2. data' = [i \in Ids |-> IF \E x \in Names : catalog[x] = i
                             THEN Batched(data[i], es, Owner(i)) ELSE data[i]]
  BY DEF WriteBatch
<1>3. CASE catalog[n] = 0
  <2>1. ASSUME NEW j \in DOMAIN es PROVE built[t][j] # 0
    <3>1. built[t] \in Seq(Ids) /\ Len(built[t]) = Len(es)
      BY DEF WriteBatch, IInv, TypeOK
    <3>2. j \in 1..Len(built[t])
      BY <1>1, <3>1
    <3>3. built[t][j] \in Ids
      BY <3>1, <3>2
    <3> QED BY <3>3, ColumnFamiliesBounds DEF Ids
  <2>2. \A j \in DOMAIN es : es[j].cf # n
    BY <2>1, <1>3
  <2>3. Empty \in Contents
    BY DEF Empty, Contents
  <2> QED BY <1>3, <2>2, <2>3, BatchedElsewhere DEF View
<1>4. CASE catalog[n] # 0
  <2>1. catalog[n] \in Ids
    BY <1>4 DEF IInv, TypeOK, Ids
  <2>2. Owner(catalog[n]) = n
    BY <2>1, <1>4 DEF IInv, Handles
  <2>3. data'[catalog[n]] = Batched(data[catalog[n]], es, Owner(catalog[n]))
    <3> HIDE DEF Owner
    <3> QED BY <2>1, <1>2
  <2> HIDE DEF Owner
  <2> QED BY <1>4, <2>2, <2>3 DEF View
<1> QED BY <1>3, <1>4

\* A batch is written.
LEMMA WriteBatchInv ==
    ASSUME IInv, NEW t \in Threads, WriteBatch(t) PROVE IInv'
<1> DEFINE es == op[t].entries
           Owner(i) == CHOOSE n \in Names : catalog[n] = i
<1>1. stage[t] = "build" /\ op[t].kind = "batch" /\ es \in Seq(Entry)
  BY OperationFields DEF WriteBatch, IInv, StagesFit
<1>2. open /\ \A x \in Names : handle[x] \in {0, catalog[x]}
  BY <1>1 DEF IInv, Handles, TypeOK
<1>3. CASE Finish(t, Err) /\ UNCHANGED <<data, witness>>
  BY <1>1, <1>3, FinishStep DEF WriteBatch, dbVars, Err
<1>4. CASE /\ \A j \in DOMAIN es : built[t][j] = catalog[es[j].cf]
           /\ data' = [i \in Ids |-> IF \E n \in Names : catalog[n] = i
                                     THEN Batched(data[i], es, Owner(i)) ELSE data[i]]
           /\ Witnessed(View(catalog, data'))
           /\ Finish(t, Ok(NoValue))
  <2>1. data' \in [Ids -> Contents]
    <3>1. ASSUME NEW i \in Ids
          PROVE  Batched(data[i], es, Owner(i)) \in Contents
      <4>1. data[i] \in Contents
        BY DEF IInv, TypeOK
      <4> QED BY <1>1, <4>1, BatchedType
    <3> QED BY <1>4, <3>1 DEF IInv, TypeOK
  <2>2. \A i \in Ids : data'[i] # data[i] => \E n \in Names : catalog[n] = i
    BY <1>4
  <2>3. ASSUME NEW n \in Names
        PROVE  View(catalog, data')[n] = Batched(View(catalog, data')[n], es, n)
    <3>1. View(catalog, data')[n] = Batched(View(catalog, data)[n], es, n)
      BY <1>4, WriteBatchView
    <3>2. View(catalog, data)[n] \in Contents
      BY ViewType DEF IInv
    <3> QED BY <3>1, <3>2, BatchedTwice
  <2>4. Ok(NoValue) \in Right(op[t], View(catalog, data'))
    BY <1>1, <2>3 DEF Right, Given
  <2>5. UNCHANGED <<open, opened, catalog, handle, created, broken>>
    BY DEF WriteBatch
  <2> QED BY <1>1, <1>4, <2>1, <2>2, <2>4, <2>5, DataStep
<1> QED BY <1>3, <1>4 DEF WriteBatch

\* A call begins.
LEMMA BeginInv ==
    ASSUME IInv, NEW t \in Threads, Begin(t) PROVE IInv'
<1> USE DEF Begin, dbVars
<1>1. PICK o \in Operations :
        /\ op' = [op EXCEPT ![t] = o]
        /\ stage' = [stage EXCEPT ![t] = FirstStage(o)]
        /\ witness' = [witness EXCEPT ![t] = Right(o, View(catalog, data))]
  OBVIOUS
<1>2. /\ FirstStage(o) \in Stages \ {"idle", "reget", "create"}
      /\ FirstStage(o) = "probe" => o.kind = "contains_key"
      /\ FirstStage(o) = "get" => o.kind \in Readers
      /\ FirstStage(o) = "put" => o.kind = "put"
      /\ FirstStage(o) = "report" => o.kind = "report_metrics"
      /\ FirstStage(o) = "drop" => o.kind = "clear"
      /\ FirstStage(o) = "build" => o.kind = "batch"
  BY OperationFields DEF FirstStage, Stages, Readers
<1>3. TypeOK'
  BY <1>1, <1>2 DEF IInv, TypeOK
<1>4. Handles'
  BY <1>1 DEF IInv, TypeOK, Handles
<1>5. StagesFit'
  BY <1>1, <1>2 DEF IInv, TypeOK, StagesFit
<1>6. CallsWitness'
  <2> SUFFICES ASSUME NEW u \in Threads, stage'[u] # "idle"
               PROVE  CallsWitness!(u)'
    BY DEF CallsWitness
  <2>1. CASE u = t
    BY <2>1, <1>1 DEF IInv, TypeOK, StagesFit
  <2>2. CASE u # t
    <3>1. stage'[u] = stage[u] /\ op'[u] = op[u] /\ witness'[u] = witness[u]
      BY <2>2, <1>1 DEF IInv, TypeOK
    <3> QED BY <3>1 DEF IInv, CallsWitness
  <2> QED BY <2>1, <2>2
<1>7. AnswersAreWitnessed'
  <2> SUFFICES ASSUME NEW u \in Threads, answer'[u].is = "ok"
               PROVE  answer'[u] \in witness'[u]
    BY DEF AnswersAreWitnessed
  <2>1. u # t
    BY DEF Lost, IInv, TypeOK
  <2> QED BY <2>1, <1>1 DEF IInv, TypeOK, AnswersAreWitnessed
<1>8. MissingOnlyWhileClearing'
  BY <1>1 DEF IInv, TypeOK, MissingOnlyWhileClearing
<1> QED BY <1>3, <1>4, <1>5, <1>6, <1>7, <1>8 DEF IInv

\* clear drops the column family: handles to it become stale.
LEMMA DropCfInv ==
    ASSUME IInv, NEW t \in Threads, DropCf(t) PROVE IInv'
<1> DEFINE n == op[t].cf
<1>1. /\ stage[t] = "drop" /\ op[t] \in Operations /\ op[t].kind = "clear" /\ n \in Names
      /\ GoOn(t, "create")
      /\ UNCHANGED <<open, opened, data, created, broken>>
  BY OperationFields DEF DropCf, IInv, StagesFit
<1>2. open /\ \A x \in Names : handle[x] \in {0, catalog[x]}
  BY <1>1 DEF IInv, Handles, TypeOK
<1>3. /\ op' = op /\ answer' = answer
      /\ \A u \in Threads : u # t => stage'[u] = stage[u] /\ holding'[u] = holding[u]
      /\ holding'[t] = 0 /\ stage'[t] = "create"
  BY <1>1 DEF GoOn, IInv, TypeOK
<1>4. stage' \in [Threads -> Stages] /\ holding' \in [Threads -> 0..MaxIds] /\ built' = built
  <2>1. "create" \in Stages /\ 0 \in 0..MaxIds
    BY ColumnFamiliesBounds DEF Stages
  <2> QED BY <1>1, <2>1 DEF GoOn, IInv, TypeOK
<1>5. StagesFit'
  BY <1>1, <1>3 DEF IInv, StagesFit
<1>6. /\ catalog' \in [Names -> 0..MaxIds]
      /\ handle' = [handle EXCEPT ![n] = 0] /\ handle' \in [Names -> 0..MaxIds]
      /\ \A x \in Names : catalog'[x] \in {0, catalog[x]}
      /\ \A x \in Names : x # n => catalog'[x] = catalog[x]
  <2>1. 0 \in 0..MaxIds
    BY ColumnFamiliesBounds
  <2> QED BY <1>1, <1>2, <2>1 DEF DropCf, IInv, TypeOK
<1>7. /\ DOMAIN witness' = Threads
      /\ \A u \in Threads : witness[u] \subseteq witness'[u]
      /\ \A u \in Threads : stage[u] # "idle" =>
           Right(op[u], View(catalog', data)) \subseteq witness'[u]
  <2>1. CASE Witnessed(View(catalog', data))
    BY <2>1 DEF Witnessed
  <2>2. CASE UNCHANGED <<catalog, witness>>
    BY <2>2 DEF IInv, TypeOK, CallsWitness
  <2> QED BY <2>1, <2>2 DEF DropCf
<1>8. TypeOK'
  BY <1>1, <1>3, <1>4, <1>6, <1>7 DEF IInv, TypeOK
<1>9. Handles'
  <2>1. ASSUME NEW x \in Names PROVE catalog'[x] \leq created
    <3>1. created \in Nat /\ catalog[x] \leq created
      BY ColumnFamiliesBounds DEF IInv, Handles, TypeOK
    <3> QED BY <3>1, <1>6
  <2>2. \A x, y \in Names : catalog'[x] # 0 /\ catalog'[x] = catalog'[y] => x = y
    BY <1>6 DEF IInv, Handles, TypeOK
  <2> QED BY <1>1, <1>2, <1>6, <2>1, <2>2 DEF IInv, Handles
<1>10. CallsWitness'
  <2> SUFFICES ASSUME NEW u \in Threads, stage'[u] # "idle"
               PROVE  CallsWitness!(u)'
    BY DEF CallsWitness
  <2>1. stage[u] # "idle" /\ op'[u] = op[u]
    BY <1>1, <1>3
  <2>2. Right(op'[u], View(catalog', data')) \subseteq witness'[u]
    BY <2>1, <1>1, <1>7
  <2>3. ASSUME holding'[u] # 0
        PROVE  /\ holding'[u] \leq created'
               /\ op'[u].kind # "batch"
               /\ op'[u].kind \in Readers =>
                    Right(op'[u], Everywhere(data'[holding'[u]])) \subseteq witness'[u]
    <3>1. holding'[u] = holding[u]
      BY <2>3, <1>3
    <3> QED BY <3>1, <2>3, <2>1, <1>1, <1>7 DEF IInv, CallsWitness
  <2>4. ASSUME holding'[u] # 0
        PROVE  \/ holding'[u] = catalog'[op'[u].cf]
               \/ \A x \in Names : catalog'[x] # holding'[u]
    <3>1. /\ holding'[u] = holding[u]
          /\ holding[u] = catalog[op[u].cf] \/ \A x \in Names : catalog[x] # holding[u]
          /\ op[u].kind # "batch" /\ op[u].cf \in Names
      BY <2>4, <2>1, <1>3, OperationFields DEF IInv, CallsWitness, StagesFit
    <3>2. CASE catalog'[op[u].cf] = catalog[op[u].cf]
      BY <3>1, <3>2, <2>1, <2>4, <1>6
    <3>3. CASE catalog'[op[u].cf] = 0 /\ holding[u] = catalog[op[u].cf]
      BY <3>1, <3>3, <2>1, <2>4, <1>6 DEF IInv, Handles
    <3> QED BY <3>1, <3>2, <3>3, <2>4, <1>6
  <2> QED BY <2>2, <2>3, <2>4
<1>11. AnswersAreWitnessed'
  BY <1>3, <1>7 DEF IInv, AnswersAreWitnessed
<1>12. MissingOnlyWhileClearing'
  <2> SUFFICES ASSUME NEW x \in opened, handle'[x] = 0, x \notin broken
               PROVE  \E u \in Threads : stage'[u] = "create" /\ op'[u].cf = x
    BY <1>1 DEF MissingOnlyWhileClearing
  <2>1. CASE x = n
    BY <2>1, <1>3
  <2>2. CASE x # n
    <3>1. x \in Names /\ handle[x] = 0
      BY <2>2, <1>2, <1>6 DEF IInv, TypeOK
    <3>2. PICK u \in Threads : stage[u] = "create" /\ op[u].cf = x
      BY <3>1, <1>2 DEF IInv, MissingOnlyWhileClearing
    <3> QED BY <3>2, <1>1, <1>3
  <2> QED BY <2>1, <2>2
<1> QED BY <1>5, <1>8, <1>9, <1>10, <1>11, <1>12 DEF IInv

\* clear creates the new column family, on a fresh id.
LEMMA CreateCfInv ==
    ASSUME IInv, NEW t \in Threads, CreateCf(t) PROVE IInv'
<1> DEFINE n == op[t].cf
           new == created + 1
<1>1. /\ stage[t] = "create" /\ op[t] \in Operations /\ op[t].kind = "clear" /\ n \in Names
      /\ UNCHANGED <<open, opened, data>>
  BY OperationFields DEF CreateCf, IInv, StagesFit
<1>2. open /\ \A x \in Names : handle[x] \in {0, catalog[x]}
  BY <1>1 DEF IInv, Handles, TypeOK
<1>3. \E a : Finish(t, a)
  BY DEF CreateCf
<1>4. /\ op' = op
      /\ \A u \in Threads : u # t => stage'[u] = stage[u] /\ holding'[u] = holding[u]
                                       /\ answer'[u] = answer[u]
      /\ holding'[t] = 0 /\ stage'[t] = "idle"
  BY <1>3 DEF Finish, IInv, TypeOK
<1>5. /\ stage' \in [Threads -> Stages] /\ holding' \in [Threads -> 0..MaxIds]
      /\ built' \in [Threads -> Seq(Ids)] /\ DOMAIN answer' = Threads
  <2>1. "idle" \in Stages /\ 0 \in 0..MaxIds /\ <<>> \in Seq(Ids)
    BY ColumnFamiliesBounds DEF Stages
  <2> QED BY <1>3, <2>1 DEF Finish, IInv, TypeOK
<1>6. StagesFit'
  BY <1>4 DEF IInv, StagesFit
<1>7. CASE /\ catalog[n] # 0 \/ MayFail
           /\ Finish(t, Err)
           /\ broken' = IF handle[n] = 0 THEN broken \cup {n} ELSE broken
           /\ UNCHANGED <<catalog, handle, created, witness>>
  <2>1. TypeOK'
    BY <1>1, <1>4, <1>5, <1>7 DEF IInv, TypeOK
  <2>2. Handles'
    BY <1>1, <1>2, <1>7 DEF IInv, Handles
  <2>3. CallsWitness'
    <3> SUFFICES ASSUME NEW u \in Threads, stage'[u] # "idle"
                 PROVE  CallsWitness!(u)'
      BY DEF CallsWitness
    <3>1. u # t /\ stage[u] # "idle" /\ holding'[u] = holding[u]
      BY <1>4
    <3> QED BY <3>1, <1>1, <1>4, <1>7 DEF IInv, CallsWitness
  <2>4. AnswersAreWitnessed'
    BY <1>4, <1>7 DEF IInv, TypeOK, AnswersAreWitnessed, Finish, Err
  <2>5. MissingOnlyWhileClearing'
    BY <1>1, <1>2, <1>4, <1>7 DEF IInv, MissingOnlyWhileClearing
  <2> QED BY <1>6, <2>1, <2>2, <2>3, <2>4, <2>5 DEF IInv
<1>8. CASE /\ catalog[n] = 0
           /\ created < MaxIds
           /\ created' = created + 1
           /\ catalog' = [catalog EXCEPT ![n] = created + 1]
           /\ handle' = [handle EXCEPT ![n] = created + 1]
           /\ broken' = broken \ {n}
           /\ Witnessed(View(catalog', data))
           /\ Finish(t, Ok(NoValue))
  <2>1. /\ created \in Nat /\ new \in Ids /\ new \in 0..MaxIds
        /\ \A x \in Names : catalog[x] \in Nat /\ catalog[x] \leq created
    BY <1>8, ColumnFamiliesBounds DEF IInv, TypeOK, Handles, Ids
  <2>2. /\ catalog' \in [Names -> 0..MaxIds] /\ handle' \in [Names -> 0..MaxIds]
        /\ catalog'[n] = new /\ handle'[n] = new
        /\ \A x \in Names : x # n => handle'[x] = handle[x]
        /\ \A x \in Names : x # n => catalog'[x] = catalog[x]
    BY <1>1, <1>2, <1>8, <2>1 DEF IInv, TypeOK
  <2>3. data[new] = Empty
    BY <2>1 DEF IInv, Handles
  <2>4. /\ DOMAIN witness' = Threads
        /\ \A u \in Threads : witness[u] \subseteq witness'[u]
        /\ \A u \in Threads : stage[u] # "idle" =>
             Right(op[u], View(catalog', data)) \subseteq witness'[u]
    BY <1>8 DEF Witnessed
  <2>5. TypeOK'
    BY <1>1, <1>4, <1>5, <1>8, <2>1, <2>2, <2>4 DEF IInv, TypeOK
  <2>6. Handles'
    <3>1. ASSUME NEW x \in Names PROVE catalog'[x] \leq created'
      BY <1>8, <2>1, <2>2
    <3>2. ASSUME NEW x \in Names, NEW y \in Names, catalog'[x] # 0, catalog'[x] = catalog'[y]
          PROVE  x = y
      BY <3>2, <2>1, <2>2 DEF IInv, Handles
    <3>3. ASSUME NEW i \in Ids, i > created' PROVE data'[i] = Empty
      BY <3>3, <1>1, <1>8, <2>1 DEF IInv, Handles, Ids
    <3> QED BY <3>1, <3>2, <3>3, <1>1, <1>2, <2>2 DEF Handles
  <2>7. CallsWitness'
    <3> SUFFICES ASSUME NEW u \in Threads, stage'[u] # "idle"
                 PROVE  CallsWitness!(u)'
      BY DEF CallsWitness
    <3>1. u # t /\ stage[u] # "idle" /\ holding'[u] = holding[u] /\ op'[u] = op[u]
      BY <1>4
    <3>2. ASSUME holding[u] # 0
          PROVE  /\ holding[u] \leq created' /\ op[u].kind # "batch"
                 /\ \/ holding[u] = catalog'[op[u].cf]
                    \/ \A x \in Names : catalog'[x] # holding[u]
                 /\ op[u].kind \in Readers =>
                      Right(op[u], Everywhere(data[holding[u]])) \subseteq witness'[u]
      <4>1. /\ holding[u] \in Nat /\ holding[u] \leq created /\ op[u].kind # "batch"
            /\ holding[u] = catalog[op[u].cf] \/ \A x \in Names : catalog[x] # holding[u]
            /\ op[u].kind \in Readers =>
                 Right(op[u], Everywhere(data[holding[u]])) \subseteq witness[u]
        BY <3>1, <3>2 DEF IInv, TypeOK, CallsWitness
      <4>2. op[u].cf \in Names
        BY <3>1, <4>1, OperationFields DEF IInv, StagesFit
      <4>3. holding[u] # new
        BY <4>1, <2>1
      <4>4. \/ holding[u] = catalog'[op[u].cf]
            \/ \A x \in Names : catalog'[x] # holding[u]
        <5>1. CASE holding[u] = catalog[op[u].cf]
          BY <5>1, <3>2, <4>2, <1>8, <2>2
        <5>2. CASE \A x \in Names : catalog[x] # holding[u]
          BY <5>2, <4>3, <2>2
        <5> QED BY <4>1, <5>1, <5>2
      <4> QED BY <4>1, <4>4, <1>8, <2>1, <2>4
    <3> QED BY <3>1, <3>2, <2>4, <1>1
  <2>8. AnswersAreWitnessed'
    <3>1. Ok(NoValue) \in witness'[t]
      <4>1. View(catalog', data)[n] = Empty
        BY <1>1, <2>2, <2>3 DEF View
      <4> QED BY <4>1, <1>1, <2>4 DEF Right, Given
    <3>2. answer'[t] = Ok(NoValue)
      BY <1>8 DEF Finish, IInv, TypeOK
    <3> QED BY <3>1, <3>2, <1>4, <2>4 DEF IInv, AnswersAreWitnessed
  <2>9. MissingOnlyWhileClearing'
    <3> SUFFICES ASSUME NEW x \in opened, handle'[x] = 0, x \notin broken'
                 PROVE  \E u \in Threads : stage'[u] = "create" /\ op'[u].cf = x
      BY <1>1 DEF MissingOnlyWhileClearing
    <3>1. x # n /\ handle[x] = 0 /\ x \notin broken
      BY <1>2, <1>8, <2>1, <2>2 DEF IInv, TypeOK
    <3>2. PICK u \in Threads : stage[u] = "create" /\ op[u].cf = x
      BY <3>1, <1>2 DEF IInv, MissingOnlyWhileClearing
    <3> QED BY <3>1, <3>2, <1>4
  <2> QED BY <1>6, <2>5, <2>6, <2>7, <2>8, <2>9 DEF IInv
<1> QED BY <1>7, <1>8 DEF CreateCf

\* The process ends.
LEMMA ProcessEndsInv ==
    ASSUME IInv, ProcessEnds PROVE IInv'
<1> USE DEF ProcessEnds
<1>1. TypeOK'
  <2>1. "idle" \in Stages /\ 0 \in 0..MaxIds /\ <<>> \in Seq(Ids)
    BY ColumnFamiliesBounds DEF Stages
  <2>2. DOMAIN answer' = Threads
    OBVIOUS
  <2> QED BY <2>1, <2>2 DEF IInv, TypeOK
<1>2. Handles' /\ StagesFit' /\ CallsWitness' /\ MissingOnlyWhileClearing'
  BY DEF IInv, Handles, StagesFit, CallsWitness, MissingOnlyWhileClearing
<1>3. AnswersAreWitnessed'
  BY DEF IInv, AnswersAreWitnessed, Lost
<1> QED BY <1>1, <1>2, <1>3 DEF IInv

\* The database is opened.
LEMMA OpenCfInv ==
    ASSUME IInv, OpenCf PROVE IInv'
<1>1. PICK new \in [Names -> 0..MaxIds], last \in created..MaxIds :
        /\ \A m, n \in Names : m # n /\ new[m] # 0 => new[m] # new[n]
        /\ created' = last
        /\ \A n \in Names : new[n] \leq last
        /\ catalog' = new /\ handle' = new
        /\ opened' = {n \in Names : new[n] # 0}
  BY DEF OpenCf, OpenCfOpts
<1>2. /\ ~open /\ open' /\ broken' = {}
      /\ UNCHANGED <<data, op, stage, holding, built, answer, witness>>
  BY DEF OpenCf, OpenCfOpts
<1>3. created \in Nat /\ last \in 0..MaxIds
  BY <1>1, ColumnFamiliesBounds DEF IInv, TypeOK
<1>4. TypeOK'
  <2>1. open' \in BOOLEAN
    BY DEF OpenCf, OpenCfOpts
  <2> QED BY <1>1, <1>2, <1>3, <2>1 DEF IInv, TypeOK
<1>5. Handles'
  <2>1. \A i \in Ids : i > last => data[i] = Empty
    BY <1>1, <1>3, ColumnFamiliesBounds DEF IInv, Handles, Ids
  <2> QED BY <1>1, <1>2, <2>1 DEF Handles
<1>6. StagesFit'
  BY <1>2 DEF IInv, StagesFit
<1>7. CallsWitness'
  BY <1>2 DEF IInv, Handles, CallsWitness
<1>8. AnswersAreWitnessed' /\ MissingOnlyWhileClearing'
  BY <1>1, <1>2 DEF IInv, AnswersAreWitnessed, MissingOnlyWhileClearing
<1> QED BY <1>4, <1>5, <1>6, <1>7, <1>8 DEF IInv

\* The inductive invariant holds in every behaviour: each step of each thread,
\* of an opening and of an end of the process preserves it.
THEOREM ColumnFamiliesInvariance == Spec => []IInv
<1>1. IInv /\ [Next]_vars => IInv'
  <2> SUFFICES ASSUME IInv, [Next]_vars PROVE IInv'
    OBVIOUS
  <2>1. CASE UNCHANGED vars
    BY <2>1 DEF vars, IInv, TypeOK, Handles, StagesFit, CallsWitness,
       AnswersAreWitnessed, MissingOnlyWhileClearing
  <2>2. CASE \E t \in Threads : Step(t)
    <3>1. PICK t \in Threads : Step(t)
      BY <2>2
    <3> QED BY <3>1, BeginInv, LookUpInv, FailureInv, KeyMayExistInv, GetCfInv,
            PutCfInv, ReGetInv, DropCfInv, CreateCfInv, AddEntryInv,
            WriteBatchInv DEF Step
  <2> QED BY <2>1, <2>2, OpenCfInv, ProcessEndsInv DEF Next
<1> QED BY <1>1, InitInv, PTL DEF Spec

\* Whatever races with it, an operation of a DBMap that does not fail returns
\* an answer that was right at some moment of the call (rocks/mod.rs:588-853).
THEOREM LinearizableAnswers == Spec => []AnswersAreWitnessed
<1>1. IInv => AnswersAreWitnessed
  BY DEF IInv
<1> QED BY <1>1, ColumnFamiliesInvariance, PTL

\* A column family the database was opened with lacks its handle only inside
\* clear or after a clear that failed (rocks/mod.rs:719-725).
THEOREM HandlesMissOnlyInClear == Spec => []MissingOnlyWhileClearing
<1>1. IInv => MissingOnlyWhileClearing
  BY DEF IInv
<1> QED BY <1>1, ColumnFamiliesInvariance, PTL

-----------------------------------------------------------------------------
\* Steps that leave the catalog and the data alone change no contents.
LEMMA QuietSteps ==
    ASSUME NEW t \in Threads,
           \/ Begin(t) \/ LookUp(t) \/ LookUpPanics(t) \/ KeyMayExist(t) \/ GetCf(t)
           \/ ReGet(t) \/ ReportMetrics(t) \/ AddEntry(t) \/ RocksDbFails(t)
    PROVE  View(catalog', data') = View(catalog, data)
BY DEF Begin, LookUp, LookUpPanics, KeyMayExist, GetCf, ReGet, ReportMetrics,
   AddEntry, RocksDbFails, dbVars

\* A put or delete changes its key, if its handle is current.
LEMMA PutCfIsWhole ==
    ASSUME IInv, NEW t \in Threads, PutCf(t)
    PROVE  \/ View(catalog', data') = View(catalog, data)
           \/ Applies(t, View(catalog, data), View(catalog', data'))
<1>1. /\ op[t] \in Operations /\ op[t].kind \in {"put", "get_or_insert"}
      /\ op[t].cf \in Names /\ holding[t] \in Ids /\ holding[t] # 0
      /\ catalog' = catalog
  BY OperationFields DEF PutCf, IInv, StagesFit, TypeOK, Ids
<1>2. CASE ~Current(t)
  BY <1>1, <1>2 DEF PutCf
<1>3. CASE Current(t)
  <2> DEFINE n == op[t].cf
             m == Insert(data[holding[t]], op[t].key, op[t].value)
  <2>1. data' = [data EXCEPT ![holding[t]] = m] /\ holding[t] = catalog[n]
    BY <1>3 DEF PutCf, Current
  <2>2. View(catalog, data)[n] = data[holding[t]]
    BY <1>1, <2>1 DEF View
  <2>3. View(catalog, data')[n] = m
    <3>1. data'[holding[t]] = m
      BY <1>1, <2>1 DEF IInv, TypeOK
    <3> QED BY <1>1, <2>1, <3>1 DEF View
  <2>4. ASSUME NEW x \in Names, x # n
        PROVE  View(catalog, data')[x] = View(catalog, data)[x]
    <3>1. catalog[x] # holding[t]
      BY <1>1, <2>1, <2>4 DEF IInv, Handles
    <3>2. catalog[x] # 0 => data'[catalog[x]] = data[catalog[x]]
      BY <2>1, <3>1 DEF IInv, TypeOK, Ids
    <3> QED BY <3>2 DEF View
  <2>5. View(catalog, data') = [View(catalog, data) EXCEPT ![n] = m]
    <3> DEFINE v == View(catalog, data)
               w == View(catalog, data')
    <3>1. v = [x \in Names |-> v[x]] /\ w = [x \in Names |-> w[x]]
      BY DEF View
    <3> HIDE DEF v, w, m
    <3> QED BY <1>1, <2>3, <2>4, <3>1 DEF v, w
  <2>6. stage'[t] # "idle" \/ answer'[t].is = "ok"
    BY <1>3 DEF PutCf, GoOn, Finish, Ok, IInv, TypeOK
  <2> QED BY <1>1, <2>2, <2>5, <2>6 DEF Applies
<1> QED BY <1>2, <1>3

\* A batch takes effect whole, or fails and has none.
LEMMA WriteBatchIsWhole ==
    ASSUME IInv, NEW t \in Threads, WriteBatch(t)
    PROVE  \/ View(catalog', data') = View(catalog, data)
           \/ Applies(t, View(catalog, data), View(catalog', data'))
<1> DEFINE es == op[t].entries
<1>1. op[t].kind = "batch" /\ catalog' = catalog
  BY DEF WriteBatch, IInv, StagesFit
<1>2. CASE ~ \A j \in DOMAIN es : built[t][j] = catalog[es[j].cf]
  BY <1>1, <1>2 DEF WriteBatch
<1>3. CASE \A j \in DOMAIN es : built[t][j] = catalog[es[j].cf]
  <2>1. \A n \in Names : View(catalog, data')[n] = Batched(View(catalog, data)[n], es, n)
    BY <1>3, WriteBatchView
  <2>2. View(catalog, data') = [n \in Names |-> Batched(View(catalog, data)[n], es, n)]
    <3> DEFINE w == View(catalog, data')
    <3>1. w = [x \in Names |-> w[x]]
      BY DEF View
    <3> HIDE DEF w
    <3> QED BY <2>1, <3>1 DEF w
  <2>3. answer'[t].is = "ok"
    BY <1>3 DEF WriteBatch, Finish, Ok, IInv, TypeOK
  <2> QED BY <1>1, <2>2, <2>3 DEF Applies
<1> QED BY <1>2, <1>3

\* clear empties its map when it drops the column family, and creating the new
\* one changes nothing.
LEMMA ClearIsWhole ==
    ASSUME IInv, NEW t \in Threads, DropCf(t) \/ CreateCf(t)
    PROVE  \/ View(catalog', data') = View(catalog, data)
           \/ Applies(t, View(catalog, data), View(catalog', data'))
<1>1. op[t].kind = "clear" /\ op[t].cf \in Names /\ data' = data
  BY OperationFields DEF DropCf, CreateCf, IInv, StagesFit
<1>2. CASE DropCf(t)
  <2>1. CASE catalog' = catalog
    BY <1>1, <2>1
  <2>2. CASE catalog' = [catalog EXCEPT ![op[t].cf] = 0]
    <3>1. View(catalog', data) = [View(catalog, data) EXCEPT ![op[t].cf] = Empty]
      BY <1>1, <2>2 DEF View, IInv, TypeOK
    <3>2. stage'[t] # "idle"
      BY <1>2 DEF DropCf, GoOn, IInv, TypeOK
    <3> QED BY <1>1, <3>1, <3>2 DEF Applies
  <2> QED BY <1>2, <2>1, <2>2 DEF DropCf
<1>3. CASE CreateCf(t)
  <2>1. CASE catalog' = catalog
    BY <1>1, <2>1
  <2>2. CASE /\ catalog[op[t].cf] = 0 /\ created < MaxIds
             /\ catalog' = [catalog EXCEPT ![op[t].cf] = created + 1]
    <3>1. created + 1 \in Ids /\ created + 1 > created /\ created + 1 # 0
      BY <2>2, ColumnFamiliesBounds DEF IInv, TypeOK, Ids
    <3>2. data[created + 1] = Empty
      BY <3>1 DEF IInv, Handles
    <3> QED BY <1>1, <2>2, <3>1, <3>2 DEF View, IInv, TypeOK
  <2> QED BY <1>3, <2>1, <2>2 DEF CreateCf
<1> QED BY <1>2, <1>3

\* Opening the database changes no contents: what it creates is empty.
LEMMA OpenIsQuiet ==
    ASSUME IInv, OpenCf
    PROVE  View(catalog', data') = View(catalog, data)
<1>1. PICK new \in [Names -> 0..MaxIds] :
        /\ \A n \in Names : new[n] = catalog[n] \/ (catalog[n] = 0 /\ new[n] > created)
        /\ catalog' = new /\ data' = data
  BY DEF OpenCf, OpenCfOpts, Registers
<1>2. ASSUME NEW n \in Names
      PROVE  View(catalog', data)[n] = View(catalog, data)[n]
  <2>1. CASE new[n] = catalog[n]
    BY <1>1, <2>1 DEF View
  <2>2. CASE catalog[n] = 0 /\ new[n] > created
    <3>1. new[n] \in Ids /\ new[n] # 0
      BY <1>1, <2>2, ColumnFamiliesBounds DEF IInv, TypeOK, Ids
    <3>2. data[new[n]] = Empty
      BY <2>2, <3>1 DEF IInv, Handles
    <3> QED BY <1>1, <2>2, <3>1, <3>2 DEF View
  <2> QED BY <1>1, <2>1, <2>2
<1> DEFINE v == View(catalog, data)
           w == View(catalog', data)
<1>3. v = [n \in Names |-> v[n]] /\ w = [n \in Names |-> w[n]]
  BY DEF View
<1> HIDE DEF v, w
<1>4. w = v
  BY <1>2, <1>3 DEF v, w
<1> QED BY <1>1, <1>4 DEF v, w

\* The contents of the database change by whole calls only: a batch with a
\* stale handle, a call that fails or panics, the end of the process at any step
\* and the next open leave them as they are (rocks/mod.rs:484-580, 663-725).
THEOREM CallsAreAtomic == Spec => WritesAreWhole
<1> DEFINE v == View(catalog, data)
           w == View(catalog', data')
           Whole == w = v \/ \E t \in Threads : Applies(t, v, w)
<1>1. IInv /\ [Next]_vars => [Whole]_vars
  <2> SUFFICES ASSUME IInv, Next PROVE Whole
    OBVIOUS
  <2>1. CASE \E t \in Threads : Step(t)
    <3>1. PICK t \in Threads : Step(t)
      BY <2>1
    <3>2. w = v \/ Applies(t, v, w)
      BY <3>1, QuietSteps, PutCfIsWhole, WriteBatchIsWhole, ClearIsWhole DEF Step
    <3> QED BY <3>2
  <2>2. CASE ProcessEnds
    BY <2>2 DEF ProcessEnds
  <2>3. CASE OpenCf
    BY <2>3, OpenIsQuiet
  <2> QED BY <2>1, <2>2, <2>3 DEF Next
<1> QED BY <1>1, ColumnFamiliesInvariance, PTL DEF Spec, WritesAreWhole
=============================================================================
