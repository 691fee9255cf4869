--------------------------- MODULE ColumnFamilies ---------------------------
(***************************************************************************)
(* Threads that share the DBMaps of one RocksDB database                      *)
(* (crates/typed-store/src/rocks/mod.rs).  A DBMap keeps only the name of its  *)
(* column family: every operation first looks the handle up (DBMap::cf,        *)
(* which panics when there is none) and then uses it, and clear drops the      *)
(* column family and creates a new one of the same name in two steps.  So an   *)
(* operation can hold the handle of a column family that is gone.              *)
(*                                                                            *)
(* An id is one incarnation of a column family.  A process that ends leaves    *)
(* the database behind; open_cf opens it again.                                *)
(***************************************************************************)
EXTENDS TypedMap

CONSTANTS Names,      \* names of column families
          Requests,   \* the sets of names open_cf may be asked for
          Threads,    \* threads or tasks that own a clone of the DBMaps
          Operations, \* the operations they perform
          MayFail,    \* RocksDB may return an error
          MaxIds      \* bound: column families created in a behaviour

Ids == 1..MaxIds

\* One entry of a DBBatch: it gives the keys the value (NoValue deletes them).
\* "foreign" entries name a DBMap of another database.
Entry == [cf : Names, keys : SUBSET Keys, value : Values \cup {NoValue},
          foreign : BOOLEAN]

Operation ==
         [kind : {"get", "contains_key"}, cf : Names, key : Keys]
    \cup [kind : {"multi_get"}, cf : Names, keys : Seq(Keys)]
    \cup [kind : {"get_or_insert"}, cf : Names, key : Keys, value : Values]
    \cup [kind : {"put"}, cf : Names, key : Keys, value : Values \cup {NoValue}]
    \cup [kind : {"clear", "report_metrics"}, cf : Names]
    \cup [kind : {"batch"}, entries : Seq(Entry)]

ASSUME RequestsAssumption == Requests \subseteq SUBSET Names
ASSUME OperationsAssumption == Operations \subseteq Operation
ASSUME ColumnFamiliesBounds == MaxIds \in Nat /\ MayFail \in BOOLEAN

VARIABLES
    open,     \* a process has the database open
    opened,   \* the names it opened the database with
    catalog,  \* the column family of each name in the database; 0 is none
    handle,   \* the handles of the open database by name; 0 is none
    data,     \* the contents of each id; those of a dropped one stay readable
    created,  \* how many ids were created
    op,       \* the operation each thread performs, or performed last
    stage,    \* where it stands, "idle" when it has returned
    holding,  \* the handle the operation looked up; 0 is none yet
    built,    \* the handles of the batch entries added so far
    answer,   \* what the last operation returned
    witness,  \* history: the answers that were right at some moment of the call
    broken    \* history: the names a clear has left without a handle

vars == <<open, opened, catalog, handle, data, created, op, stage, holding, built,
          answer, witness, broken>>

dbVars == <<open, opened, catalog, handle, data, created, broken>>

\* What a thread is said to perform before its first operation.
NoOperation == [kind |-> "none"]

Stages == {"idle", "probe", "get", "put", "reget", "report", "drop", "create",
           "build"}

Empty == [k \in Keys |-> NoValue]

Ok(x)     == [is |-> "ok", val |-> x]
Err       == [is |-> "err", val |-> NoValue]
NoCf      == [is |-> "no column family", val |-> NoValue]
NoDefault == [is |-> "default just inserted", val |-> NoValue]
Lost      == [is |-> "lost", val |-> NoValue]

-----------------------------------------------------------------------------
(* The entries of a batch.                                                   *)

\* insert_batch and delete_batch, for one key.
Put(n, k, v) == [cf |-> n, keys |-> {k}, value |-> v, foreign |-> FALSE]

Delete(n, k) == Put(n, k, NoValue)

\* delete_range: from is included, to is not.
DeleteRange(n, from, to) ==
    [cf |-> n, keys |-> {k \in Keys : from \leq k /\ k < to},
     value |-> NoValue, foreign |-> FALSE]

\* Position j of the batch decides the value of key k of column family n.
Wins(es, j, n, k) ==
    /\ es[j].cf = n /\ k \in es[j].keys
    /\ \A i \in DOMAIN es : i > j => ~(es[i].cf = n /\ k \in es[i].keys)

\* What the batch makes of contents m of column family n: its entries are
\* applied in order.
Batched(m, es, n) ==
    [k \in Keys |-> IF \E j \in DOMAIN es : Wins(es, j, n, k)
                    THEN es[CHOOSE j \in DOMAIN es : Wins(es, j, n, k)].value
                    ELSE m[k]]

-----------------------------------------------------------------------------
(* The answers an observer accepts.                                          *)

\* The contents under each name, as the catalog c and the data d have them.
View(c, d) == [n \in Names |-> IF c[n] = 0 THEN Empty ELSE d[c[n]]]

Given(c, a) == IF c THEN {a} ELSE {}

\* The answers to operation o that are right when the contents are v: what a
\* read finds, and Ok(()) for a write whose effect is there.
Right(o, v) ==
         Given(o.kind = "get", Ok(v[o.cf][o.key]))
    \cup Given(o.kind = "contains_key", Ok(v[o.cf][o.key] # NoValue))
    \cup Given(o.kind = "multi_get", Ok(MultiGet(v[o.cf], o.keys)))
    \cup Given(o.kind = "get_or_insert" /\ v[o.cf][o.key] # NoValue,
               Ok(v[o.cf][o.key]))
    \cup Given(o.kind = "put" /\ v[o.cf][o.key] = o.value, Ok(NoValue))
    \cup Given(o.kind = "clear" /\ v[o.cf] = Empty, Ok(NoValue))
    \cup Given(o.kind = "report_metrics", Ok(NoValue))
    \cup Given(o.kind = "batch"
                 /\ \A n \in Names : v[n] = Batched(v[n], o.entries, n),
               Ok(NoValue))

\* The reads, whose answer is about one column family, and contents m in it.
Readers == {"get", "contains_key", "multi_get", "get_or_insert"}
Everywhere(m) == [n \in Names |-> m]

\* The step made the contents newView: they count for every call in progress.
Witnessed(newView) ==
    witness' = [t \in Threads |-> IF stage[t] = "idle" THEN witness[t]
                                  ELSE witness[t] \cup Right(op[t], newView)]

-----------------------------------------------------------------------------
Init ==
    /\ open = FALSE
    /\ opened = {}
    /\ catalog = [n \in Names |-> 0]
    /\ handle = [n \in Names |-> 0]
    /\ data = [i \in Ids |-> Empty]
    /\ created = 0
    /\ op = [t \in Threads |-> NoOperation]
    /\ stage = [t \in Threads |-> "idle"]
    /\ holding = [t \in Threads |-> 0]
    /\ built = [t \in Threads |-> <<>>]
    /\ answer = [t \in Threads |-> Lost]
    /\ witness = [t \in Threads |-> {}]
    /\ broken = {}

-----------------------------------------------------------------------------
(* The database is opened, and the process that has it open ends.           *)

\* The column families of the database are listed and opened with those asked
\* for, which are created when they are missing: new[n] is the id of name n.
Registers(asked, new) ==
    \A n \in Names :
        IF n \in asked /\ catalog[n] = 0 THEN new[n] > created
        ELSE new[n] = catalog[n]

\* open_cf_opts.  (When the listing fails only the names asked for are passed
\* on; RocksDB then refuses to open a database that has others.)
OpenCfOpts(asked) ==
    /\ ~open
    /\ \E new \in [Names -> 0..MaxIds] :
         /\ Registers(asked, new)
         /\ \A m, n \in Names : m # n /\ new[m] # 0 => new[m] # new[n]
         /\ \E last \in created..MaxIds :
              /\ created' = last
              /\ \A n \in Names : new[n] \leq last
              /\ \A i \in (created + 1)..last : \E n \in Names : new[n] = i
         /\ catalog' = new
         /\ handle' = new
         /\ opened' = {n \in Names : new[n] # 0}
    /\ open' = TRUE
    /\ broken' = {}
    /\ UNCHANGED <<data, op, stage, holding, built, answer, witness>>

\* A program opens the tables it uses: those it names, or the fields of a struct
\* that derives DBMapUtils.
OpenCf == \E asked \in Requests : OpenCfOpts(asked)

\* The process ends, in order or in a crash, with whatever its threads do.
\* What RocksDB has acknowledged is on disk.
ProcessEnds ==
    /\ open
    /\ open' = FALSE
    /\ handle' = [n \in Names |-> 0]
    /\ stage' = [t \in Threads |-> "idle"]
    /\ holding' = [t \in Threads |-> 0]
    /\ built' = [t \in Threads |-> <<>>]
    /\ answer' = [t \in Threads |-> IF stage[t] = "idle" THEN answer[t] ELSE Lost]
    /\ UNCHANGED <<opened, catalog, data, created, op, witness, broken>>

-----------------------------------------------------------------------------
(* The steps of an operation.                                                *)

\* Where each operation starts.
FirstStage(o) ==
    [get |-> "get", contains_key |-> "probe", multi_get |-> "get",
     get_or_insert |-> "get", put |-> "put", clear |-> "drop",
     report_metrics |-> "report", batch |-> "build"][o.kind]

\* The operation returns a.
Finish(t, a) ==
    /\ stage' = [stage EXCEPT ![t] = "idle"]
    /\ holding' = [holding EXCEPT ![t] = 0]
    /\ built' = [built EXCEPT ![t] = <<>>]
    /\ answer' = [answer EXCEPT ![t] = a]
    /\ UNCHANGED op

\* It goes on with another stage, and looks its handle up again there.
GoOn(t, s) ==
    /\ stage' = [stage EXCEPT ![t] = s]
    /\ holding' = [holding EXCEPT ![t] = 0]
    /\ UNCHANGED <<op, built, answer>>

\* The column families of the DBMaps an operation uses.
MapsOf(o) ==
    IF o.kind = "batch"
    THEN {o.entries[j].cf : j \in {i \in DOMAIN o.entries : ~o.entries[i].foreign}}
    ELSE {o.cf}

\* The DBMaps exist: DBMap::open or reopen found their column families.
Begin(t) ==
    /\ open
    /\ stage[t] = "idle"
    /\ \E o \in Operations :
         /\ MapsOf(o) \subseteq opened
         /\ op' = [op EXCEPT ![t] = o]
         /\ stage' = [stage EXCEPT ![t] = FirstStage(o)]
         /\ witness' = [witness EXCEPT ![t] = Right(o, View(catalog, data))]
    /\ answer' = [answer EXCEPT ![t] = Lost]
    /\ UNCHANGED dbVars
    /\ UNCHANGED <<holding, built>>

\* DBMap::cf (and report_metrics): the handle of the name, if there is one.
NeedsHandle(t) ==
    /\ stage[t] \in {"probe", "get", "put", "reget", "report"}
    /\ holding[t] = 0

LookUp(t) ==
    /\ NeedsHandle(t)
    /\ handle[op[t].cf] # 0
    /\ holding' = [holding EXCEPT ![t] = handle[op[t].cf]]
    /\ UNCHANGED dbVars
    /\ UNCHANGED <<op, stage, built, answer, witness>>

LookUpPanics(t) ==
    /\ NeedsHandle(t)
    /\ handle[op[t].cf] = 0
    /\ Finish(t, NoCf)
    /\ UNCHANGED dbVars
    /\ UNCHANGED witness

\* The handle still names a column family of the database.
Current(t) == holding[t] = catalog[op[t].cf]

\* Mutant of KeyMayExist: the positive answer is trusted too.
KeyMayExist_Trusted(t) ==
    /\ stage[t] = "probe"
    /\ holding[t] # 0
    /\ \/ /\ data[holding[t]][op[t].key] = NoValue
          /\ Finish(t, Ok(FALSE))
       \/ Finish(t, Ok(TRUE))
    /\ UNCHANGED dbVars
    /\ UNCHANGED witness

\* contains_key: key_may_exist_cf has no false negatives, so it answers the
\* absent case; otherwise the key is looked for, through a second handle.
KeyMayExist(t) ==
    /\ stage[t] = "probe"
    /\ holding[t] # 0
    /\ \/ /\ data[holding[t]][op[t].key] = NoValue
          /\ Finish(t, Ok(FALSE))
       \/ GoOn(t, "get")
    /\ UNCHANGED dbVars
    /\ UNCHANGED witness

\* get_pinned_cf or multi_get_cf: a dropped column family can still be read.
\* get_or_insert_unsafe goes on to insert its default when it finds nothing.
GetCf(t) ==
    /\ stage[t] = "get"
    /\ holding[t] # 0
    /\ LET m == data[holding[t]]
       IN \/ op[t].kind = "get" /\ Finish(t, Ok(Get(m, op[t].key)))
          \/ op[t].kind = "contains_key" /\ Finish(t, Ok(Get(m, op[t].key) # NoValue))
          \/ op[t].kind = "multi_get" /\ Finish(t, Ok(MultiGet(m, op[t].keys)))
          \/ /\ op[t].kind = "get_or_insert"
             /\ IF Get(m, op[t].key) = NoValue THEN GoOn(t, "put")
                ELSE Finish(t, Ok(Get(m, op[t].key)))
    /\ UNCHANGED dbVars
    /\ UNCHANGED witness

\* put_cf or delete_cf: refused when the column family was dropped.
PutCf(t) ==
    /\ stage[t] = "put"
    /\ holding[t] # 0
    /\ IF Current(t)
       THEN /\ data' = [data EXCEPT ![holding[t]] = Insert(@, op[t].key, op[t].value)]
            /\ IF op[t].kind = "get_or_insert" THEN GoOn(t, "reget")
               ELSE Finish(t, Ok(NoValue))
            /\ Witnessed(View(catalog, data'))
       ELSE Finish(t, Err) /\ UNCHANGED <<data, witness>>
    /\ UNCHANGED <<open, opened, catalog, handle, created, broken>>

\* get_or_insert_unsafe reads back what it inserted: "default just inserted".
ReGet(t) ==
    /\ stage[t] = "reget"
    /\ holding[t] # 0
    /\ LET v == Get(data[holding[t]], op[t].key)
       IN Finish(t, IF v = NoValue THEN NoDefault ELSE Ok(v))
    /\ UNCHANGED dbVars
    /\ UNCHANGED witness

\* The rest of report_metrics: it sets gauges.
ReportMetrics(t) ==
    /\ stage[t] = "report"
    /\ holding[t] # 0
    /\ Finish(t, Ok(NoValue))
    /\ UNCHANGED dbVars
    /\ UNCHANGED witness

-----------------------------------------------------------------------------
(* clear.                                                                    *)

\* Mutant of DropCf: the new column family is not created.
DropCf_Only(t) ==
    /\ stage[t] = "drop"
    /\ Finish(t, Ok(NoValue))
    /\ catalog' = [catalog EXCEPT ![op[t].cf] = 0]
    /\ handle' = [handle EXCEPT ![op[t].cf] = 0]
    /\ Witnessed(View(catalog', data))
    /\ UNCHANGED <<open, opened, data, created, broken>>

\* let _ = drop_cf: its error is ignored.  The handle is taken out first: if
\* RocksDB then fails (it always does for the default column family), the column
\* family stays in the database and only its handle is gone.
DropCf(t) ==
    /\ stage[t] = "drop"
    /\ GoOn(t, "create")
    /\ handle' = [handle EXCEPT ![op[t].cf] = 0]
    /\ \/ /\ handle[op[t].cf] # 0
          /\ catalog' = [catalog EXCEPT ![op[t].cf] = 0]
          /\ Witnessed(View(catalog', data))
       \/ /\ handle[op[t].cf] = 0 \/ MayFail
          /\ UNCHANGED <<catalog, witness>>
    /\ UNCHANGED <<open, opened, data, created, broken>>

\* create_cf: fails when the name is taken.
CreateCf(t) ==
    /\ stage[t] = "create"
    /\ LET n == op[t].cf
       IN \/ /\ catalog[n] = 0
             /\ created < MaxIds
             /\ created' = created + 1
             /\ catalog' = [catalog EXCEPT ![n] = created + 1]
             /\ handle' = [handle EXCEPT ![n] = created + 1]
             /\ broken' = broken \ {n}
             /\ Witnessed(View(catalog', data))
             /\ Finish(t, Ok(NoValue))
          \/ /\ catalog[n] # 0 \/ MayFail
             /\ Finish(t, Err)
             /\ broken' = IF handle[n] = 0 THEN broken \cup {n} ELSE broken
             /\ UNCHANGED <<catalog, handle, created, witness>>
    /\ UNCHANGED <<open, opened, data>>

-----------------------------------------------------------------------------
(* DBBatch.                                                                  *)

\* insert_batch, delete_batch, delete_range: each entry looks its handle up;
\* one of another database ends the batch (CrossDBBatch).
NextEntry(t) == op[t].entries[Len(built[t]) + 1]
MoreEntries(t) == stage[t] = "build" /\ Len(built[t]) < Len(op[t].entries)

\* Mutant of AddEntry: an entry is written as soon as it is added.
AddEntry_WritesThrough(t) ==
    /\ MoreEntries(t)
    /\ ~NextEntry(t).foreign
    /\ handle[NextEntry(t).cf] # 0
    /\ built' = [built EXCEPT ![t] = Append(@, handle[NextEntry(t).cf])]
    /\ data' = [data EXCEPT ![handle[NextEntry(t).cf]] =
                  Batched(@, <<NextEntry(t)>>, NextEntry(t).cf)]
    /\ Witnessed(View(catalog, data'))
    /\ UNCHANGED <<open, opened, catalog, handle, created, broken>>
    /\ UNCHANGED <<op, stage, holding, answer>>

AddEntry(t) ==
    /\ MoreEntries(t)
    /\ \/ /\ NextEntry(t).foreign
          /\ Finish(t, Err)
       \/ /\ ~NextEntry(t).foreign
          /\ handle[NextEntry(t).cf] = 0
          /\ Finish(t, NoCf)
       \/ /\ ~NextEntry(t).foreign
          /\ handle[NextEntry(t).cf] # 0
          /\ built' = [built EXCEPT ![t] = Append(@, handle[NextEntry(t).cf])]
          /\ UNCHANGED <<op, stage, holding, answer>>
    /\ UNCHANGED dbVars
    /\ UNCHANGED witness

\* write: all entries or none; RocksDB refuses a batch that names a column
\* family that was dropped since its entry was added.
WriteBatch(t) ==
    /\ stage[t] = "build"
    /\ Len(built[t]) = Len(op[t].entries)
    /\ LET es == op[t].entries
       IN IF \A j \in DOMAIN es : built[t][j] = catalog[es[j].cf]
          THEN /\ data' = [i \in Ids |->
                             IF \E n \in Names : catalog[n] = i
                             THEN Batched(data[i], es, CHOOSE n \in Names : catalog[n] = i)
                             ELSE data[i]]
               /\ Witnessed(View(catalog, data'))
               /\ Finish(t, Ok(NoValue))
          ELSE Finish(t, Err) /\ UNCHANGED <<data, witness>>
    /\ UNCHANGED <<open, opened, catalog, handle, created, broken>>

\* RocksDB returns an error and changes nothing.
RocksDbFails(t) ==
    /\ MayFail
    /\ \/ stage[t] \in {"get", "put", "reget"} /\ holding[t] # 0
       \/ stage[t] = "build" /\ ~MoreEntries(t)
    /\ Finish(t, Err)
    /\ UNCHANGED dbVars
    /\ UNCHANGED witness

Step(t) ==
    \/ Begin(t) \/ LookUp(t) \/ LookUpPanics(t) \/ KeyMayExist(t) \/ GetCf(t)
    \/ PutCf(t) \/ ReGet(t) \/ ReportMetrics(t) \/ DropCf(t) \/ CreateCf(t)
    \/ AddEntry(t) \/ WriteBatch(t) \/ RocksDbFails(t)

Next == OpenCf \/ ProcessEnds \/ \E t \in Threads : Step(t)

Spec == Init /\ [][Next]_vars

-----------------------------------------------------------------------------
(* Properties.                                                               *)

\* Type correctness.
TypeOK ==
    /\ open \in BOOLEAN /\ opened \subseteq Names
    /\ catalog \in [Names -> 0..MaxIds]
    /\ handle \in [Names -> 0..MaxIds]
    /\ data \in [Ids -> Contents]
    /\ created \in 0..MaxIds
    /\ op \in [Threads -> Operations \cup {NoOperation}]
    /\ stage \in [Threads -> Stages]
    /\ holding \in [Threads -> 0..MaxIds]
    /\ built \in [Threads -> Seq(Ids)]
    /\ DOMAIN answer = Threads
    /\ DOMAIN witness = Threads
    /\ broken \subseteq Names

\* Whatever clear, other writers and the second lookups of contains_key and
\* get_or_insert_unsafe do in between, an answer other than an error was right
\* at some moment of the call: a read returns what the map held then, and a
\* write that returns Ok was in effect then (rocks/mod.rs:588-853).
AnswersAreWitnessed ==
    \A t \in Threads : answer[t].is = "ok" => answer[t] \in witness[t]

\* "Map-keying column family should have been checked at DB creation": a name
\* the database was opened with has its handle, except between the two steps
\* of a clear and after a clear that failed (rocks/mod.rs:719-725).
MissingOnlyWhileClearing ==
    open => \A n \in opened :
        handle[n] = 0 =>
            \/ n \in broken
            \/ \E t \in Threads : stage[t] = "create" /\ op[t].cf = n

\* The call of thread t turns the contents from before into after, with all it
\* has to do, and does not fail in the same step.
Applies(t, before, after) ==
    /\ stage'[t] # "idle" \/ answer'[t].is = "ok"
    /\ \/ /\ op[t].kind = "batch"
          /\ after = [n \in Names |-> Batched(before[n], op[t].entries, n)]
       \/ /\ op[t].kind \in {"put", "get_or_insert"}
          /\ after = [before EXCEPT ![op[t].cf] = Insert(@, op[t].key, op[t].value)]
       \/ /\ op[t].kind = "clear"
          /\ after = [before EXCEPT ![op[t].cf] = Empty]

\* The contents of the database change by whole calls only.  A batch takes
\* effect in all its column families at once, although its handles are looked
\* up one by one and a clear may replace one in between; a batch, put or delete
\* that fails, panics or is cut short by the end of the process leaves nothing
\* behind, and an operation that holds the handle of a dropped column family
\* changes none that is there; opening the database again changes nothing
\* (rocks/mod.rs:484-580, 663-725, 949-955).
WritesAreWhole ==
    [][LET before == View(catalog, data)
           after  == View(catalog', data')
       IN after = before \/ \E t \in Threads : Applies(t, before, after)]_vars

\* What the process that has the database open knows of it, and that no two
\* names share a column family.
Handles ==
    /\ open => \A n \in Names : handle[n] \in {0, catalog[n]}
    /\ ~open => \A t \in Threads : stage[t] = "idle"
    /\ \A n \in Names : catalog[n] \leq created
    /\ \A m, n \in Names : catalog[m] # 0 /\ catalog[m] = catalog[n] => m = n
    /\ \A i \in Ids : i > created => data[i] = Empty

\* The stages an operation goes through.
StagesFit ==
    \A t \in Threads :
        /\ stage[t] = "idle" => holding[t] = 0
        /\ stage[t] # "idle" => op[t] \in Operations
        /\ stage[t] = "probe" => op[t].kind = "contains_key"
        /\ stage[t] = "get" => op[t].kind \in Readers
        /\ stage[t] = "put" => op[t].kind \in {"put", "get_or_insert"}
        /\ stage[t] = "reget" => op[t].kind = "get_or_insert"
        /\ stage[t] = "report" => op[t].kind = "report_metrics"
        /\ stage[t] \in {"drop", "create"} => op[t].kind = "clear"
        /\ stage[t] = "build" => op[t].kind = "batch"

\* A call in progress has witnessed the present contents, and a read that holds
\* a handle has witnessed the contents behind it: those of its name, or those
\* its name had when they were dropped, which nothing changes any more.
CallsWitness ==
    \A t \in Threads : stage[t] # "idle" =>
        /\ Right(op[t], View(catalog, data)) \subseteq witness[t]
        /\ holding[t] # 0 =>
             /\ holding[t] \leq created
             /\ op[t].kind # "batch"
             /\ holding[t] = catalog[op[t].cf] \/ \A n \in Names : catalog[n] # holding[t]
             /\ op[t].kind \in Readers => Right(op[t], Everywhere(data[holding[t]]))
                                            \subseteq witness[t]

\* The inductive invariant.
IInv ==
    /\ TypeOK
    /\ Handles
    /\ StagesFit
    /\ CallsWitness
    /\ AnswersAreWitnessed
    /\ MissingOnlyWhileClearing

\* The expectation in DBMap::cf (rocks/mod.rs:213): "Map-keying column family
\* should have been checked at DB creation", so that no lookup fails.
LookUpsSucceed == \A t \in Threads : answer[t] # NoCf
=============================================================================
