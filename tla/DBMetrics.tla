----------------------------- MODULE DBMetrics ------------------------------
(***************************************************************************)
(* The metrics of the databases of a process (crates/typed-store, metrics.rs  *)
(* and rocks/mod.rs): the one DBMetrics that every DBMap uses, and the task    *)
(* that each DBMap::new starts to report the gauges of its column family,      *)
(* which shares the database with the map and its clones.  The maps of a       *)
(* database are on one column family, which clear drops and creates again     *)
(* (ColumnFamilies has the other operations).                                 *)
(***************************************************************************)
EXTENDS Naturals, Sequences, FiniteSets

CONSTANTS Threads,     \* threads that make maps
          AppFamilies, \* families of the application: functions from registries
          MaxDbs,      \* bound: databases opened, one after the other
          MaxMaps,     \* bound: calls of DBMap::new
          MaxArcs,     \* bound: clones of a map, and Arcs to a database outside maps
          None

ASSUME DBMetricsAssumption ==
    /\ {MaxDbs, MaxMaps, MaxArcs} \subseteq Nat
    /\ AppFamilies \subseteq [{"app", "default"} -> SUBSET STRING]
    /\ None \notin {"app", "default"}

-----------------------------------------------------------------------------
(* The families of DBMetrics, in the order of their registration.            *)

OperationMetrics == <<
    "rocksdb_iter_latency_seconds", "rocksdb_iter_bytes",
    "rocksdb_get_latency_seconds", "rocksdb_get_bytes",
    "rocksdb_multiget_latency_seconds", "rocksdb_multiget_bytes",
    "rocksdb_put_latency_seconds", "rocksdb_put_bytes",
    "rocksdb_delete_latency_seconds", "rocksdb_deletes",
    "rocksdb_write_batch_commit_latency_seconds", "rocksdb_batch_commit_bytes">>

ColumnFamilyMetrics == <<
    "rocksdb_total_sst_files_size", "rocksdb_size_all_mem_tables",
    "rocksdb_num_snapshots", "rocksdb_oldest_snapshot_time",
    "rocksdb_actual_delayed_write_rate", "rocksdb_is_write_stopped",
    "rocksdb_block_cache_capacity", "rocksdb_block_cache_usage",
    "rocksdb_block_cache_pinned_usage", "rocskdb_estimate_table_readers_mem",
    "rocksdb_mem_table_flush_pending", "rocskdb_compaction_pending",
    "rocskdb_num_running_compactions", "rocksdb_num_running_flushes",
    "rocksdb_estimate_oldest_key_time", "rocksdb_estimated_num_keys",
    "rocskdb_background_errors">>

ReadPerfContextMetrics == <<
    "user_key_comparison_count", "block_cache_hit_count", "block_read_count",
    "block_read_byte", "block_read_nanos", "block_checksum_nanos",
    "block_decompress_nanos", "get_read_bytes", "multiget_read_bytes",
    "get_snapshot_nanos", "get_from_memtable_nanos", "get_from_memtable_count",
    "get_post_process_nanos", "get_from_output_files_nanos",
    "db_mutex_lock_nanos", "db_condition_wait_nanos", "merge_operator_nanos",
    "read_index_block_nanos", "read_filter_block_nanos",
    "new_table_block_iter_nanos", "block_seek_nanos", "find_table_nanos",
    "bloom_memtable_hit_count", "bloom_memtable_miss_count",
    "bloom_sst_hit_count", "bloom_sst_miss_count",
    "key_lock_wait_time", "key_lock_wait_count">>

WritePerfContextMetrics == <<
    "write_wal_nanos", "write_memtable_nanos", "write_delay_nanos",
    "write_pre_and_post_process_nanos", "write_db_mutex_lock_nanos",
    "write_db_condition_wait_nanos", "write_key_lock_wait_time",
    "write_key_lock_wait_count">>

MemoryMetrics == <<
    "rocksdb_mem_table_usage", "rocksdb_unflushed_mem_table_usage",
    "rocksdb_table_readers_usage">>

Families == OperationMetrics \o ColumnFamilyMetrics \o ReadPerfContextMetrics
            \o WritePerfContextMetrics \o MemoryMetrics
Count == Len(Families)

\* No two families have the same name, or registering them would panic.
ASSUME FamiliesAssumption ==
    /\ Families \in Seq(STRING) /\ Count > 0
    /\ \A i, j \in 1..Count : i # j => Families[i] # Families[j]

-----------------------------------------------------------------------------
VARIABLES
    appHas,     \* appHas[r]: what the application has registered in r itself
    once,       \* ONCE: the registry of the DBMetrics it holds, or None
    registered, \* registered[r]: how many of Families registry r has
    appInit,    \* the application's DBMetrics::init: "todo", "done" or "panicked"
    opened,     \* databases opened so far; they have the same path
    arcs,       \* arcs[d]: Arcs to database d outside maps and tasks
    cf,         \* cf[d]: its column family is "there", "clearing" (dropped) or "missing"
    pc,         \* of a thread: "idle", "get", "init" or "spawn"
    target,     \* the database it makes a map on
    maps,       \* the maps made: [db, clones, metrics, task]
    panicked    \* history: some DBMap::new has panicked

metrics == <<appHas, once, registered, appInit>>
processVars == <<metrics, opened, arcs, cf, pc, target, maps, panicked>>

Registries == {"app", "default"}
Dbs == 1..MaxDbs

ProcessInit ==
    /\ appHas \in AppFamilies
    /\ once = None
    /\ registered = [r \in Registries |-> 0]
    /\ appInit = "todo"
    /\ opened = 0 /\ arcs = [d \in Dbs |-> 0] /\ cf = [d \in Dbs |-> "there"]
    /\ pc = [t \in Threads |-> "idle"] /\ target = [t \in Threads |-> None]
    /\ maps = <<>> /\ panicked = FALSE

-----------------------------------------------------------------------------
(* The DBMetrics of the process.                                             *)

\* A registry refuses the i-th family when it has one of that name.
Refused(r, i) ==
    \/ i \leq registered[r]
    \/ \E j \in 1..(i - 1) : Families[i] = Families[j]
    \/ Families[i] \in appHas[r]

\* DBMetrics::new registers the families one by one, up to the first refusal,
\* which panics.
Accepts(r) == \A i \in 1..Count : ~Refused(r, i)

New(r) ==
    \/ Accepts(r) /\ registered' = [registered EXCEPT ![r] = Count]
    \/ \E i \in 1..Count :
          /\ Refused(r, i) /\ \A j \in 1..(i - 1) : ~Refused(r, j)
          /\ registered' = [registered EXCEPT ![r] = IF i > @ THEN i - 1 ELSE @]

\* Mutant of GetOrInit: set instead of get_or_init.
GetOrInit_Overwrites(r) == once' = (IF Accepts(r) THEN r ELSE once) /\ New(r)

\* OnceCell::get_or_init: one caller registers, and a panic leaves it empty.
GetOrInit(r) ==
    IF once # None THEN UNCHANGED <<once, registered>>
    ELSE once' = (IF Accepts(r) THEN r ELSE None) /\ New(r)

\* DBMetrics::init with the application's registry.
AppInit ==
    /\ appInit = "todo"
    /\ GetOrInit("app")
    /\ appInit' = IF once' = None THEN "panicked" ELSE "done"
    /\ UNCHANGED <<appHas, opened, arcs, cf, pc, target, maps, panicked>>

-----------------------------------------------------------------------------
(* Maps and their tasks.                                                     *)

Making(d) == \E t \in Threads : pc[t] # "idle" /\ target[t] = d
Mapped(d) == \E i \in DOMAIN maps : maps[i].db = d /\ maps[i].clones > 0
Tasks(d) == \E i \in DOMAIN maps : maps[i].db = d /\ maps[i].task # "ended"

\* Somebody who could still use database d.
InUse(d) == arcs[d] > 0 \/ Mapped(d) \/ Making(d)

\* RocksDB keeps the lock of the path until the last Arc is gone.
IsOpen(d) == InUse(d) \/ Tasks(d)

\* open_cf: fails while the path is locked.
Open ==
    /\ opened < MaxDbs
    /\ \A d \in Dbs : ~IsOpen(d)
    /\ opened' = opened + 1
    /\ arcs' = [arcs EXCEPT ![opened + 1] = 1]
    /\ UNCHANGED <<metrics, cf, pc, target, maps, panicked>>

\* A batch takes an Arc of the map it is made from.
TakeArc(d) ==
    /\ Mapped(d) /\ arcs[d] < MaxArcs
    /\ arcs' = [arcs EXCEPT ![d] = @ + 1]
    /\ UNCHANGED <<metrics, opened, cf, pc, target, maps, panicked>>

DropArc(d) ==
    /\ arcs[d] > 0
    /\ arcs' = [arcs EXCEPT ![d] = @ - 1]
    /\ UNCHANGED <<metrics, opened, cf, pc, target, maps, panicked>>

SetCf(d, state) ==
    /\ cf' = [cf EXCEPT ![d] = state]
    /\ UNCHANGED <<metrics, opened, arcs, pc, target, maps, panicked>>

\* DBMap::clear of a map on d drops the column family (or finds it missing),
\* one clear at a time (ColumnFamilies has clears that race) ...
ClearDrops(d) ==
    /\ Mapped(d) /\ cf[d] # "clearing"
    /\ SetCf(d, "clearing")

\* ... and creates it, or RocksDB fails and it stays away.
ClearCreates(d) ==
    /\ cf[d] = "clearing"
    /\ SetCf(d, "there") \/ SetCf(d, "missing")

\* open and reopen call DBMap::new with an Arc of their own when the column
\* family is there, and so do two threads at a time.
MapNew(t, d) ==
    /\ pc[t] = "idle" /\ (arcs[d] > 0 \/ Mapped(d)) /\ cf[d] = "there"
    /\ Len(maps) + Cardinality({s \in Threads : pc[s] # "idle"}) < MaxMaps
    /\ pc' = [pc EXCEPT ![t] = "get"]
    /\ target' = [target EXCEPT ![t] = d]
    /\ UNCHANGED <<metrics, opened, arcs, cf, maps, panicked>>

\* DBMetrics::get looks at ONCE ...
MetricsGet(t) ==
    /\ pc[t] = "get"
    /\ pc' = [pc EXCEPT ![t] = IF once # None THEN "spawn" ELSE "init"]
    /\ UNCHANGED <<metrics, opened, arcs, cf, target, maps, panicked>>

\* ... and falls back on the default registry, unless somebody was faster.
MetricsInit(t) ==
    /\ pc[t] = "init"
    /\ GetOrInit("default")
    /\ pc' = [pc EXCEPT ![t] = IF once' = None THEN "idle" ELSE "spawn"]
    /\ target' = [target EXCEPT ![t] = IF once' = None THEN None ELSE @]
    /\ panicked' = (panicked \/ once' = None)
    /\ UNCHANGED <<appHas, appInit, opened, arcs, cf, maps>>

\* The channel, the task and the map.
Spawn(t) ==
    /\ pc[t] = "spawn"
    /\ maps' = Append(maps, [db |-> target[t], clones |-> 1, metrics |-> once,
                             task |-> "select"])
    /\ pc' = [pc EXCEPT ![t] = "idle"]
    /\ target' = [target EXCEPT ![t] = None]
    /\ UNCHANGED <<metrics, opened, arcs, cf, panicked>>

SetMap(i, m) ==
    /\ maps' = [maps EXCEPT ![i] = m]
    /\ UNCHANGED <<metrics, opened, arcs, cf, pc, target, panicked>>

\* Clones share the sender.
CloneMap(i) ==
    /\ maps[i].clones \in 1..(MaxArcs - 1)
    /\ SetMap(i, [maps[i] EXCEPT !.clones = @ + 1])

\* The map that clear was called on stays until it returns.
DropMap(i) ==
    /\ maps[i].clones > 0
    /\ cf[maps[i].db] = "clearing" =>
          \/ maps[i].clones > 1
          \/ \E j \in DOMAIN maps \ {i} : maps[j].db = maps[i].db /\ maps[j].clones > 0
    /\ SetMap(i, [maps[i] EXCEPT !.clones = @ - 1])

\* Every 1000 ms a blocking thread reports, and the task waits for it.
Tick(i) ==
    /\ maps[i].task = "select"
    /\ SetMap(i, [maps[i] EXCEPT !.task = "reporting"])

\* On its thread report_metrics looks the column family up: it sets the gauges,
\* or panics because clear has dropped it.
ReportGauges(i) ==
    /\ maps[i].task = "reporting"
    /\ SetMap(i, [maps[i] EXCEPT !.task =
                     IF cf[maps[i].db] = "there" THEN "reported" ELSE "failed"])

\* Mutant of ReportEnds: the JoinError is unwrapped.
ReportEnds_Unwinds(i) ==
    \/ /\ maps[i].task = "reported"
       /\ SetMap(i, [maps[i] EXCEPT !.task = "select"])
    \/ /\ maps[i].task = "failed"
       /\ SetMap(i, [maps[i] EXCEPT !.task = "ended"])

\* The await of the task returns; the JoinError of a panic is logged.
ReportEnds(i) ==
    /\ maps[i].task \in {"reported", "failed"}
    /\ SetMap(i, [maps[i] EXCEPT !.task = "select"])

\* Mutant of Cancelled: the task keeps a clone of the sender.
Cancelled_KeepsSender(m) == FALSE

\* recv is ready when the last clone has dropped the sender.
Cancelled(m) == m.clones = 0

TaskEnds(i) ==
    /\ maps[i].task = "select" /\ Cancelled(maps[i])
    /\ SetMap(i, [maps[i] EXCEPT !.task = "ended"])

MapStep(i) ==
    \/ CloneMap(i) \/ DropMap(i)
    \/ Tick(i) \/ ReportGauges(i) \/ ReportEnds(i) \/ TaskEnds(i)

ProcessNext ==
    \/ AppInit \/ Open
    \/ \E d \in Dbs : TakeArc(d) \/ DropArc(d) \/ ClearDrops(d) \/ ClearCreates(d)
    \/ \E t \in Threads :
          \/ MetricsGet(t) \/ MetricsInit(t) \/ Spawn(t)
          \/ \E d \in Dbs : MapNew(t, d)
    \/ \E i \in DOMAIN maps : MapStep(i)

ProcessSpec == ProcessInit /\ [][ProcessNext]_processVars

\* Tasks and blocking threads run and the interval ticks; select! takes its
\* branches in random order, so the cancellation is not passed over for ever.
ProcessFairSpec ==
    /\ ProcessSpec
    /\ \A i \in 1..MaxMaps :
          /\ WF_processVars(i \in DOMAIN maps /\ (Tick(i) \/ ReportGauges(i) \/ ReportEnds(i)))
          /\ SF_processVars(i \in DOMAIN maps /\ TaskEnds(i))

-----------------------------------------------------------------------------
(* Properties.                                                               *)

\* What is kept of a map.
MapRecords == [db : Dbs \union {None}, clones : Nat, metrics : Registries \union {None},
               task : {"select", "reporting", "reported", "failed", "ended"}]

\* Type correctness.
ProcessTypeOK ==
    /\ once \in Registries \union {None}
    /\ registered \in [Registries -> 0..Count]
    /\ pc \in [Threads -> {"idle", "get", "init", "spawn"}]
    /\ target \in [Threads -> Dbs \union {None}]
    /\ maps \in Seq(MapRecords)

\* The application has a family named like one of DBMetrics in registry r.
Clashes(r) == \E i \in 1..Count : Families[i] \in appHas[r]

\* All maps of the process report into one DBMetrics, complete and registered
\* once (metrics.rs:809, 849-853), whichever of init and the first maps comes
\* first; init or DBMap::new panics only when the application has a family of
\* the same name in the registry that is used.
OneDBMetrics ==
    /\ \A i \in DOMAIN maps : maps[i].metrics = once
    /\ \A r \in Registries : registered[r] = Count <=> r = once
    /\ appInit = "panicked" => Clashes("app")
    /\ panicked => Clashes("default")

\* Map i has a clone, and its column family is there.
Reportable(i) == i \in DOMAIN maps /\ maps[i].clones > 0 /\ cf[maps[i].db] = "there"

\* Reports that fail while clear has dropped the column family do not end the
\* reporting: the gauges of a map that stays, with its column family, are set
\* again and again, whatever happened before (rocks/mod.rs:126-138).
ReportingRecovers ==
    \A i \in 1..MaxMaps :
        <>[]Reportable(i) => []<>(i \in DOMAIN maps /\ maps[i].task = "reported")

\* Nobody's database is closed in the end: the task that shares it gives it
\* up, and its path can be opened again (rocks/mod.rs:117, 137).
DatabaseCloses == \A d \in Dbs : opened \geq d /\ ~InUse(d) ~> ~IsOpen(d)
=============================================================================
