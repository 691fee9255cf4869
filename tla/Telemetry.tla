----------------------------- MODULE Telemetry ------------------------------
(***************************************************************************)
(* Setting up logging, and what becomes of the lines and of a panic           *)
(* (crates/telemetry-subscribers).  Lines go through a bounded queue to a      *)
(* worker thread; the queue, the worker and the drop of its guard belong to    *)
(* tracing_appender and are modelled from their use here.                      *)
(***************************************************************************)
EXTENDS Naturals, Sequences, FiniteSets

CONSTANTS Threads,   \* the threads of the process
          Settings,  \* what threads call init with: [crash, hook, prom, filter]
          Envs,      \* environments: sets of variables that are set
          Queue,     \* bound: lines the queue holds (128000 in tracing_appender)
          MaxLines,  \* bound: lines in a behaviour
          None

ASSUME TelemetryAssumption ==
    /\ Queue \in Nat \ {0} /\ MaxLines \in Nat
    /\ None \notin Threads /\ "testing" \notin Threads
    /\ None \notin {"held", "dropping", "flushed", "timed out"}
    /\ \A c \in Settings : {c.crash, c.hook} \subseteq BOOLEAN

VARIABLES
    env,        \* the environment of the process
    process,    \* "up", "returned" from main or "crashed" in the hook
    subscriber, \* the global default: the thread that set it, "testing" or None
    registered, \* the registries that have the span latencies
    lazy,       \* LOGGER of init_for_testing: "new", "set" or "poisoned"
    config,     \* the config a thread calls init with
    pc,         \* of a thread: "idle", "output", "hook", "ready", "panicking", "dead"
    hook,       \* the panic hook: a config, or None for the default one
    panic,      \* what a panicking thread does next: "plain", "event", "print", "flush" or "unwind"
    printed,    \* the threads whose panic the default hook has printed
    filter,     \* the level of the log filter
    guard,      \* the WorkerGuard: None, "held", "dropping", "flushed" or "timed out"
    worker,     \* the worker thread: "none", "running" or "done"
    queue,      \* lines on their way to the worker, and the end that guard sends
    accepted,   \* history: lines the queue took while the guards were kept
    written,    \* history: lines the worker has written
    lines       \* history: lines so far

setup == <<env, subscriber, registered, lazy, config>>
output == <<guard, worker, queue, accepted, written, lines>>
panics == <<hook, panic, printed>>
vars == <<setup, process, pc, panics, filter, output>>

Levels == <<"off", "error", "info">>   \* in the order of what they let through
Rank(l) == CHOOSE i \in 1..3 : Levels[i] = l

Init ==
    /\ env \in Envs
    /\ process = "up" /\ subscriber = None /\ registered = {} /\ lazy = "new"
    /\ config = [t \in Threads |-> None]
    /\ pc = [t \in Threads |-> "idle"]
    /\ hook = None /\ panic = [t \in Threads |-> "none"] /\ printed = {}
    /\ filter = "off"
    /\ guard = None /\ worker = "none" /\ queue = <<>> /\ accepted = 0 /\ written = 0 /\ lines = 0

Up == process = "up"
Go(t, p) == pc' = [pc EXCEPT ![t] = p]

\* A panic runs the hook that is set, and that hook runs the default one.
StartPanic(t) ==
    /\ Go(t, "panicking")
    /\ panic' = [panic EXCEPT ![t] = IF hook = None THEN "plain" ELSE "event"]
    /\ UNCHANGED <<hook, printed>>

-----------------------------------------------------------------------------
(* The config and init.                                                      *)

\* with_env, for what a property tells apart: CRASH_ON_PANIC.
WithEnv(c) == [c EXCEPT !.crash = @ \/ "CRASH_ON_PANIC" \in env]

\* The filter: RUST_LOG, when it parses, before the config, before "info".
LogFilter(c) ==
    IF "RUST_LOG=error" \in env THEN "error"
    ELSE IF c.filter = None THEN "info" ELSE c.filter

\* init of a config that was or was not passed through with_env, up to the
\* output: registering the span latencies, which the `expect`
\* refuses for a registry that has them.
InitLayers(t) ==
    /\ Up /\ pc[t] = "idle"
    /\ \E given \in Settings : \E c \in {given, WithEnv(given)} :
        /\ config' = [config EXCEPT ![t] = c]
        /\ IF c.prom # None /\ c.prom \in registered
           THEN StartPanic(t) /\ UNCHANGED registered
           ELSE /\ registered' = registered \union ({c.prom} \ {None})
                /\ Go(t, "output") /\ UNCHANGED panics
    /\ UNCHANGED <<env, subscriber, lazy, process, filter, output>>

\* Mutant of InitSubscriber: the hook is set before the subscriber.
InitSubscriber_HookFirst(t) ==
    /\ Up /\ pc[t] = "output"
    /\ IF subscriber = None
       THEN /\ subscriber' = t /\ filter' = LogFilter(config[t])
            /\ guard' = "held" /\ worker' = "running" /\ Go(t, "hook") /\ UNCHANGED panics
       ELSE /\ hook' = config[t] /\ Go(t, "panicking")
            /\ panic' = [panic EXCEPT ![t] = "event"]
            /\ UNCHANGED <<subscriber, filter, guard, worker, printed>>
    /\ UNCHANGED <<env, registered, lazy, config, process, queue, accepted, written, lines>>

\* get_output starts a worker; then registry().init(), which only one caller
\* survives.  The guard of another is dropped as it unwinds.
InitSubscriber(t) ==
    /\ Up /\ pc[t] = "output"
    /\ IF subscriber = None
       THEN /\ subscriber' = t /\ filter' = LogFilter(config[t])
            /\ guard' = "held" /\ worker' = "running" /\ Go(t, "hook") /\ UNCHANGED panics
       ELSE StartPanic(t) /\ UNCHANGED <<subscriber, filter, guard, worker>>
    /\ UNCHANGED <<env, registered, lazy, config, process, queue, accepted, written, lines>>

\* Mutants of InitHook: the guard does not leave init, and its drop waits for
\* the worker, or gives up on it.
InitHook_Dropped(t, g) ==
    /\ Up /\ pc[t] = "hook"
    /\ hook' = IF config[t].hook THEN config[t] ELSE hook
    /\ Go(t, "ready")
    /\ guard' = g /\ queue' = Append(queue, "end")
    /\ UNCHANGED <<setup, process, panic, printed, filter, worker, accepted, written, lines>>
InitHook_DropsGuard(t) == InitHook_Dropped(t, "dropping")
InitHook_LosesGuard(t) == InitHook_Dropped(t, "timed out")

\* set_panic_hook, and init returns the guard and the filter handle.
InitHook(t) ==
    /\ Up /\ pc[t] = "hook"
    /\ hook' = IF config[t].hook THEN config[t] ELSE hook
    /\ Go(t, "ready")
    /\ UNCHANGED <<setup, process, panic, printed, filter, output>>

\* init_for_testing: the Lazy runs once; its panic poisons it.
InitForTesting(t) ==
    /\ Up /\ pc[t] = "idle"
    /\ \/ /\ lazy = "new" /\ subscriber = None
          /\ lazy' = "set" /\ subscriber' = "testing"
          /\ UNCHANGED <<pc, panics>>
       \/ /\ lazy = "poisoned" \/ (lazy = "new" /\ subscriber # None)
          /\ lazy' = "poisoned" /\ StartPanic(t)
          /\ UNCHANGED subscriber
    /\ UNCHANGED <<env, registered, config, process, filter, output>>

\* FilterHandle::update: a directive that does not parse changes nothing.
UpdateFilter(t) ==
    /\ Up /\ pc[t] = "ready"
    /\ \E directives \in {"error", "off", "bad ]"} :
          filter' = IF directives = "bad ]" THEN filter ELSE directives
    /\ UNCHANGED <<setup, process, pc, panics, output>>

-----------------------------------------------------------------------------
(* Lines.                                                                    *)

\* Whether a line of this level reaches the queue: the subscriber of the tests
\* has none, and nobody receives when the worker is gone.
Offered(level) ==
    subscriber \in Threads /\ worker = "running" /\ Rank(level) \leq Rank(filter)

\* The thread that init returned the guards to has not let them go.
Kept == \E t \in Threads : subscriber = t /\ pc[t] # "dead"

\* The queue is lossy: a line that does not fit is dropped.
Offer(level) ==
    IF Offered(level) /\ Len(queue) < Queue
    THEN /\ queue' = Append(queue, "line")
         /\ accepted' = IF Kept THEN accepted + 1 ELSE accepted
         /\ UNCHANGED <<guard, worker, written>>
    ELSE UNCHANGED <<guard, worker, queue, accepted, written>>

Log(t) ==
    /\ Up /\ pc[t] \in {"idle", "ready"} /\ lines < MaxLines
    /\ lines' = lines + 1
    /\ \E level \in {"error", "info"} : Offer(level)
    /\ UNCHANGED <<setup, process, pc, panics, filter>>

\* The worker writes what comes, and stops at the end that the guard sent.
WorkerWrites ==
    /\ Up /\ worker = "running" /\ queue # <<>>
    /\ queue' = Tail(queue)
    /\ IF Head(queue) = "end"
       THEN /\ worker' = "done"
            /\ guard' = IF guard = "dropping" THEN "flushed" ELSE guard
            /\ UNCHANGED written
       ELSE written' = written + 1 /\ UNCHANGED <<guard, worker>>
    /\ UNCHANGED <<setup, process, pc, panics, filter, accepted, lines>>

\* The guard is dropped: it sends the end if there is room in time, and waits.
DropGuard ==
    /\ guard = "held"
    /\ \/ /\ Len(queue) < Queue
          /\ queue' = Append(queue, "end") /\ guard' = "dropping"
       \/ guard' = "timed out" /\ UNCHANGED queue
    /\ UNCHANGED <<worker, accepted, written, lines>>

\* The wait for the worker is limited to a second.
GuardTimesOut ==
    /\ Up /\ guard = "dropping"
    /\ guard' = "timed out"
    /\ UNCHANGED <<setup, process, pc, panics, filter, worker, queue, accepted, written, lines>>

\* The thread that keeps the guards, main, lets them go as it ends ...
MainEnds(t) ==
    /\ Up /\ pc[t] = "ready" /\ DropGuard
    /\ Go(t, "dead")
    /\ UNCHANGED <<setup, process, panics, filter>>

\* ... and the process ends with it.
ProcessReturns ==
    /\ Up /\ guard \in {"flushed", "timed out"} /\ ~Kept
    /\ process' = "returned"
    /\ UNCHANGED <<setup, pc, panics, filter, output>>

-----------------------------------------------------------------------------
(* Panics.                                                                   *)

Panics(t) ==
    /\ Up /\ pc[t] \in {"idle", "ready"}
    /\ StartPanic(t)
    /\ UNCHANGED <<setup, process, filter, output>>

SetPanic(t, p) == panic' = [panic EXCEPT ![t] = p]

\* The closure of set_panic_hook: the ERROR event, ...
PanicEvent(t) ==
    /\ Up /\ panic[t] = "event"
    /\ Offer("error") /\ SetPanic(t, "print")
    /\ UNCHANGED <<setup, process, pc, hook, printed, filter, lines>>

\* Mutant of PanicPrints: the hook crashes before the default hook.
PanicPrints_CrashFirst(t) ==
    /\ Up /\ panic[t] \in {"plain", "print"}
    /\ SetPanic(t, IF panic[t] = "plain" THEN "unwind" ELSE "flush")
    /\ printed' = IF panic[t] = "print" /\ hook.crash THEN printed ELSE printed \union {t}
    /\ UNCHANGED <<setup, process, pc, hook, filter, output>>

\* ... the default hook, which writes to stderr itself, ...
PanicPrints(t) ==
    /\ Up /\ panic[t] \in {"plain", "print"}
    /\ printed' = printed \union {t}
    /\ SetPanic(t, IF panic[t] = "plain" THEN "unwind" ELSE "flush")
    /\ UNCHANGED <<setup, process, pc, hook, filter, output>>

\* ... and, when the flushes are done, exit(12): no destructor runs.
PanicEnds(t) ==
    /\ Up /\ panic[t] = "flush"
    /\ IF hook.crash THEN process' = "crashed" /\ UNCHANGED panic
       ELSE SetPanic(t, "unwind") /\ UNCHANGED process
    /\ UNCHANGED <<setup, pc, hook, printed, filter, output>>

\* Unwinding drops the guards that the thread keeps.
Unwinds(t) ==
    /\ Up /\ panic[t] = "unwind" /\ pc[t] = "panicking"
    /\ Go(t, "dead")
    /\ IF subscriber = t THEN DropGuard ELSE UNCHANGED output
    /\ UNCHANGED <<setup, process, panics, filter>>

ThreadStep(t) ==
    \/ InitLayers(t) \/ InitSubscriber(t) \/ InitHook(t) \/ InitForTesting(t)
    \/ UpdateFilter(t) \/ Log(t) \/ MainEnds(t)
    \/ Panics(t) \/ PanicEvent(t) \/ PanicPrints(t) \/ PanicEnds(t) \/ Unwinds(t)

Next == WorkerWrites \/ GuardTimesOut \/ ProcessReturns \/ \E t \in Threads : ThreadStep(t)

Spec == Init /\ [][Next]_vars

\* The worker thread keeps writing.
FairSpec == Spec /\ WF_vars(WorkerWrites)

-----------------------------------------------------------------------------
(* Properties.                                                               *)

\* Type correctness.
TypeOK ==
    /\ process \in {"up", "returned", "crashed"}
    /\ pc \in [Threads -> {"idle", "output", "hook", "ready", "panicking", "dead"}]
    /\ panic \in [Threads -> {"none", "plain", "event", "print", "flush", "unwind"}]
    /\ DOMAIN config = Threads /\ printed \subseteq Threads
    /\ queue \in Seq({"line", "end"}) /\ accepted \in Nat /\ written \in Nat

\* However inits race, with each other and with init_for_testing, the hook, the
\* guards and the filter handle are those of the one thread whose subscriber is
\* in use (lib.rs:400-414); of an init that loses only the span latencies stay,
\* in the registry of its config.
FirstInitWins ==
    /\ \A t \in Threads : pc[t] \in {"hook", "ready"} => subscriber = t
    /\ hook # None => subscriber \in Threads /\ hook = config[subscriber]
    /\ guard # None => subscriber \in Threads

\* A process that the hook stops has left a message: the default hook has
\* printed the panic of a thread before exit(12) (lib.rs:228-237), although the
\* event of the panic may still be in the queue and is lost then.
CrashLeavesAMessage ==
    process = "crashed" =>
        /\ hook.crash
        /\ \E t \in printed : pc[t] = "panicking" /\ panic[t] = "flush"

\* When the guards go in time, all lines that were accepted before are written
\* (lib.rs:406-407), that of the panic that ends main included.
FlushedOnDrop == guard = "flushed" => written \geq accepted

\* A line that the queue has accepted gets written, unless the process stops
\* first.
LinesAreWritten ==
    \A n \in 1..(MaxLines + Cardinality(Threads)) :
        accepted \geq n ~> written \geq n \/ process # "up"
=============================================================================
