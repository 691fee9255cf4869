----------------------------- MODULE PerfContext -----------------------------
(***************************************************************************)
(* What a sampled operation of a DBMap reports of RocksDB's work              *)
(* (crates/typed-store, metrics.rs and rocks/mod.rs).  The level and the       *)
(* counters are thread-local and shared by all operations of the thread; a     *)
(* multi_get may run another operation while it collects its keys.  One        *)
(* thread is modelled; the others only share the interval of                    *)
(* SamplingInterval, which is the read_sample_interval here.                    *)
(***************************************************************************)
EXTENDS SamplingInterval, Sequences, SequencesExt

VARIABLES
    level,   \* the PerfStatsLevel of the thread
    ctx,     \* whose work is in PER_THREAD_ROCKS_PERF_CONTEXT
    stack,   \* the operations the thread is in
    report   \* history: the report of the operation at the top of the stack

perf == <<level, ctx, stack, report>>
perfVars == <<vars, perf>>

\* The operations, by the interval that samples them.  get stands for
\* get_raw_bytes as well, remove for the write of a batch, iter for is_empty,
\* and contains_key for keys and values, which sample nothing.
ReadKinds == {"get", "multi_get"}
OtherKinds == {"iter", "insert", "remove"}
PlainKinds == {"contains_key"}
Kinds == ReadKinds \union OtherKinds \union PlainKinds

Depth == 2   \* bound: an operation and one inside it

Levels == {"EnableCount", "EnableTime", "Disable"}
\* Work of the operation at depth 1 or 2, of one that has returned to the
\* operation around it, and of the time before the outermost one.
Returned == 3
Earlier == 0
Works == 0..3

Frames == [kind : Kinds, sampled : BOOLEAN, disturbed : BOOLEAN,
           at : {"start", "worked", "reported"}]
NoReport == [kind |-> "none", depth |-> 0, work |-> {}, disturbed |-> FALSE]

Top == stack[Len(stack)]
SetTop(f) == stack' = [stack EXCEPT ![Len(stack)] = f]

\* RocksDB starts every thread with the counters on and the timers off.
PerfInit ==
    /\ Init
    /\ level = "EnableCount" /\ ctx = {} /\ stack = <<>> /\ report = NoReport

\* Mutant of Default: the counters are not reset.
Default_NoReset(sampled) ==
    /\ level' = IF sampled THEN "EnableTime" ELSE level
    /\ UNCHANGED ctx

\* RocksDBPerfContext::default(), for an operation that is sampled.
Default(sampled) ==
    /\ level' = IF sampled THEN "EnableTime" ELSE level
    /\ ctx' = IF sampled THEN {} ELSE ctx

\* The operation around a sampled one has lost its own window.
Enclosing(sampled) ==
    [i \in DOMAIN stack |->
        [stack[i] EXCEPT !.disturbed = @ \/ sampled]]

Push(k, sampled) ==
    /\ Default(sampled)
    /\ stack' = Append(Enclosing(sampled),
            [kind |-> k, sampled |-> sampled, disturbed |-> FALSE, at |-> "start"])
    /\ UNCHANGED report

\* Only the iterator of the keys of a multi_get is the caller's code.
MayBegin ==
    /\ Len(stack) < Depth
    /\ \A i \in DOMAIN stack : stack[i].kind = "multi_get" /\ stack[i].at = "start"

BeginRead(k) == MayBegin /\ Sample /\ Push(k, Sampled(counter))

\* Sampled by an interval of their own, which may give any answer.
BeginOther(k) ==
    /\ MayBegin
    /\ \E sampled \in BOOLEAN : Push(k, sampled)
    /\ UNCHANGED vars

\* Never sampled.
BeginPlain(k) == MayBegin /\ Push(k, FALSE) /\ UNCHANGED vars

\* insert reports before it puts, the others when RocksDB has done its part.
ReportsAt(f) == IF f.kind = "insert" THEN "start" ELSE "worked"
WorksAt(f) == IF f.kind = "insert" /\ f.sampled THEN "reported" ELSE "start"
ReturnsAt(f) == IF f.kind # "insert" /\ f.sampled THEN "reported" ELSE "worked"

\* The call of RocksDB; its work is counted while the level says so.
Counted(depth) == IF level = "Disable" THEN ctx ELSE ctx \union {depth}

Work ==
    /\ stack # <<>> /\ Top.at = WorksAt(Top)
    /\ ctx' = Counted(Len(stack))
    /\ SetTop([Top EXCEPT !.at = "worked"])
    /\ UNCHANGED <<vars, level, report>>

\* report_metrics of ReadPerfContextMetrics and of WritePerfContextMetrics.
ReportMetrics ==
    /\ stack # <<>> /\ Top.sampled /\ Top.at = ReportsAt(Top)
    /\ level' = "Disable"
    /\ report' = [kind |-> Top.kind, depth |-> Len(stack), work |-> ctx,
                  disturbed |-> Top.disturbed]
    /\ SetTop([Top EXCEPT !.at = "reported"])
    /\ UNCHANGED <<vars, ctx>>

\* Mutant of Drop: nothing happens when the context goes out of scope.
Drop_Nothing(f) == UNCHANGED level

\* Drop of RocksDBPerfContext, on every way out of a sampled operation.
Drop(f) == level' = IF f.sampled THEN "Disable" ELSE level

Pop ==
    /\ Drop(Top)
    /\ stack' = Front(stack)
    /\ ctx' = IF ctx = {} THEN {} ELSE
              IF Len(stack) = 1 THEN {Earlier}
              ELSE {IF w = Len(stack) THEN Returned ELSE w : w \in ctx}
    /\ report' = NoReport
    /\ UNCHANGED vars

Return == stack # <<>> /\ Top.at = ReturnsAt(Top) /\ Pop

\* A key or a value that cannot be encoded, an error of RocksDB, a missing
\* column family, a value that cannot be decoded: `?` or a panic.
Fail == stack # <<>> /\ Pop

Begin == \/ \E k \in ReadKinds : BeginRead(k)
         \/ \E k \in OtherKinds : BeginOther(k)
         \/ \E k \in PlainKinds : BeginPlain(k)

\* sample() on another thread, and the timer task.
Elsewhere == Next /\ UNCHANGED perf

PerfNext == Begin \/ Work \/ ReportMetrics \/ Return \/ Fail \/ Elsewhere

PerfSpec == PerfInit /\ [][PerfNext]_perfVars
PerfFairSpec == PerfSpec /\ WF_vars(TimerStep /\ UNCHANGED perf)

-----------------------------------------------------------------------------
(* Properties.                                                               *)

\* The timers of RocksDB run only while a sampled operation is under way: no
\* error path, nesting or early report leaves them on for the rest of the
\* thread's life (metrics.rs:350-354, 600, 768).
TimingOnlyWhileSampled ==
    level = "EnableTime" => \E i \in DOMAIN stack : stack[i].sampled

\* A report is about the operation that makes it and what ran inside it, never
\* about earlier ones that left their counts behind on the thread
\* (metrics.rs:343-345); and it has that operation's own work, unless a sampled
\* operation inside a multi_get closed the window (rocks/mod.rs:795-798).  An
\* insert reports before its put (rocks/mod.rs:683-687): its report is empty.
ReportsOwnWork ==
    report # NoReport =>
        /\ report.work \subseteq report.depth..(IF report.depth = 1 THEN Returned ELSE 2)
        /\ report.kind = "insert" => report.work = {}
        /\ report.kind # "insert" /\ ~report.disturbed => report.depth \in report.work
=============================================================================
