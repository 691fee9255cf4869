-------------------------- MODULE SamplingInterval --------------------------
(***************************************************************************)
(* Which operations of a DBMap report their metrics                           *)
(* (crates/typed-store/src/metrics.rs, SamplingInterval).  All clones share   *)
(* one atomic counter.  With a duration, a timer task resets the counter and   *)
(* the operation that finds it at zero is sampled; without one, every          *)
(* (after_num_ops + 1)-th operation is.                                        *)
(***************************************************************************)
EXTENDS Naturals

CONSTANTS AfterNumOps,  \* after_num_ops
          Modulus,      \* 2^64: the counter wraps around
          MaxOps,       \* bound: operations in a behaviour
          MaxResets     \* bound: rounds of the timer that reset

ASSUME SamplingAssumption ==
    /\ AfterNumOps \in Nat /\ Modulus \in Nat
    /\ AfterNumOps + 1 < Modulus
    /\ MaxOps \in Nat /\ MaxResets \in Nat

VARIABLES
    timed,    \* ~once_every_duration.is_zero(), given to new
    counter,  \* the AtomicU64
    timer,    \* the timer task: "off", "check", "reset" or "asleep"
    ops,      \* history: operations so far
    samples,  \* history: of which sampled
    quiet,    \* history: operations since the last sample
    resets,   \* history: stores of the timer
    wraps     \* history: wrap-arounds of the counter

vars == <<timed, counter, timer, ops, samples, quiet, resets, wraps>>

\* The counter starts at 1, so the first operation is not sampled by itself.
Init ==
    /\ timed \in BOOLEAN
    /\ counter = 1
    /\ timer = IF timed THEN "check" ELSE "off"
    /\ ops = 0 /\ samples = 0 /\ quiet = 0 /\ resets = 0 /\ wraps = 0

\* Mutants of Sampled: the duration is ignored; or one operation too few lies
\* between samples.
Sampled_IgnoresDuration(old) == old % (AfterNumOps + 1) = 0
Sampled_TooOften(old) ==
    IF timed THEN old = 0 ELSE AfterNumOps = 0 \/ old % AfterNumOps = 0

\* What sample() returns for the value that fetch_add found.
Sampled(old) ==
    IF timed THEN old = 0 ELSE old % (AfterNumOps + 1) = 0

\* sample(): one atomic fetch_add(1), from any thread.
Sample ==
    /\ ops < MaxOps
    /\ counter' = (counter + 1) % Modulus
    /\ ops' = ops + 1
    /\ samples' = IF Sampled(counter) THEN samples + 1 ELSE samples
    /\ quiet' = IF Sampled(counter) THEN 0 ELSE quiet + 1
    /\ wraps' = IF counter + 1 = Modulus THEN wraps + 1 ELSE wraps
    /\ UNCHANGED <<timed, timer, resets>>

\* Mutants of TimerChecks: the threshold is off by one; or it is never met.
TimerChecks_OffByOne ==
    /\ timer = "check"
    /\ timer' = IF counter \geq AfterNumOps THEN "reset" ELSE "asleep"
    /\ UNCHANGED <<timed, counter, ops, samples, quiet, resets, wraps>>
TimerChecks_Exact ==
    /\ timer = "check"
    /\ timer' = IF counter = AfterNumOps + 1 THEN "reset" ELSE "asleep"
    /\ UNCHANGED <<timed, counter, ops, samples, quiet, resets, wraps>>

\* The timer loads the counter ...
TimerChecks ==
    /\ timer = "check"
    /\ timer' = IF counter > AfterNumOps THEN "reset" ELSE "asleep"
    /\ UNCHANGED <<timed, counter, ops, samples, quiet, resets, wraps>>

\* ... and stores zero in a second step; operations in between are forgotten.
TimerResets ==
    /\ timer = "reset"
    /\ resets < MaxResets
    /\ counter' = 0
    /\ timer' = "asleep"
    /\ resets' = resets + 1
    /\ UNCHANGED <<timed, ops, samples, quiet, wraps>>

\* sleep(once_every_duration) is over.
TimerWakes ==
    /\ timer = "asleep"
    /\ timer' = "check"
    /\ UNCHANGED <<timed, counter, ops, samples, quiet, resets, wraps>>

TimerStep == TimerChecks \/ TimerResets \/ TimerWakes

Next == Sample \/ TimerChecks \/ TimerResets \/ TimerWakes

Spec == Init /\ [][Next]_vars

\* The timer task loops for ever.
FairSpec == Spec /\ WF_vars(TimerStep)

-----------------------------------------------------------------------------
(* Properties.                                                               *)

\* Type correctness of the counter and its history.
TypeOK ==
    /\ timed \in BOOLEAN
    /\ counter \in 0..(Modulus - 1)
    /\ timer \in (IF timed THEN {"check", "reset", "asleep"} ELSE {"off"})
    /\ ops \in 0..MaxOps
    /\ samples \in 0..ops
    /\ quiet \in 0..ops
    /\ resets \in 0..MaxResets
    /\ wraps \in Nat

\* With a duration, each reset of the timer lets at most one operation be
\* sampled, however operations race with the two steps of the timer; only a
\* wrap-around of the counter can add one (metrics.rs:44-49, 62).
OneSamplePerReset ==
    timed => samples + (IF counter = 0 THEN 1 ELSE 0) \leq resets + wraps

\* The count of the operations since the last sample is in the counter until
\* the timer resets it, which it only does above the threshold.
CounterCounts ==
    timed /\ wraps = 0 =>
        /\ counter > 0 => quiet = counter - 1
        /\ counter = 0 => quiet \geq AfterNumOps
        /\ timer = "reset" => counter > AfterNumOps

\* "Sampling happens if the duration expires and after number of operations"
\* (metrics.rs:22): at least after_num_ops operations go by between samples,
\* although the timer decides on a count it read a step before.
SpacedByOperations ==
    [][timed /\ samples' > samples /\ wraps = 0 => quiet \geq AfterNumOps]_vars

\* Without a duration, exactly one in after_num_ops + 1 operations is sampled
\* until the counter wraps (metrics.rs:60).
ExactRate ==
    ~timed /\ wraps = 0 => samples = ops \div (AfterNumOps + 1)

\* A count over the threshold is reset sooner or later, so sampling does not
\* die out (metrics.rs:44-49).
OverdueIsReset ==
    timed => (counter > AfterNumOps /\ resets < MaxResets ~> counter \leq AfterNumOps)
=============================================================================
