---------------------------- MODULE MetricsProofs ----------------------------
(***************************************************************************)
(* The metrics of typed-store (metrics.rs).  Sampling and the perf context   *)
(* for every threshold, counter width and number of operations: the          *)
(* guarantees of the interval; the timers of RocksDB are never left on,      *)
(* reports are about their own operation; and what the operations do to the  *)
(* counter is what SamplingInterval allows, so its theorems hold of the      *)
(* composition.  The DBMetrics of a process for any number of threads,       *)
(* databases and maps, and any families the application registers itself.    *)
(***************************************************************************)
EXTENDS PerfContext, DBMetrics, SequenceTheorems, TLAPS

-----------------------------------------------------------------------------
(* The interval.                                                             *)

IInv == TypeOK /\ OneSamplePerReset /\ CounterCounts

\* The invariant is inductive.
THEOREM SamplingInvariance == Spec => []IInv
  <1> USE SamplingAssumption
  <1>1. Init => IInv
    BY DEF Init, IInv, TypeOK, OneSamplePerReset, CounterCounts
  <1>2. IInv /\ [Next]_vars => IInv'
    <2> SUFFICES ASSUME IInv, [Next]_vars PROVE IInv'
      OBVIOUS
    <2> USE DEF IInv, TypeOK
    <2>1. CASE Sample
      <3>1. timed => (Sampled(counter) <=> counter = 0)
        BY DEF Sampled
      <3>2. /\ counter' = IF counter + 1 = Modulus THEN 0 ELSE counter + 1
            /\ wraps' = IF counter + 1 = Modulus THEN wraps + 1 ELSE wraps
        BY <2>1 DEF Sample
      <3>3. TypeOK'
        BY <2>1, <3>2 DEF Sample
      <3>4. OneSamplePerReset'
        BY <2>1, <3>1, <3>2 DEF Sample, OneSamplePerReset
      <3>5. CounterCounts'
        BY <2>1, <3>1, <3>2 DEF Sample, CounterCounts
      <3> QED BY <3>3, <3>4, <3>5
    <2>2. CASE TimerChecks
      BY <2>2 DEF TimerChecks, OneSamplePerReset, CounterCounts
    <2>3. CASE TimerResets
      BY <2>3 DEF TimerResets, OneSamplePerReset, CounterCounts
    <2>4. CASE TimerWakes
      BY <2>4 DEF TimerWakes, OneSamplePerReset, CounterCounts
    <2>5. CASE UNCHANGED vars
      BY <2>5 DEF vars, OneSamplePerReset, CounterCounts
    <2> QED BY <2>1, <2>2, <2>3, <2>4, <2>5 DEF Next
  <1> QED BY <1>1, <1>2, PTL DEF Spec

\* Each reset of the timer lets at most one operation be sampled, whatever the
\* interleaving with its two steps (metrics.rs:44-49, 62).
THEOREM OneSample == Spec => []OneSamplePerReset
  <1>1. IInv => OneSamplePerReset
    BY DEF IInv
  <1> QED BY <1>1, SamplingInvariance, PTL

\* At least after_num_ops operations go by between two samples, until the
\* counter wraps (metrics.rs:22, 45).
THEOREM Spaced == Spec => SpacedByOperations
  <1>1. IInv /\ [Next]_vars =>
          [timed /\ samples' > samples /\ wraps = 0 => quiet \geq AfterNumOps]_vars
    <2> SUFFICES ASSUME IInv, [Next]_vars, timed, samples' > samples, wraps = 0
                 PROVE  quiet \geq AfterNumOps
      OBVIOUS
    <2>0. samples' # samples
      <3>1. samples \in Nat
        BY SamplingAssumption DEF IInv, TypeOK
      <3> QED BY <3>1
    <2>1. Sample
      BY <2>0 DEF Next, vars, TimerChecks, TimerResets, TimerWakes
    <2>2. counter = 0
      <3>1. Sampled(counter) <=> counter = 0
        BY DEF Sampled
      <3>2. Sampled(counter)
        BY <2>0, <2>1 DEF Sample
      <3> QED BY <3>1, <3>2
    <2> QED BY <2>2 DEF IInv, CounterCounts, TypeOK
  <1> QED BY <1>1, SamplingInvariance, PTL DEF Spec, SpacedByOperations

\* Without a duration, nothing but sample() touches the counter: it counts the
\* operations, starting at one, and a sample is due at the multiples of the rate.
CountsAllOps ==
    ~timed /\ wraps = 0 =>
        counter = ops + 1 /\ samples = ops \div (AfterNumOps + 1)

\* Quotient and remainder.
LEMMA DivMod ==
    ASSUME NEW x \in Nat, NEW d \in Nat \ {0}
    PROVE  /\ x \div d \in Nat /\ x % d \in 0..(d - 1)
           /\ x = d * (x \div d) + (x % d)
  OBVIOUS

\* They are unique.
LEMMA DivUnique ==
    ASSUME NEW d \in Nat \ {0}, NEW p \in Int, NEW q \in Int,
           NEW r \in 0..(d - 1), NEW s \in 0..(d - 1), d * p + r = d * q + s
    PROVE  p = q /\ r = s
  <1>1. d * (p - q) = s - r
    OBVIOUS
  <1>2. CASE p - q > 0
    <2>1. d * (p - q) \geq d
      BY <1>2
    <2> QED BY <2>1, <1>1
  <1>3. CASE p - q < 0
    <2>1. d * (p - q) \leq -d
      BY <1>3
    <2> QED BY <2>1, <1>1
  <1> QED BY <1>2, <1>3

\* The quotient of the next number is one more exactly at the multiples of d.
LEMMA NextDiv ==
    ASSUME NEW x \in Nat, NEW d \in Nat \ {0}
    PROVE  (x + 1) \div d = IF (x + 1) % d = 0 THEN x \div d + 1 ELSE x \div d
  <1> DEFINE q == x \div d
             r == x % d
             p == (x + 1) \div d
             s == (x + 1) % d
  <1>1. q \in Nat /\ r \in 0..(d - 1) /\ x = d * q + r
    BY DivMod
  <1>2. p \in Nat /\ s \in 0..(d - 1) /\ x + 1 = d * p + s
    <2>1. x + 1 \in Nat
      OBVIOUS
    <2> QED BY <2>1, DivMod
  <1> SUFFICES p = IF s = 0 THEN q + 1 ELSE q
    OBVIOUS
  <1> HIDE DEF p, q, r, s
  <1>3. CASE r = d - 1
    <2>1. d * p + s = d * (q + 1) + 0 /\ q + 1 \in Int /\ 0 \in 0..(d - 1)
      BY <1>1, <1>2, <1>3
    <2>2. p = q + 1 /\ s = 0
      BY <2>1, <1>2, DivUnique
    <2> QED BY <2>2
  <1>4. CASE r # d - 1
    <2>1. d * p + s = d * q + (r + 1) /\ r + 1 \in 0..(d - 1)
      BY <1>1, <1>2, <1>4
    <2>2. p = q /\ s = r + 1
      BY <2>1, <1>1, <1>2, DivUnique
    <2> QED BY <2>2, <1>1
  <1> QED BY <1>3, <1>4

\* Without a duration exactly one in after_num_ops + 1 operations is sampled,
\* until the counter wraps (metrics.rs:60).
THEOREM ExactlyRated == Spec => []ExactRate
  <1>1. Init => CountsAllOps
    <2>1. SamplingAssumption => 0 \div (AfterNumOps + 1) = 0
      BY DEF SamplingAssumption
    <2> QED BY <2>1, SamplingAssumption DEF Init, CountsAllOps, SamplingAssumption
  <1>2. IInv /\ CountsAllOps /\ [Next]_vars => CountsAllOps'
    <2> SUFFICES ASSUME IInv, CountsAllOps, [Next]_vars, ~timed', wraps' = 0
                 PROVE  counter' = ops' + 1 /\ samples' = ops' \div (AfterNumOps + 1)
      BY DEF CountsAllOps
    <2>0. /\ AfterNumOps + 1 \in Nat \ {0} /\ Modulus \in Nat /\ Modulus > 1
          /\ ops \in Nat /\ counter \in 0..(Modulus - 1) /\ wraps \in Nat
          /\ ~timed => timer = "off"
      BY SamplingAssumption DEF IInv, TypeOK
    <2>1. CASE Sample
      <3>1. ~timed /\ counter + 1 # Modulus /\ wraps = 0
        BY <2>1, <2>0 DEF Sample
      <3>2. counter = ops + 1 /\ samples = ops \div (AfterNumOps + 1)
        BY <3>1 DEF CountsAllOps
      <3>3. ops' = ops + 1 /\ counter' = ops' + 1
        BY <2>0, <2>1, <3>1, <3>2 DEF Sample
      <3>4. samples' = IF (ops + 1) % (AfterNumOps + 1) = 0 THEN samples + 1 ELSE samples
        BY <2>1, <3>1, <3>2 DEF Sample, Sampled
      <3> DEFINE d == AfterNumOps + 1
      <3>5. (ops + 1) \div d = IF (ops + 1) % d = 0 THEN ops \div d + 1 ELSE ops \div d
        <4> HIDE DEF d
        <4>1. d \in Nat \ {0}
          BY <2>0 DEF d
        <4> QED BY <4>1, <2>0, NextDiv
      <3> QED BY <3>2, <3>3, <3>4, <3>5
    <2>2. CASE TimerChecks \/ TimerResets \/ TimerWakes
      BY <2>2, <2>0 DEF TimerChecks, TimerResets, TimerWakes
    <2>3. CASE UNCHANGED vars
      BY <2>3 DEF vars, CountsAllOps
    <2> QED BY <2>1, <2>2, <2>3 DEF Next
  <1>3. CountsAllOps => ExactRate
    BY DEF CountsAllOps, ExactRate
  <1> QED BY <1>1, <1>2, <1>3, SamplingInvariance, PTL DEF Spec

-----------------------------------------------------------------------------
(* The perf context.                                                         *)

\* The stack of a thread: only a multi_get that collects its keys has an
\* operation inside it.
StackOK ==
    /\ stack \in Seq(Frames) /\ Len(stack) \leq Depth
    /\ level \in Levels /\ ctx \subseteq Works
    /\ \A i \in 1..Len(stack) :
          i < Len(stack) => stack[i].kind = "multi_get" /\ stack[i].at = "start"

\* The window of the sampled operation at depth i: the counters have been reset
\* since it began, the timers run until it has worked, and its work is counted.
Window(i) ==
    stack[i].sampled =>
        /\ ctx \subseteq i..(IF i = 1 THEN Returned ELSE 2)
        /\ ~stack[i].disturbed /\ stack[i].at = "start" => level = "EnableTime"
        /\ stack[i].kind = "insert" /\ stack[i].at = "start" => ctx = {}
        /\ ~stack[i].disturbed /\ stack[i].at = "worked" /\ stack[i].kind # "insert"
              => i \in ctx

\* A sampled operation has disturbed the one around it.
Disturbing ==
    Len(stack) = 2 /\ stack[2].sampled => stack[1].disturbed

PerfInv ==
    /\ StackOK /\ Disturbing
    /\ \A i \in 1..Len(stack) : Window(i)
    /\ TimingOnlyWhileSampled
    /\ ReportsOwnWork

\* Front of a stack.
LEMMA FrontOfStack ==
    ASSUME NEW S, NEW s \in Seq(S), s # <<>>
    PROVE  /\ Front(s) \in Seq(S) /\ Len(Front(s)) = Len(s) - 1
           /\ \A i \in 1..(Len(s) - 1) : Front(s)[i] = s[i]
  <1>1. /\ Len(s) \in Nat /\ Len(s) \geq 1
        /\ \A i \in 1..(Len(s) - 1) : s[i] \in S
    OBVIOUS
  <1> DEFINE n == Len(s) - 1
  <1>2. 1 \in Int /\ n \in Int /\ \A i \in 1..n : s[i] \in S
    BY <1>1
  <1> HIDE DEF n
  <1>3. /\ SubSeq(s, 1, n) \in Seq(S)
        /\ Len(SubSeq(s, 1, n)) = IF 1 <= n THEN n - 1 + 1 ELSE 0
        /\ \A i \in 1..(n - 1 + 1) : SubSeq(s, 1, n)[i] = s[1 + i - 1]
    BY <1>2, SubSeqProperties
  <1>4. Front(s) = SubSeq(s, 1, n)
    BY DEF Front, n
  <1>5. n - 1 + 1 = n /\ \A i \in 1..n : 1 + i - 1 = i
    BY <1>2
  <1>6. n = Len(s) - 1
    BY DEF n
  <1> QED BY <1>1, <1>2, <1>3, <1>4, <1>5, <1>6

\* An operation begins: its frame comes on top, and a sampled one resets the
\* counters and disturbs the one around it.
LEMMA PushKeepsInv ==
    ASSUME PerfInv, MayBegin, NEW k \in Kinds, NEW sampled \in BOOLEAN, Push(k, sampled)
    PROVE  PerfInv'
  <1> DEFINE top == [kind |-> k, sampled |-> sampled, disturbed |-> FALSE, at |-> "start"]
  <1> DEFINE n == Len(stack)
  <1>1. /\ stack \in Seq(Frames) /\ n \in 0..1
        /\ level \in Levels /\ ctx \subseteq Works
    <2>1. StackOK /\ Len(stack) < 2
      BY DEF PerfInv, MayBegin, Depth
    <2>2. stack \in Seq(Frames) /\ Len(stack) \in Nat
      BY <2>1 DEF StackOK
    <2>3. n \in 0..1
      <3>1. \A x \in Nat : x < 2 => x \in 0..1
        OBVIOUS
      <3> QED BY <3>1, <2>1, <2>2
    <2>4. level \in Levels /\ ctx \subseteq Works
      BY <2>1 DEF StackOK
    <2> QED BY <2>2, <2>3, <2>4
  <1>2. top \in Frames
    BY DEF Frames
  <1>3. /\ Enclosing(sampled) \in Seq(Frames) /\ Len(Enclosing(sampled)) = n
        /\ \A i \in 1..n : Enclosing(sampled)[i] = [stack[i] EXCEPT !.disturbed = @ \/ sampled]
    <2>1. \A i \in 1..n : stack[i] \in Frames
      BY <1>1
    <2>2. \A i \in 1..n : [stack[i] EXCEPT !.disturbed = @ \/ sampled] \in Frames
      BY <2>1 DEF Frames
    <2> QED BY <1>1, <2>2 DEF Enclosing
  <1>4. /\ stack' = Append(Enclosing(sampled), top)
        /\ level' = IF sampled THEN "EnableTime" ELSE level
        /\ ctx' = IF sampled THEN {} ELSE ctx
        /\ report' = report
    BY DEF Push, Default
  <1>5. /\ stack' \in Seq(Frames) /\ Len(stack') = n + 1 /\ stack'[n + 1] = top
        /\ \A i \in 1..n : stack'[i] = [stack[i] EXCEPT !.disturbed = @ \/ sampled]
    BY <1>1, <1>2, <1>3, <1>4
  <1>6. \A i \in 1..n : stack[i] \in Frames /\ stack[i].kind = "multi_get" /\ stack[i].at = "start"
    BY <1>1 DEF MayBegin
  <1>7. \A i \in 1..n : /\ stack'[i].sampled = stack[i].sampled
                        /\ stack'[i].kind = "multi_get" /\ stack'[i].at = "start"
                        /\ stack'[i].disturbed = (stack[i].disturbed \/ sampled)
    BY <1>5, <1>6 DEF Frames
  <1>8. StackOK'
    <2>1. level' \in Levels /\ ctx' \subseteq Works
      BY <1>1, <1>4 DEF Levels, Works
    <2>2. Len(stack') \leq 2
      BY <1>1, <1>5
    <2>3. \A i \in 1..Len(stack') : i < Len(stack') => i \in 1..n
      BY <1>1, <1>5
    <2> QED BY <2>1, <2>2, <2>3, <1>5, <1>7 DEF StackOK, Depth
  <1>9. ASSUME NEW i \in 1..Len(stack') PROVE Window(i)'
    <2>1. CASE i = n + 1
      BY <2>1, <1>4, <1>5 DEF Window
    <2>2. CASE i \in 1..n
      <3>1. Window(i)
        BY <2>2 DEF PerfInv
      <3>2. /\ stack'[i].sampled = stack[i].sampled
            /\ stack'[i].kind = "multi_get" /\ stack'[i].at = "start"
            /\ stack[i].at = "start"
            /\ stack'[i].disturbed = (stack[i].disturbed \/ sampled)
        BY <2>2, <1>6, <1>7
      <3>3. CASE sampled
        BY <3>2, <3>3, <1>4 DEF Window
      <3>4. CASE ~sampled
        BY <3>1, <3>2, <3>4, <1>4 DEF Window
      <3> QED BY <3>3, <3>4
    <2> QED BY <1>5, <1>1, <2>1, <2>2
  <1>10. TimingOnlyWhileSampled'
    <2>1. DOMAIN stack' = 1..(n + 1) /\ DOMAIN stack = 1..n
      BY <1>1, <1>5
    <2>2. CASE sampled
      BY <2>1, <2>2, <1>1, <1>5 DEF TimingOnlyWhileSampled
    <2>3. CASE ~sampled
      <3>1. TimingOnlyWhileSampled /\ level' = level
        BY <2>3, <1>4 DEF PerfInv
      <3>2. 1..n \subseteq 1..(n + 1)
        BY <1>1
      <3> QED BY <3>1, <3>2, <2>1, <1>7 DEF TimingOnlyWhileSampled
    <2> QED BY <2>2, <2>3
  <1>11. ReportsOwnWork'
    BY <1>4 DEF ReportsOwnWork, PerfInv
  <1>12. Disturbing'
    <2>1. CASE n = 1
      BY <2>1, <1>5, <1>7 DEF Disturbing
    <2>2. CASE n = 0
      <3>1. Len(stack') = 1
        BY <2>2, <1>5
      <3> QED BY <3>1 DEF Disturbing
    <2> QED BY <2>1, <2>2, <1>1
  <1> QED BY <1>8, <1>9, <1>10, <1>11, <1>12 DEF PerfInv

\* RocksDB works for the operation on top.
LEMMA WorkKeepsInv == ASSUME PerfInv, Work PROVE PerfInv'
  <1> DEFINE n == Len(stack)
  <1> DEFINE f == [stack[n] EXCEPT !.at = "worked"]
  <1>1. StackOK /\ stack # <<>> /\ stack \in Seq(Frames) /\ n \in Nat /\ n \geq 1
    BY DEF PerfInv, StackOK, Work
  <1>2. /\ stack[n] \in Frames /\ f \in Frames
        /\ f.sampled = stack[n].sampled /\ f.disturbed = stack[n].disturbed
        /\ f.kind = stack[n].kind /\ f.at = "worked"
    <2>1. stack[n] \in Frames
      BY <1>1
    <2> QED BY <2>1 DEF Frames
  <1>3. /\ stack[n].at = IF stack[n].kind = "insert" /\ stack[n].sampled
                         THEN "reported" ELSE "start"
        /\ ctx' = (IF level = "Disable" THEN ctx ELSE ctx \union {n})
        /\ stack' = [stack EXCEPT ![n] = f]
        /\ level' = level /\ report' = report
    BY DEF Work, Top, SetTop, WorksAt, Counted
  <1>4. /\ stack' \in Seq(Frames) /\ Len(stack') = n /\ stack'[n] = f
        /\ \A i \in 1..n : i # n => stack'[i] = stack[i]
    BY <1>1, <1>2, <1>3
  <1>5. n \leq 2 /\ level \in Levels /\ ctx \subseteq Works
    <2>1. Len(stack) \leq 2
      BY <1>1 DEF StackOK, Depth
    <2>2. level \in Levels /\ ctx \subseteq Works
      BY <1>1 DEF StackOK
    <2> QED BY <2>1, <2>2
  <1>6. StackOK'
    <2>1. ctx' \subseteq Works
      BY <1>1, <1>3, <1>5 DEF Works
    <2>2. \A i \in 1..n : i < n => stack'[i].kind = "multi_get" /\ stack'[i].at = "start"
      BY <1>1, <1>4 DEF StackOK
    <2> QED BY <2>1, <2>2, <1>3, <1>4, <1>5 DEF StackOK, Depth
  <1>7. ASSUME NEW i \in 1..Len(stack') PROVE Window(i)'
    <2>1. i \in 1..n /\ Window(i)
      BY <1>4 DEF PerfInv
    <2>2. CASE i = n
      <3>1. /\ stack'[i].sampled = stack[n].sampled /\ stack'[i].kind = stack[n].kind
            /\ stack'[i].disturbed = stack[n].disturbed /\ stack'[i].at = "worked"
        BY <2>2, <1>2, <1>4
      <3>2. ASSUME stack[n].sampled
            PROVE  ctx' \subseteq n..(IF n = 1 THEN Returned ELSE 2)
        BY <3>2, <2>1, <2>2, <1>1, <1>3, <1>5 DEF Window, Returned
      <3>3. ASSUME stack[n].sampled, ~stack[n].disturbed, stack[n].kind # "insert"
            PROVE  n \in ctx'
        BY <3>3, <2>1, <2>2, <1>3 DEF Window
      <3> QED BY <2>2, <3>1, <3>2, <3>3 DEF Window
    <2>3. CASE i # n
      <3>1. i < n /\ stack'[i] = stack[i] /\ i = 1 /\ n = 2
        BY <2>1, <2>3, <1>1, <1>4, <1>5
      <3>2. stack[i].at = "start" /\ stack[i].kind = "multi_get"
        BY <3>1, <2>1, <1>1 DEF StackOK
      <3>3. stack[i].sampled => ctx' \subseteq 1..Returned
        BY <3>1, <2>1, <1>3 DEF Window, Returned
      <3> QED BY <3>1, <3>2, <3>3, <2>1, <1>3 DEF Window
    <2> QED BY <2>2, <2>3
  <1>8. TimingOnlyWhileSampled'
    <2>1. \A i \in 1..n : stack'[i].sampled = stack[i].sampled
      BY <1>2, <1>4
    <2>2. DOMAIN stack = 1..n /\ DOMAIN stack' = 1..n
      BY <1>1, <1>4
    <2> QED BY <2>1, <2>2, <1>3 DEF TimingOnlyWhileSampled, PerfInv
  <1>9. ReportsOwnWork'
    BY <1>3 DEF ReportsOwnWork, PerfInv
  <1>10. Disturbing'
    <2>1. CASE n = 2
      BY <2>1, <1>2, <1>4 DEF Disturbing, PerfInv
    <2>2. CASE n # 2
      BY <2>2, <1>4 DEF Disturbing
    <2> QED BY <2>1, <2>2
  <1> QED BY <1>6, <1>7, <1>8, <1>9, <1>10 DEF PerfInv

\* The sampled operation on top reports what is in the counters.
LEMMA ReportKeepsInv == ASSUME PerfInv, ReportMetrics PROVE PerfInv'
  <1> DEFINE n == Len(stack)
  <1> DEFINE f == [stack[n] EXCEPT !.at = "reported"]
  <1>1. StackOK /\ stack # <<>> /\ stack \in Seq(Frames) /\ n \in Nat /\ n \geq 1
    BY DEF PerfInv, StackOK, ReportMetrics
  <1>2. /\ stack[n] \in Frames /\ f \in Frames
        /\ f.sampled = stack[n].sampled /\ f.at = "reported"
    <2>1. stack[n] \in Frames
      BY <1>1
    <2> QED BY <2>1 DEF Frames
  <1>3. /\ stack[n].sampled
        /\ stack[n].at = IF stack[n].kind = "insert" THEN "start" ELSE "worked"
        /\ ctx' = ctx /\ level' = "Disable"
        /\ stack' = [stack EXCEPT ![n] = f]
        /\ report' = [kind |-> stack[n].kind, depth |-> n, work |-> ctx,
                      disturbed |-> stack[n].disturbed]
    BY DEF ReportMetrics, Top, SetTop, ReportsAt
  <1>4. /\ stack' \in Seq(Frames) /\ Len(stack') = n /\ stack'[n] = f
        /\ \A i \in 1..n : i # n => stack'[i] = stack[i]
    BY <1>1, <1>2, <1>3
  <1>5. n \leq 2 /\ ctx \subseteq Works
    <2>1. Len(stack) \leq 2
      BY <1>1 DEF StackOK, Depth
    <2>2. ctx \subseteq Works
      BY <1>1 DEF StackOK
    <2> QED BY <2>1, <2>2
  <1>6. StackOK'
    <2>1. \A i \in 1..n : i < n => stack'[i].kind = "multi_get" /\ stack'[i].at = "start"
      BY <1>1, <1>4 DEF StackOK
    <2> QED BY <2>1, <1>3, <1>4, <1>5 DEF StackOK, Depth, Levels
  <1>7. ASSUME NEW i \in 1..Len(stack') PROVE Window(i)'
    <2>1. i \in 1..n /\ Window(i)
      BY <1>4 DEF PerfInv
    <2>2. CASE i = n
      BY <2>1, <2>2, <1>2, <1>3, <1>4 DEF Window
    <2>3. CASE i # n
      <3>1. i = 1 /\ n = 2 /\ stack'[i] = stack[i]
        BY <2>1, <2>3, <1>1, <1>4, <1>5
      \* The operation on top was sampled and has disturbed the one around it.
      <3>2. ~stack[i].disturbed /\ stack[i].sampled => FALSE
        BY <3>1, <1>1, <1>3 DEF PerfInv, Disturbing
      <3>3. stack[i].at = "start" /\ stack[i].kind = "multi_get"
        BY <3>1, <1>1 DEF StackOK
      <3> QED BY <3>1, <3>2, <3>3, <2>1, <1>3 DEF Window
    <2> QED BY <2>2, <2>3
  <1>8. TimingOnlyWhileSampled'
    BY <1>3 DEF TimingOnlyWhileSampled
  <1>9. ReportsOwnWork'
    <2>1. Window(n)
      BY <1>1 DEF PerfInv
    <2>2. /\ report'.kind = stack[n].kind /\ report'.depth = n /\ report'.work = ctx
          /\ report'.disturbed = stack[n].disturbed
      BY <1>3
    <2>3. ctx \subseteq n..(IF n = 1 THEN Returned ELSE 2)
      BY <2>1, <1>3 DEF Window
    <2>4. stack[n].kind = "insert" => ctx = {}
      BY <2>1, <1>3 DEF Window
    <2>5. stack[n].kind # "insert" /\ ~stack[n].disturbed => n \in ctx
      BY <2>1, <1>3 DEF Window
    <2> QED BY <2>2, <2>3, <2>4, <2>5 DEF ReportsOwnWork
  <1>10. Disturbing'
    <2>1. CASE n = 2
      BY <2>1, <1>2, <1>4 DEF Disturbing, PerfInv
    <2>2. CASE n # 2
      BY <2>2, <1>4 DEF Disturbing
    <2> QED BY <2>1, <2>2
  <1> QED BY <1>6, <1>7, <1>8, <1>9, <1>10 DEF PerfInv

\* The operation on top returns or fails: its context is dropped.
LEMMA PopKeepsInv == ASSUME PerfInv, stack # <<>>, Pop PROVE PerfInv'
  <1> DEFINE n == Len(stack)
  <1>1. StackOK /\ stack \in Seq(Frames) /\ n \in Nat /\ n \geq 1
    BY DEF PerfInv, StackOK
  <1>2. n \leq 2 /\ level \in Levels /\ ctx \subseteq Works
    <2>1. Len(stack) \leq 2
      BY <1>1 DEF StackOK, Depth
    <2>2. level \in Levels /\ ctx \subseteq Works
      BY <1>1 DEF StackOK
    <2> QED BY <2>1, <2>2
  <1>3. /\ level' = (IF stack[n].sampled THEN "Disable" ELSE level)
        /\ stack' = Front(stack)
        /\ ctx' = IF ctx = {} THEN {} ELSE
                  IF n = 1 THEN {Earlier}
                  ELSE {IF w = n THEN Returned ELSE w : w \in ctx}
        /\ report' = NoReport
    BY DEF Pop, Drop, Top
  <1>4. /\ stack' \in Seq(Frames) /\ Len(stack') = n - 1
        /\ \A i \in 1..(n - 1) : stack'[i] = stack[i]
    BY <1>1, <1>3, FrontOfStack
  <1>5. StackOK'
    <2>1. ctx' \subseteq Works
      BY <1>2, <1>3 DEF Works, Earlier, Returned
    <2>2. level' \in Levels
      BY <1>2, <1>3 DEF Levels
    <2>3. Len(stack') \leq 2 /\ \A i \in 1..Len(stack') : ~(i < Len(stack'))
      BY <1>1, <1>2, <1>4
    <2> QED BY <2>1, <2>2, <2>3, <1>4 DEF StackOK, Depth
  <1>6. Disturbing'
    <2>1. Len(stack') # 2
      BY <1>1, <1>2, <1>4
    <2> QED BY <2>1 DEF Disturbing
  <1>7. ASSUME NEW i \in 1..Len(stack') PROVE Window(i)'
    <2>1. i = 1 /\ n = 2 /\ stack'[1] = stack[1]
      BY <1>1, <1>2, <1>4
    <2>2. Window(1)
      BY <2>1, <1>1 DEF PerfInv
    <2>3. stack[1].at = "start" /\ stack[1].kind = "multi_get"
      BY <2>1, <1>1 DEF StackOK
    <2>4. stack[1].sampled => ctx' \subseteq 1..Returned
      BY <2>1, <2>2, <1>3 DEF Window, Returned
    <2>5. stack[1].sampled /\ ~stack[1].disturbed => level' = "EnableTime"
      <3>1. ~stack[1].disturbed => ~stack[2].sampled
        BY <2>1 DEF PerfInv, Disturbing
      <3> QED BY <3>1, <2>1, <2>2, <2>3, <1>3 DEF Window
    <2> QED BY <2>1, <2>3, <2>4, <2>5 DEF Window
  <1>8. TimingOnlyWhileSampled'
    <2> SUFFICES ASSUME level' = "EnableTime"
                 PROVE  \E i \in DOMAIN stack' : stack'[i].sampled
      BY DEF TimingOnlyWhileSampled
    <2>1. ~stack[n].sampled /\ level = "EnableTime"
      BY <1>3
    <2>2. PICK i \in DOMAIN stack : stack[i].sampled
      BY <2>1 DEF PerfInv, TimingOnlyWhileSampled
    <2>3. i \in 1..(n - 1)
      BY <2>1, <2>2, <1>1
    <2>4. i \in DOMAIN stack' /\ stack'[i].sampled
      BY <2>2, <2>3, <1>4
    <2> QED BY <2>4
  <1>9. ReportsOwnWork'
    BY <1>3 DEF ReportsOwnWork
  <1> QED BY <1>5, <1>6, <1>7, <1>8, <1>9 DEF PerfInv

\* The invariant is inductive.
THEOREM PerfInvariance == PerfSpec => []PerfInv
  <1>1. PerfInit => PerfInv
    <2> SUFFICES ASSUME PerfInit PROVE PerfInv
      OBVIOUS
    <2>1. /\ level = "EnableCount" /\ ctx = {} /\ stack = <<>> /\ report = NoReport
          /\ Len(stack) = 0 /\ stack \in Seq(Frames)
      BY DEF PerfInit
    <2> QED BY <2>1 DEF PerfInv, StackOK, Disturbing, Levels, Depth,
                        TimingOnlyWhileSampled, ReportsOwnWork
  <1>2. PerfInv /\ [PerfNext]_perfVars => PerfInv'
    <2> SUFFICES ASSUME PerfInv, [PerfNext]_perfVars PROVE PerfInv'
      OBVIOUS
    <2>1. ASSUME NEW k \in ReadKinds, BeginRead(k) PROVE PerfInv'
      <3>1. MayBegin /\ Push(k, Sampled(counter)) /\ k \in Kinds
        BY <2>1 DEF BeginRead, Kinds
      <3>2. Sampled(counter) \in BOOLEAN
        BY DEF Sampled
      <3> QED BY <3>1, <3>2, PushKeepsInv
    <2>2. ASSUME NEW k \in OtherKinds, BeginOther(k) PROVE PerfInv'
      <3>1. PICK sampled \in BOOLEAN : Push(k, sampled)
        BY <2>2 DEF BeginOther
      <3>2. MayBegin /\ k \in Kinds
        BY <2>2 DEF BeginOther, Kinds
      <3> QED BY <3>1, <3>2, PushKeepsInv
    <2>3. ASSUME NEW k \in PlainKinds, BeginPlain(k) PROVE PerfInv'
      <3>1. MayBegin /\ Push(k, FALSE) /\ k \in Kinds
        BY <2>3 DEF BeginPlain, Kinds
      <3> QED BY <3>1, PushKeepsInv
    <2>4. CASE Work
      BY <2>4, WorkKeepsInv
    <2>5. CASE ReportMetrics
      BY <2>5, ReportKeepsInv
    <2>6. CASE Return \/ Fail
      BY <2>6, PopKeepsInv DEF Return, Fail
    <2>7. CASE Elsewhere \/ UNCHANGED perfVars
      <3>1. UNCHANGED perf
        BY <2>7 DEF Elsewhere, perfVars
      <3>2. UNCHANGED <<level, ctx, stack, report>>
        BY <3>1 DEF perf
      <3> QED BY <3>2 DEF PerfInv, StackOK, Disturbing, Window,
                          TimingOnlyWhileSampled, ReportsOwnWork
    <2> QED BY <2>1, <2>2, <2>3, <2>4, <2>5, <2>6, <2>7 DEF PerfNext, Begin
  <1> QED BY <1>1, <1>2, PTL DEF PerfSpec

\* The timers of RocksDB are on only while a sampled operation is under way,
\* whatever nests and fails (metrics.rs:350-354, 600, 768).
THEOREM TimersGoOff == PerfSpec => []TimingOnlyWhileSampled
  <1>1. PerfInv => TimingOnlyWhileSampled
    BY DEF PerfInv
  <1> QED BY <1>1, PerfInvariance, PTL

\* A report is about the operation that makes it (metrics.rs:343-345,
\* rocks/mod.rs:683-687, 795-798).
THEOREM ReportsAreOwn == PerfSpec => []ReportsOwnWork
  <1>1. PerfInv => ReportsOwnWork
    BY DEF PerfInv
  <1> QED BY <1>1, PerfInvariance, PTL

\* Operations, timer and other threads together use the counter as
\* SamplingInterval says: the composition implements it.
THEOREM PerfImplementsSampling == PerfSpec => Spec
  <1>1. PerfInit => Init
    BY DEF PerfInit
  <1>2. [PerfNext]_perfVars => [Next]_vars
    <2> SUFFICES ASSUME [PerfNext]_perfVars PROVE Next \/ UNCHANGED vars
      OBVIOUS
    <2>1. CASE Begin
      BY <2>1 DEF Begin, BeginRead, BeginOther, BeginPlain, Next
    <2>2. CASE Work \/ ReportMetrics \/ Return \/ Fail
      <3>1. UNCHANGED vars
        BY <2>2 DEF Work, ReportMetrics, Return, Fail, Pop, vars
      <3> QED BY <3>1
    <2>3. CASE Elsewhere
      BY <2>3 DEF Elsewhere
    <2>4. CASE UNCHANGED perfVars
      BY <2>4 DEF perfVars
    <2> QED BY <2>1, <2>2, <2>3, <2>4 DEF PerfNext
  <1> QED BY <1>1, <1>2, PTL DEF PerfSpec, Spec

\* So operations that nest, fail and race with the timer and with other threads
\* are sampled at most once per reset, far enough apart, and at the exact rate
\* when there is no duration (metrics.rs:44-49, 57-64).
THEOREM OperationsAreSampled ==
    PerfSpec => []OneSamplePerReset /\ SpacedByOperations /\ []ExactRate
  BY PerfImplementsSampling, OneSample, Spaced, ExactlyRated, PTL

-----------------------------------------------------------------------------
(* The DBMetrics of a process and the tasks of its maps.                     *)

\* Maps are made only when there is a DBMetrics, ...
MadeAfterInit ==
    /\ maps # <<>> => once # None
    /\ \A t \in Threads : pc[t] = "spawn" => once # None

\* ... and what a failed DBMetrics::new left in a registry comes from a clash.
LeftByClash == once = None => \A r \in Registries : registered[r] > 0 => Clashes(r)

MetricsInv ==
    /\ ProcessTypeOK /\ MadeAfterInit /\ LeftByClash
    /\ OneDBMetrics

\* What get_or_init of an empty ONCE does.
LEMMA GetOrInitFirst ==
    ASSUME MetricsInv, once = None, NEW r \in Registries, GetOrInit(r)
    PROVE  /\ once' \in {None, r}
           /\ registered' \in [Registries -> 0..Count]
           /\ \A q \in Registries : registered'[q] = Count <=> q = once'
           /\ once' = None => Clashes(r)
           /\ \A q \in Registries : q # r => registered'[q] = registered[q]
  <1> USE FamiliesAssumption
  <1>1. Count \in Nat /\ Count > 0
    BY DEF Count
  <1>2. /\ once' = (IF Accepts(r) THEN r ELSE None) /\ New(r)
    BY DEF GetOrInit
  <1>3. \A q \in Registries : q # None
    BY DBMetricsAssumption DEF Registries
  <1>4. registered \in [Registries -> 0..Count] /\ \A q \in Registries : registered[q] # Count
    BY DBMetricsAssumption DEF MetricsInv, ProcessTypeOK, OneDBMetrics, Registries
  <1>5. \A q \in Registries : q # r => registered'[q] = registered[q]
    BY <1>2, <1>4 DEF New
  <1>6. CASE Accepts(r)
    <2>1. registered' = [registered EXCEPT ![r] = Count]
      BY <1>2, <1>6 DEF New, Accepts
    <2>2. registered' \in [Registries -> 0..Count] /\ registered'[r] = Count
      BY <2>1, <1>1, <1>4
    <2>3. once' = r
      BY <1>2, <1>6
    <2> QED BY <2>2, <2>3, <1>3, <1>4, <1>5
  <1>7. CASE ~Accepts(r)
    <2>1. PICK i \in 1..Count :
            /\ Refused(r, i) /\ \A j \in 1..(i - 1) : ~Refused(r, j)
            /\ registered' = [registered EXCEPT ![r] = IF i > @ THEN i - 1 ELSE @]
      BY <1>2, <1>7 DEF New
    <2>2. registered' \in [Registries -> 0..Count] /\ registered'[r] # Count
      BY <2>1, <1>1, <1>4
    <2>3. once' = None
      BY <1>2, <1>7
    <2>4. Clashes(r)
      <3>1. CASE i \leq registered[r]
        <4>1. registered[r] > 0
          BY <3>1, <1>1, <1>4
        <4> QED BY <4>1 DEF MetricsInv, LeftByClash
      <3>2. CASE \E j \in 1..(i - 1) : Families[i] = Families[j]
        BY <3>2, <1>1
      <3>3. CASE Families[i] \in appHas[r]
        BY <3>3 DEF Clashes
      <3> QED BY <2>1, <3>1, <3>2, <3>3 DEF Refused
    <2>5. \A q \in Registries : registered'[q] # Count
      BY <2>2, <1>4, <1>5
    <2> QED BY <2>2, <2>3, <2>4, <2>5, <1>3, <1>5
  <1> QED BY <1>6, <1>7

\* get_or_init keeps the part of the invariant that is about DBMetrics; callers
\* add what they do themselves.
LEMMA GetOrInitKeeps ==
    ASSUME MetricsInv, NEW r \in Registries, GetOrInit(r), appHas' = appHas
    PROVE  /\ once' \in Registries \union {None}
           /\ registered' \in [Registries -> 0..Count]
           /\ LeftByClash'
           /\ \A q \in Registries : registered'[q] = Count <=> q = once'
           /\ once # None => once' = once
           /\ once' = None => Clashes(r)
  <1>1. CASE once = None
    <2>1. /\ once' \in {None, r}
          /\ registered' \in [Registries -> 0..Count]
          /\ \A q \in Registries : registered'[q] = Count <=> q = once'
          /\ once' = None => Clashes(r)
          /\ \A q \in Registries : q # r => registered'[q] = registered[q]
      BY <1>1, GetOrInitFirst
    <2>2. \A q \in Registries : Clashes(q)' = Clashes(q)
      BY DEF Clashes
    <2>3. LeftByClash'
      BY <2>1, <2>2, <1>1 DEF LeftByClash, MetricsInv
    <2> QED BY <2>1, <2>3, <1>1
  <1>2. CASE once # None
    <2>1. once' = once /\ registered' = registered
      BY <1>2 DEF GetOrInit
    <2> QED BY <2>1, <1>2 DEF MetricsInv, ProcessTypeOK, OneDBMetrics, LeftByClash
  <1> QED BY <1>1, <1>2

\* A step of a map that is made changes its record alone.
LEMMA MapStepKeepsInv ==
    ASSUME MetricsInv, NEW i \in DOMAIN maps, NEW m \in MapRecords, SetMap(i, m),
           m.metrics = maps[i].metrics
    PROVE  MetricsInv'
  <1>1. /\ maps' = [maps EXCEPT ![i] = m]
        /\ UNCHANGED <<metrics, opened, arcs, cf, pc, target, panicked>>
    BY DEF SetMap
  <1>2. maps \in Seq(MapRecords)
    BY DEF MetricsInv, ProcessTypeOK
  <1>3. /\ maps' \in Seq(MapRecords) /\ DOMAIN maps' = DOMAIN maps /\ maps'[i] = m
        /\ \A j \in DOMAIN maps : j # i => maps'[j] = maps[j]
    BY <1>1, <1>2
  <1>4. maps # <<>>
    BY <1>2
  <1>5. UNCHANGED <<appHas, once, registered, appInit, pc, target, panicked>>
    BY <1>1 DEF metrics
  <1>6. ProcessTypeOK' /\ LeftByClash'
    BY <1>3, <1>5 DEF MetricsInv, ProcessTypeOK, LeftByClash, Clashes
  <1>7. MadeAfterInit'
    BY <1>4, <1>5 DEF MetricsInv, MadeAfterInit
  <1>8. OneDBMetrics'
    BY <1>3, <1>5 DEF MetricsInv, OneDBMetrics, Clashes
  <1> QED BY <1>6, <1>7, <1>8 DEF MetricsInv

\* The invariant is inductive.
THEOREM MetricsInvariance == ProcessSpec => []MetricsInv
  <1>1. ProcessInit => MetricsInv
    <2> SUFFICES ASSUME ProcessInit PROVE MetricsInv
      OBVIOUS
    <2> USE FamiliesAssumption, DBMetricsAssumption
    <2>1. Count \in Nat /\ Count > 0
      BY DEF Count
    <2>2. ProcessTypeOK
      BY <2>1 DEF ProcessInit, ProcessTypeOK
    <2>3. MadeAfterInit /\ LeftByClash
      BY DEF ProcessInit, MadeAfterInit, LeftByClash
    <2>4. OneDBMetrics
      BY <2>1 DEF ProcessInit, OneDBMetrics, Registries
    <2> QED BY <2>2, <2>3, <2>4 DEF MetricsInv
  <1>2. MetricsInv /\ [ProcessNext]_processVars => MetricsInv'
    <2> SUFFICES ASSUME MetricsInv, [ProcessNext]_processVars PROVE MetricsInv'
      OBVIOUS
    <2>1. CASE AppInit
      <3>1. /\ GetOrInit("app") /\ appHas' = appHas
            /\ appInit' = (IF once' = None THEN "panicked" ELSE "done")
            /\ UNCHANGED <<pc, target, maps, panicked>>
        BY <2>1 DEF AppInit
      <3>2. /\ once' \in Registries \union {None}
            /\ registered' \in [Registries -> 0..Count]
            /\ LeftByClash'
            /\ \A q \in Registries : registered'[q] = Count <=> q = once'
            /\ once # None => once' = once
            /\ once' = None => Clashes("app")
        BY <3>1, GetOrInitKeeps DEF Registries
      <3>3. ProcessTypeOK' /\ MadeAfterInit'
        BY <3>1, <3>2 DEF MetricsInv, ProcessTypeOK, MadeAfterInit
      <3>4. OneDBMetrics'
        <4>1. \A i \in DOMAIN maps : maps[i].metrics = once'
          <5>1. CASE maps = <<>>
            BY <5>1
          <5>2. CASE maps # <<>>
            BY <5>2, <3>2 DEF MetricsInv, OneDBMetrics, MadeAfterInit
          <5> QED BY <5>1, <5>2
        <4> QED BY <4>1, <3>1, <3>2 DEF MetricsInv, OneDBMetrics, Clashes
      <3> QED BY <3>2, <3>3, <3>4 DEF MetricsInv
    <2>2. ASSUME \/ Open
                 \/ \E d \in Dbs : TakeArc(d) \/ DropArc(d) \/ ClearDrops(d) \/ ClearCreates(d)
          PROVE  MetricsInv'
      <3>1. UNCHANGED <<appHas, once, registered, appInit, pc, target, maps, panicked>>
        BY <2>2 DEF Open, TakeArc, DropArc, ClearDrops, ClearCreates, SetCf, metrics
      <3> QED BY <3>1 DEF MetricsInv, ProcessTypeOK, MadeAfterInit, LeftByClash,
                          OneDBMetrics, Clashes
    <2>3. ASSUME NEW t \in Threads, NEW d \in Dbs, MapNew(t, d) PROVE MetricsInv'
      <3>1. /\ UNCHANGED <<appHas, once, registered, appInit, maps, panicked>>
            /\ pc' = [pc EXCEPT ![t] = "get"] /\ target' = [target EXCEPT ![t] = d]
        BY <2>3 DEF MapNew, metrics
      <3>2. ProcessTypeOK'
        BY <3>1 DEF MetricsInv, ProcessTypeOK
      <3>3. MadeAfterInit'
        BY <3>1 DEF MetricsInv, ProcessTypeOK, MadeAfterInit
      <3> QED BY <3>1, <3>2, <3>3 DEF MetricsInv, LeftByClash, OneDBMetrics, Clashes
    <2>4. ASSUME NEW t \in Threads, MetricsGet(t) PROVE MetricsInv'
      <3>1. /\ UNCHANGED <<appHas, once, registered, appInit, maps, panicked, target>>
            /\ pc' = [pc EXCEPT ![t] = IF once # None THEN "spawn" ELSE "init"]
        BY <2>4 DEF MetricsGet, metrics
      <3>2. ProcessTypeOK'
        BY <3>1 DEF MetricsInv, ProcessTypeOK
      <3>3. MadeAfterInit'
        BY <3>1 DEF MetricsInv, ProcessTypeOK, MadeAfterInit
      <3> QED BY <3>1, <3>2, <3>3 DEF MetricsInv, LeftByClash, OneDBMetrics, Clashes
    <2>5. ASSUME NEW t \in Threads, MetricsInit(t) PROVE MetricsInv'
      <3>1. /\ GetOrInit("default")
            /\ pc' = [pc EXCEPT ![t] = IF once' = None THEN "idle" ELSE "spawn"]
            /\ target' = [target EXCEPT ![t] = IF once' = None THEN None ELSE @]
            /\ panicked' = (panicked \/ once' = None)
            /\ UNCHANGED <<appHas, appInit, maps>>
        BY <2>5 DEF MetricsInit
      <3>2. /\ once' \in Registries \union {None}
            /\ registered' \in [Registries -> 0..Count]
            /\ LeftByClash'
            /\ \A q \in Registries : registered'[q] = Count <=> q = once'
            /\ once # None => once' = once
            /\ once' = None => Clashes("default")
        BY <3>1, GetOrInitKeeps DEF Registries
      <3>3. ProcessTypeOK'
        BY <3>1, <3>2 DEF MetricsInv, ProcessTypeOK
      <3>4. MadeAfterInit'
        BY <3>1, <3>2 DEF MetricsInv, ProcessTypeOK, MadeAfterInit
      <3>5. OneDBMetrics'
        <4>1. \A i \in DOMAIN maps : maps[i].metrics = once'
          <5>1. CASE maps = <<>>
            BY <5>1
          <5>2. CASE maps # <<>>
            BY <5>2, <3>2 DEF MetricsInv, OneDBMetrics, MadeAfterInit
          <5> QED BY <5>1, <5>2
        <4> QED BY <4>1, <3>1, <3>2 DEF MetricsInv, OneDBMetrics, Clashes
      <3> QED BY <3>2, <3>3, <3>4, <3>5 DEF MetricsInv
    <2>6. ASSUME NEW t \in Threads, Spawn(t) PROVE MetricsInv'
      <3> DEFINE m == [db |-> target[t], clones |-> 1, metrics |-> once, task |-> "select"]
      <3>1. /\ maps' = Append(maps, m) /\ once # None
            /\ pc' = [pc EXCEPT ![t] = "idle"] /\ target' = [target EXCEPT ![t] = None]
            /\ UNCHANGED <<appHas, once, registered, appInit, panicked>>
        BY <2>6 DEF Spawn, metrics, MetricsInv, MadeAfterInit
      <3>2. m \in MapRecords /\ maps \in Seq(MapRecords)
        BY DEF MetricsInv, ProcessTypeOK, MapRecords
      <3>3. /\ maps' \in Seq(MapRecords) /\ DOMAIN maps' = 1..(Len(maps) + 1)
            /\ DOMAIN maps = 1..Len(maps) /\ Len(maps) \in Nat
            /\ maps'[Len(maps) + 1] = m /\ \A i \in 1..Len(maps) : maps'[i] = maps[i]
        BY <3>1, <3>2
      <3>4. ProcessTypeOK' /\ MadeAfterInit' /\ LeftByClash'
        BY <3>1, <3>3 DEF MetricsInv, ProcessTypeOK, MadeAfterInit, LeftByClash
      <3>5. \A i \in DOMAIN maps' : i \in DOMAIN maps \/ i = Len(maps) + 1
        BY <3>3
      <3>6. OneDBMetrics'
        BY <3>1, <3>3, <3>5 DEF MetricsInv, OneDBMetrics, Clashes
      <3> QED BY <3>4, <3>6 DEF MetricsInv
    <2>7. ASSUME NEW i \in DOMAIN maps, MapStep(i) PROVE MetricsInv'
      <3>1. maps[i] \in MapRecords
        BY DEF MetricsInv, ProcessTypeOK
      <3>2. CASE CloneMap(i)
        <4> DEFINE m == [maps[i] EXCEPT !.clones = @ + 1]
        <4>1. m \in MapRecords /\ m.metrics = maps[i].metrics /\ SetMap(i, m)
          BY <3>1, <3>2 DEF CloneMap, MapRecords
        <4> QED BY <4>1, MapStepKeepsInv
      <3>3. CASE DropMap(i)
        <4> DEFINE m == [maps[i] EXCEPT !.clones = @ - 1]
        <4>1. m \in MapRecords /\ m.metrics = maps[i].metrics /\ SetMap(i, m)
          BY <3>1, <3>3 DEF DropMap, MapRecords
        <4> QED BY <4>1, MapStepKeepsInv
      <3>4. CASE Tick(i)
        <4> DEFINE m == [maps[i] EXCEPT !.task = "reporting"]
        <4>1. m \in MapRecords /\ m.metrics = maps[i].metrics /\ SetMap(i, m)
          BY <3>1, <3>4 DEF Tick, MapRecords
        <4> QED BY <4>1, MapStepKeepsInv
      <3>5. CASE ReportGauges(i)
        <4> DEFINE m == [maps[i] EXCEPT !.task = IF cf[maps[i].db] = "there" THEN "reported"
                                                                         ELSE "failed"]
        <4>1. m \in MapRecords /\ m.metrics = maps[i].metrics /\ SetMap(i, m)
          BY <3>1, <3>5 DEF ReportGauges, MapRecords
        <4> QED BY <4>1, MapStepKeepsInv
      <3>6. CASE ReportEnds(i)
        <4> DEFINE m == [maps[i] EXCEPT !.task = "select"]
        <4>1. m \in MapRecords /\ m.metrics = maps[i].metrics /\ SetMap(i, m)
          BY <3>1, <3>6 DEF ReportEnds, MapRecords
        <4> QED BY <4>1, MapStepKeepsInv
      <3>7. CASE TaskEnds(i)
        <4> DEFINE m == [maps[i] EXCEPT !.task = "ended"]
        <4>1. m \in MapRecords /\ m.metrics = maps[i].metrics /\ SetMap(i, m)
          BY <3>1, <3>7 DEF TaskEnds, MapRecords
        <4> QED BY <4>1, MapStepKeepsInv
      <3> QED BY <2>7, <3>2, <3>3, <3>4, <3>5, <3>6, <3>7 DEF MapStep
    <2>8. CASE UNCHANGED processVars
      <3>1. UNCHANGED <<appHas, once, registered, appInit, pc, target, maps, panicked>>
        BY <2>8 DEF processVars, metrics
      <3> QED BY <3>1 DEF MetricsInv, ProcessTypeOK, MadeAfterInit, LeftByClash,
                          OneDBMetrics, Clashes
    <2> QED BY <2>1, <2>2, <2>3, <2>4, <2>5, <2>6, <2>7, <2>8 DEF ProcessNext
  <1> QED BY <1>1, <1>2, PTL DEF ProcessSpec

\* The process has one DBMetrics, complete, that all its maps use, however
\* init and the first maps race (metrics.rs:809, 849-853).
THEOREM MetricsAreShared == ProcessSpec => []OneDBMetrics
  <1>1. MetricsInv => OneDBMetrics
    BY DEF MetricsInv
  <1> QED BY <1>1, MetricsInvariance, PTL
=============================================================================
