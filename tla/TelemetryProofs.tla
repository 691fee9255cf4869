-------------------------- MODULE TelemetryProofs ---------------------------
(***************************************************************************)
(* For any number of threads, configs and lines, and any length of the queue: *)
(* the first init wins, a crash leaves a message, and what was accepted is     *)
(* written when the guards are dropped in time.                                *)
(***************************************************************************)
EXTENDS Telemetry, TLAPS

\* Where the thread of the subscriber and a panicking thread can be.
ThreadsFit ==
    \A t \in Threads :
        /\ subscriber = t => pc[t] \in {"hook", "ready", "panicking", "dead"}
        /\ panic[t] \in {"plain", "event", "print", "flush"} => pc[t] = "panicking"
        /\ panic[t] = "flush" => t \in printed

\* Up to its place p, the queue has only lines.
LinesBefore(p) == \A i \in 1..Len(queue) : i < p => queue[i] = "line"

\* What the guard says of the queue: all that was accepted is written, or in the
\* queue before the end.
GuardFits ==
    /\ Kept => guard = "held"
    /\ guard = None => accepted = 0 /\ worker = "none" /\ queue = <<>>
    /\ guard = "held" => LinesBefore(Len(queue) + 1) /\ written + Len(queue) \geq accepted
    /\ guard = "dropping" =>
          \E p \in 1..Len(queue) :
             queue[p] = "end" /\ LinesBefore(p) /\ written + (p - 1) \geq accepted

LogInv ==
    /\ TypeOK /\ ThreadsFit /\ GuardFits
    /\ FirstInitWins /\ CrashLeavesAMessage /\ FlushedOnDrop

-----------------------------------------------------------------------------
(* The start, and the threads.                                               *)

\* The queue is empty at first.
LEMMA NoLines == << >> \in Seq({"line", "end"})
OBVIOUS

\* The invariant holds at the start.
LEMMA InitInv == Init => LogInv
<1> SUFFICES ASSUME Init PROVE LogInv
  OBVIOUS
<1> USE TelemetryAssumption DEF Init
<1>1. TypeOK
  <2>1. queue \in Seq({"line", "end"}) /\ accepted \in Nat /\ written \in Nat
    BY NoLines
  <2>2. DOMAIN config = Threads /\ printed \subseteq Threads
    OBVIOUS
  <2> QED
    BY <2>1, <2>2 DEF TypeOK
<1>2. ThreadsFit
  BY DEF ThreadsFit
<1>3. GuardFits
  BY DEF GuardFits, Kept
<1>4. FirstInitWins /\ CrashLeavesAMessage /\ FlushedOnDrop
  BY DEF FirstInitWins, CrashLeavesAMessage, FlushedOnDrop
<1> QED
  BY <1>1, <1>2, <1>3, <1>4 DEF LogInv

\* A line offered to the queue leaves its type, and the guard, alone.
LEMMA OfferType ==
    ASSUME TypeOK, NEW level, Offer(level)
    PROVE  /\ queue' \in Seq({"line", "end"}) /\ accepted' \in Nat /\ written' \in Nat
           /\ UNCHANGED <<guard, worker, written>>
BY DEF TypeOK, Offer

\* So does the drop of the guard.
LEMMA DropType ==
    ASSUME TypeOK, DropGuard
    PROVE  queue' \in Seq({"line", "end"}) /\ UNCHANGED <<accepted, written>>
<1>1. queue \in Seq({"line", "end"}) => Append(queue, "end") \in Seq({"line", "end"})
  OBVIOUS
<1> QED
  BY <1>1 DEF TypeOK, DropGuard

\* Every step keeps the types.
LEMMA TypeStep == LogInv /\ Next => TypeOK'
<1> SUFFICES ASSUME LogInv, Next PROVE TypeOK'
  OBVIOUS
<1>0. TypeOK
  BY DEF LogInv
<1>1. CASE WorkerWrites
  BY <1>0, <1>1 DEF WorkerWrites, TypeOK, setup, panics
<1>2. CASE GuardTimesOut
  BY <1>0, <1>2 DEF GuardTimesOut, TypeOK, setup, panics
<1>3. CASE ProcessReturns
  BY <1>0, <1>3 DEF ProcessReturns, TypeOK, setup, panics, output
<1>4. ASSUME NEW t \in Threads, ThreadStep(t) PROVE TypeOK'
  <2> USE <1>0 DEF TypeOK, setup, panics, output, Go, StartPanic
  <2>1. CASE InitLayers(t)
    BY <2>1 DEF InitLayers
  <2>2. CASE InitSubscriber(t)
    BY <2>2 DEF InitSubscriber
  <2>3. CASE InitHook(t)
    BY <2>3 DEF InitHook
  <2>4. CASE InitForTesting(t)
    BY <2>4 DEF InitForTesting
  <2>5. CASE UpdateFilter(t)
    BY <2>5 DEF UpdateFilter
  <2>6. CASE Log(t)
    <3>1. PICK level : Offer(level)
      BY <2>6 DEF Log
    <3> QED
      BY <2>6, <3>1, OfferType DEF Log
  <2>7. CASE MainEnds(t)
    BY <2>7, DropType DEF MainEnds
  <2>8. CASE Panics(t)
    BY <2>8 DEF Panics
  <2>9. CASE PanicEvent(t)
    <3>1. Offer("error")
      BY <2>9 DEF PanicEvent
    <3> QED
      BY <2>9, <3>1, OfferType DEF PanicEvent, SetPanic
  <2>10. CASE PanicPrints(t)
    BY <2>10 DEF PanicPrints, SetPanic
  <2>11. CASE PanicEnds(t)
    BY <2>11 DEF PanicEnds, SetPanic
  <2>12. CASE Unwinds(t)
    BY <2>12, DropType DEF Unwinds
  <2> QED
    BY <1>4, <2>1, <2>2, <2>3, <2>4, <2>5, <2>6, <2>7, <2>8, <2>9, <2>10, <2>11, <2>12
       DEF ThreadStep
<1> QED
  BY <1>1, <1>2, <1>3, <1>4 DEF Next

\* Every step keeps the threads where they can be, the hook and the guards with
\* the first init, and a crash behind its message.
LEMMA ThreadsStep ==
    LogInv /\ Next => ThreadsFit' /\ FirstInitWins' /\ CrashLeavesAMessage'
<1> SUFFICES ASSUME LogInv, Next PROVE ThreadsFit' /\ FirstInitWins' /\ CrashLeavesAMessage'
  OBVIOUS
<1>0. TypeOK /\ ThreadsFit /\ FirstInitWins /\ CrashLeavesAMessage
  BY DEF LogInv
<1> USE <1>0, TelemetryAssumption
    DEF TypeOK, ThreadsFit, FirstInitWins, CrashLeavesAMessage, setup, panics, output, Up
<1>1. CASE WorkerWrites
  BY <1>1 DEF WorkerWrites
<1>2. CASE GuardTimesOut
  BY <1>2 DEF GuardTimesOut
<1>3. CASE ProcessReturns
  BY <1>3 DEF ProcessReturns
<1>4. ASSUME NEW t \in Threads, ThreadStep(t)
      PROVE  ThreadsFit' /\ FirstInitWins' /\ CrashLeavesAMessage'
  <2> USE DEF Go, StartPanic
  <2>1. CASE InitLayers(t)
    <3>1. /\ subscriber # t /\ UNCHANGED <<subscriber, process, hook, guard, printed>>
          /\ \A u \in Threads : u # t => config'[u] = config[u]
      BY <2>1 DEF InitLayers
    <3>2. \/ pc' = [pc EXCEPT ![t] = "output"] /\ UNCHANGED panic
          \/ StartPanic(t)
      BY <2>1 DEF InitLayers
    <3>3. process = "up" /\ pc[t] = "idle"
      BY <2>1 DEF InitLayers
    <3> QED
      BY <3>1, <3>2, <3>3
  <2>2. CASE InitSubscriber(t)
    <3>1. /\ UNCHANGED <<config, process, hook, printed>> /\ process = "up"
          /\ pc[t] = "output"
      BY <2>2 DEF InitSubscriber
    <3>2. CASE subscriber = None
      <4>1. /\ subscriber' = t /\ UNCHANGED panic
            /\ pc' = [pc EXCEPT ![t] = "hook"] /\ hook = None
        BY <2>2, <3>2 DEF InitSubscriber
      <4> QED
        BY <3>1, <3>2, <4>1
    <3>3. CASE subscriber # None
      <4>1. UNCHANGED <<subscriber, guard>> /\ StartPanic(t)
        BY <2>2, <3>3 DEF InitSubscriber
      <4> QED
        BY <3>1, <4>1
    <3> QED
      BY <3>2, <3>3
  <2>3. CASE InitHook(t)
    BY <2>3 DEF InitHook
  <2>4. CASE InitForTesting(t)
    BY <2>4 DEF InitForTesting
  <2>5. CASE UpdateFilter(t)
    BY <2>5 DEF UpdateFilter
  <2>6. CASE Log(t)
    BY <2>6, OfferType DEF Log
  <2>7. CASE MainEnds(t)
    BY <2>7 DEF MainEnds, DropGuard
  <2>8. CASE Panics(t)
    BY <2>8 DEF Panics
  <2>9. CASE PanicEvent(t)
    BY <2>9, OfferType DEF PanicEvent, SetPanic
  <2>10. CASE PanicPrints(t)
    BY <2>10 DEF PanicPrints, SetPanic
  <2>11. CASE PanicEnds(t)
    BY <2>11 DEF PanicEnds, SetPanic
  <2>12. CASE Unwinds(t)
    BY <2>12 DEF Unwinds, DropGuard
  <2> QED
    BY <1>4, <2>1, <2>2, <2>3, <2>4, <2>5, <2>6, <2>7, <2>8, <2>9, <2>10, <2>11, <2>12
       DEF ThreadStep
<1> QED
  BY <1>1, <1>2, <1>3, <1>4 DEF Next

-----------------------------------------------------------------------------
(* The guard and the queue.                                                  *)

\* A step that leaves queue and guard alone, and brings no guard back.
LEMMA QuietStep ==
    ASSUME LogInv, UNCHANGED <<guard, worker, queue, accepted, written>>, Kept' => Kept
    PROVE  GuardFits' /\ FlushedOnDrop'
BY DEF LogInv, GuardFits, FlushedOnDrop, LinesBefore

\* A line comes after whatever the guard waits for, or is counted while no
\* guard waits.
LEMMA OfferStep ==
    ASSUME LogInv, NEW level, Offer(level), Kept' => Kept
    PROVE  GuardFits' /\ FlushedOnDrop'
<1>1. CASE Offered(level) /\ Len(queue) < Queue
  <2>0. /\ queue \in Seq({"line", "end"}) /\ accepted \in Nat /\ written \in Nat
        /\ GuardFits /\ FlushedOnDrop
    BY DEF LogInv, TypeOK
  <2>1. /\ queue' = Append(queue, "line") /\ UNCHANGED <<guard, worker, written>>
        /\ accepted' = IF Kept THEN accepted + 1 ELSE accepted
        /\ worker = "running"
    BY <1>1 DEF Offer, Offered
  <2>2. /\ Len(queue') = Len(queue) + 1
        /\ queue'[Len(queue) + 1] = "line"
        /\ \A i \in 1..Len(queue) : queue'[i] = queue[i]
    BY <2>0, <2>1
  <2>3. guard # None
    BY <2>0, <2>1 DEF GuardFits
  <2>4. CASE guard = "held"
    <3>1. LinesBefore(Len(queue) + 1)' /\ written' + Len(queue') \geq accepted'
      BY <2>0, <2>1, <2>2, <2>4 DEF GuardFits, LinesBefore
    <3>2. LinesBefore(Len(queue) + 1)
      BY <2>0, <2>4 DEF GuardFits
    <3>3. \A i \in 1..Len(queue') : queue'[i] = "line"
      <4> SUFFICES ASSUME NEW i \in 1..Len(queue') PROVE queue'[i] = "line"
        OBVIOUS
      <4>1. i \in 1..Len(queue) \/ i = Len(queue) + 1
        BY <2>0, <2>2
      <4> QED
        BY <2>0, <2>2, <3>2, <4>1 DEF LinesBefore
    <3> QED
      BY <2>1, <2>3, <2>4, <3>1, <3>3 DEF GuardFits, LinesBefore, FlushedOnDrop
  <2>5. CASE guard # "held"
    <3>1. ~Kept /\ accepted' = accepted
      BY <2>0, <2>1, <2>5 DEF GuardFits
    <3>2. ASSUME guard = "dropping"
          PROVE  \E p \in 1..Len(queue') :
                    queue'[p] = "end" /\ LinesBefore(p)' /\ written' + (p - 1) \geq accepted'
      <4>1. PICK p \in 1..Len(queue) :
                queue[p] = "end" /\ LinesBefore(p) /\ written + (p - 1) \geq accepted
        BY <2>0, <3>2 DEF GuardFits
      <4>2. p \in 1..Len(queue') /\ queue'[p] = "end" /\ written' + (p - 1) \geq accepted'
        BY <2>0, <2>1, <2>2, <3>1, <4>1
      <4>3. LinesBefore(p)'
        BY <2>0, <2>2, <4>1 DEF LinesBefore
      <4> QED
        BY <4>2, <4>3
    <3> QED
      BY <2>0, <2>1, <2>3, <2>5, <3>1, <3>2 DEF GuardFits, FlushedOnDrop
  <2> QED
    BY <2>4, <2>5
<1>2. CASE ~(Offered(level) /\ Len(queue) < Queue)
  BY <1>2, QuietStep DEF Offer
<1> QED
  BY <1>1, <1>2

\* The end that the guard sends comes after all that was accepted.
LEMMA DropStep ==
    ASSUME LogInv, DropGuard, ~Kept'
    PROVE  GuardFits' /\ FlushedOnDrop'
<1>0. /\ queue \in Seq({"line", "end"}) /\ accepted \in Nat /\ written \in Nat
      /\ guard = "held" /\ LinesBefore(Len(queue) + 1)
      /\ written + Len(queue) \geq accepted
  BY DEF LogInv, TypeOK, GuardFits, DropGuard
<1>1. UNCHANGED <<accepted, written>>
  BY DEF DropGuard
<1>2. CASE guard' = "timed out"
  BY <1>2, TelemetryAssumption DEF GuardFits, FlushedOnDrop
<1>3. CASE queue' = Append(queue, "end") /\ guard' = "dropping"
  <2>1. /\ Len(queue') = Len(queue) + 1 /\ Len(queue) \in Nat
        /\ queue'[Len(queue) + 1] = "end"
        /\ \A i \in 1..Len(queue) : queue'[i] = queue[i]
    BY <1>0, <1>3
  <2>2. \A i \in 1..Len(queue') : i < Len(queue) + 1 => queue'[i] = "line"
    BY <1>0, <2>1 DEF LinesBefore
  <2>3. \E p \in 1..Len(queue') :
            queue'[p] = "end" /\ LinesBefore(p)' /\ written' + (p - 1) \geq accepted'
    <3>1. PICK n \in Nat : n = Len(queue) + 1
      BY <2>1
    <3>2. LinesBefore(n)'
      BY <2>1, <2>2, <3>1 DEF LinesBefore
    <3>3. n \in 1..Len(queue') /\ written' + (n - 1) \geq accepted' /\ queue'[n] = "end"
      BY <1>0, <1>1, <2>1, <3>1
    <3> QED
      BY <3>2, <3>3
  <2> QED
    BY <1>3, <2>3, TelemetryAssumption DEF GuardFits, FlushedOnDrop
<1> QED
  BY <1>2, <1>3 DEF DropGuard

\* The worker gets closer to the end, and has written all that was accepted when
\* it takes it.
LEMMA WorkerStep ==
    ASSUME LogInv, WorkerWrites
    PROVE  GuardFits' /\ FlushedOnDrop'
<1>0. /\ queue \in Seq({"line", "end"}) /\ accepted \in Nat /\ written \in Nat
      /\ GuardFits /\ FlushedOnDrop /\ queue # << >>
  BY DEF LogInv, TypeOK, WorkerWrites
<1>1. /\ Len(queue) \in Nat \ {0} /\ Len(queue') = Len(queue) - 1
      /\ Head(queue) = queue[1] /\ queue[1] \in {"line", "end"}
      /\ \A i \in 1..Len(queue') : queue'[i] = queue[i + 1]
  BY <1>0 DEF WorkerWrites
<1>2. UNCHANGED <<subscriber, pc, accepted>> /\ (Kept' <=> Kept) /\ guard # None
  BY <1>0 DEF WorkerWrites, setup, Kept, GuardFits
<1>3. CASE Head(queue) = "end"
  <2>1. UNCHANGED written /\ guard' = IF guard = "dropping" THEN "flushed" ELSE guard
    BY <1>3 DEF WorkerWrites
  <2>2. guard # "held" /\ ~Kept'
    BY <1>0, <1>1, <1>2, <1>3 DEF GuardFits, LinesBefore
  <2>3. ASSUME guard = "dropping" PROVE written \geq accepted
    <3>1. PICK p \in 1..Len(queue) :
              queue[p] = "end" /\ LinesBefore(p) /\ written + (p - 1) \geq accepted
      BY <1>0, <2>3 DEF GuardFits
    <3>2. p = 1
      BY <1>1, <1>3, <3>1 DEF LinesBefore
    <3> QED
      BY <1>0, <3>1, <3>2
  <2>4. guard' \notin {None, "held", "dropping"}
    BY <1>2, <2>1, <2>2, TelemetryAssumption
  <2> QED
    BY <1>0, <1>2, <2>1, <2>2, <2>3, <2>4 DEF GuardFits, FlushedOnDrop
<1>4. CASE Head(queue) = "line"
  <2>1. written' = written + 1 /\ UNCHANGED <<guard, worker>>
    BY <1>4 DEF WorkerWrites
  <2>2. ASSUME guard = "held"
        PROVE  LinesBefore(Len(queue) + 1)' /\ written' + Len(queue') \geq accepted'
    <3>1. LinesBefore(Len(queue) + 1) /\ written + Len(queue) \geq accepted
      BY <1>0, <2>2 DEF GuardFits
    <3>2. \A i \in 1..Len(queue') : queue'[i] = "line"
      BY <1>1, <3>1 DEF LinesBefore
    <3> QED
      BY <1>0, <1>1, <1>2, <2>1, <3>1, <3>2 DEF LinesBefore
  <2>3. ASSUME guard = "dropping"
        PROVE  \E p \in 1..Len(queue') :
                  queue'[p] = "end" /\ LinesBefore(p)' /\ written' + (p - 1) \geq accepted'
    <3>1. PICK p \in 1..Len(queue) :
              queue[p] = "end" /\ LinesBefore(p) /\ written + (p - 1) \geq accepted
      BY <1>0, <2>3 DEF GuardFits
    <3>2. p # 1
      BY <1>1, <1>4, <3>1
    <3>3. p - 1 \in 1..Len(queue') /\ queue'[p - 1] = "end"
          /\ written' + ((p - 1) - 1) \geq accepted'
      BY <1>0, <1>1, <1>2, <2>1, <3>1, <3>2
    <3>4. LinesBefore(p - 1)'
      BY <1>1, <3>1 DEF LinesBefore
    <3> QED
      BY <3>3, <3>4
  <2>4. FlushedOnDrop'
    BY <1>0, <1>2, <2>1 DEF FlushedOnDrop
  <2> QED
    BY <1>0, <1>2, <2>1, <2>2, <2>3, <2>4 DEF GuardFits
<1> QED
  BY <1>1, <1>3, <1>4

\* Every step keeps what the guard says of the queue.
LEMMA GuardStep == LogInv /\ Next => GuardFits' /\ FlushedOnDrop'
<1> SUFFICES ASSUME LogInv, Next PROVE GuardFits' /\ FlushedOnDrop'
  OBVIOUS
<1>0. TypeOK /\ ThreadsFit /\ GuardFits /\ FirstInitWins /\ FlushedOnDrop
  BY DEF LogInv
<1>1. CASE WorkerWrites
  BY <1>1, WorkerStep
<1>2. CASE GuardTimesOut
  <2>1. guard = "dropping" /\ guard' = "timed out" /\ (Kept' <=> Kept)
    BY <1>2 DEF GuardTimesOut, Kept, setup
  <2> QED
    BY <1>0, <2>1, TelemetryAssumption DEF GuardFits, FlushedOnDrop
<1>3. CASE ProcessReturns
  <2>1. UNCHANGED <<guard, worker, queue, accepted, written>> /\ (Kept' <=> Kept)
    BY <1>3 DEF ProcessReturns, Kept, setup, output
  <2> QED
    BY <2>1, QuietStep
<1>4. ASSUME NEW t \in Threads, ThreadStep(t) PROVE GuardFits' /\ FlushedOnDrop'
  <2> USE DEF setup, panics, output
  <2>1. ASSUME UNCHANGED <<subscriber, guard, worker, queue, accepted, written>>,
               NEW p, pc[t] # "dead", Go(t, p)
        PROVE  GuardFits' /\ FlushedOnDrop'
    <3>1. Kept' => Kept
      BY <1>0, <2>1 DEF Kept, Go, TypeOK
    <3> QED
      BY <2>1, <3>1, QuietStep
  <2>2. ASSUME UNCHANGED <<subscriber, pc, guard, worker, queue, accepted, written>>
        PROVE  GuardFits' /\ FlushedOnDrop'
    <3>1. Kept' => Kept
      BY <2>2 DEF Kept
    <3> QED
      BY <2>2, <3>1, QuietStep
  <2>3. ASSUME UNCHANGED <<subscriber, pc>>, NEW level, Offer(level)
        PROVE  GuardFits' /\ FlushedOnDrop'
    <3>1. Kept' => Kept
      BY <2>3 DEF Kept
    <3> QED
      BY <2>3, <3>1, OfferStep
  <2>4. ASSUME UNCHANGED subscriber, subscriber = t, DropGuard, Go(t, "dead")
        PROVE  GuardFits' /\ FlushedOnDrop'
    <3>1. ~Kept'
      BY <1>0, <2>4 DEF Kept, Go, TypeOK
    <3> QED
      BY <2>4, <3>1, DropStep
  <2>5. CASE InitLayers(t)
    <3>1. pc[t] # "dead" /\ UNCHANGED <<subscriber, guard, worker, queue, accepted, written>>
      BY <2>5 DEF InitLayers
    <3>2. Go(t, "output") \/ Go(t, "panicking")
      BY <2>5 DEF InitLayers, StartPanic
    <3> QED
      BY <2>1, <3>1, <3>2
  <2>6. CASE InitSubscriber(t)
    <3>1. CASE subscriber = None
      <4>1. guard = None
        BY <1>0, <3>1, TelemetryAssumption DEF FirstInitWins
      <4>2. guard' = "held" /\ UNCHANGED <<queue, accepted, written>>
        BY <2>6, <3>1 DEF InitSubscriber
      <4>3. accepted = 0 /\ queue = << >> /\ written \in Nat
        BY <1>0, <4>1 DEF GuardFits, TypeOK
      <4>4. LinesBefore(Len(queue) + 1)' /\ written' + Len(queue') \geq accepted'
        BY <4>2, <4>3 DEF LinesBefore
      <4> QED
        BY <4>2, <4>4, TelemetryAssumption DEF GuardFits, FlushedOnDrop
    <3>2. CASE subscriber # None
      <4>1. pc[t] # "dead" /\ UNCHANGED <<subscriber, guard, worker, queue, accepted, written>>
        BY <2>6, <3>2 DEF InitSubscriber
      <4>2. Go(t, "panicking")
        BY <2>6, <3>2 DEF InitSubscriber, StartPanic
      <4> QED
        BY <2>1, <4>1, <4>2
    <3> QED
      BY <3>1, <3>2
  <2>7. CASE InitHook(t)
    <3>1. /\ pc[t] # "dead" /\ Go(t, "ready")
          /\ UNCHANGED <<subscriber, guard, worker, queue, accepted, written>>
      BY <2>7 DEF InitHook
    <3> QED
      BY <2>1, <3>1
  <2>8. CASE InitForTesting(t)
    <3>1. pc[t] # "dead" /\ UNCHANGED <<guard, worker, queue, accepted, written>>
      BY <2>8 DEF InitForTesting
    <3>2. \/ UNCHANGED subscriber /\ Go(t, "panicking")
          \/ subscriber' = "testing"
      BY <2>8 DEF InitForTesting, StartPanic
    <3>3. ASSUME subscriber' = "testing" PROVE ~Kept'
      BY <3>3, TelemetryAssumption DEF Kept
    <3> QED
      BY <2>1, <3>1, <3>2, <3>3, QuietStep
  <2>9. CASE UpdateFilter(t)
    BY <2>2, <2>9 DEF UpdateFilter
  <2>10. CASE Log(t)
    BY <2>3, <2>10 DEF Log
  <2>11. CASE MainEnds(t)
    <3>1. subscriber = t
      BY <1>0, <2>11 DEF MainEnds, FirstInitWins
    <3> QED
      BY <2>4, <2>11, <3>1 DEF MainEnds
  <2>12. CASE Panics(t)
    <3>1. /\ pc[t] # "dead" /\ Go(t, "panicking")
          /\ UNCHANGED <<subscriber, guard, worker, queue, accepted, written>>
      BY <2>12 DEF Panics, StartPanic
    <3> QED
      BY <2>1, <3>1
  <2>13. CASE PanicEvent(t)
    BY <2>3, <2>13 DEF PanicEvent
  <2>14. CASE PanicPrints(t)
    BY <2>2, <2>14 DEF PanicPrints
  <2>15. CASE PanicEnds(t)
    BY <2>2, <2>15 DEF PanicEnds
  <2>16. CASE Unwinds(t)
    <3>1. CASE subscriber = t
      BY <2>4, <2>16, <3>1 DEF Unwinds
    <3>2. CASE subscriber # t
      BY <2>1, <2>16, <3>2 DEF Unwinds
    <3> QED
      BY <3>1, <3>2
  <2> QED
    BY <1>4, <2>5, <2>6, <2>7, <2>8, <2>9, <2>10, <2>11, <2>12, <2>13, <2>14, <2>15, <2>16
       DEF ThreadStep
<1> QED
  BY <1>1, <1>2, <1>3, <1>4 DEF Next

-----------------------------------------------------------------------------
(* Theorems.                                                                 *)

\* The inductive invariant of the logging setup: types, where threads can be
\* (lib.rs:400-414), and what the guard says of the queue.
THEOREM LoggingInvariance == Spec => []LogInv
<1>1. LogInv /\ [Next]_vars => LogInv'
  <2> SUFFICES ASSUME LogInv, [Next]_vars PROVE LogInv'
    OBVIOUS
  <2>1. CASE Next
    BY <2>1, TypeStep, ThreadsStep, GuardStep DEF LogInv
  <2>2. CASE UNCHANGED vars
    BY <2>2 DEF vars, setup, panics, output, LogInv, TypeOK, ThreadsFit, GuardFits,
                LinesBefore, Kept, FirstInitWins, CrashLeavesAMessage, FlushedOnDrop
  <2> QED
    BY <2>1, <2>2
<1> QED
  BY <1>1, InitInv, PTL DEF Spec

\* Of any number of racing inits, the hook, the guards and the filter handle are
\* those of the one whose subscriber is in use (lib.rs:400-414).
THEOREM OneInitWins == Spec => []FirstInitWins
<1>1. LogInv => FirstInitWins
  BY DEF LogInv
<1> QED
  BY <1>1, LoggingInvariance, PTL

\* A process that the panic hook stops has printed the panic (lib.rs:228-237).
THEOREM CrashIsReported == Spec => []CrashLeavesAMessage
<1>1. LogInv => CrashLeavesAMessage
  BY DEF LogInv
<1> QED
  BY <1>1, LoggingInvariance, PTL

\* Guards that are dropped in time leave no accepted line unwritten
\* (lib.rs:406-407).
THEOREM DropFlushes == Spec => []FlushedOnDrop
<1>1. LogInv => FlushedOnDrop
  BY DEF LogInv
<1> QED
  BY <1>1, LoggingInvariance, PTL
=============================================================================
