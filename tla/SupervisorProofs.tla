-------------------------- MODULE SupervisorProofs --------------------------
(***************************************************************************)
(* Safety of supervision for every channel size, number of generations and    *)
(* number of reports.                                                         *)
(***************************************************************************)
EXTENDS Supervisor, TLAPS

\* The facts about the constants that arithmetic needs.
LEMMA Constants ==
    /\ MaxGenerations \in Nat /\ MaxGenerations > 0 /\ MaxReports \in Nat
    /\ ChannelSize \in Nat /\ ChannelSize > 0
    /\ \A g \in Generations : g \in Nat /\ g > 0 /\ g \leq MaxGenerations
    /\ \A g \in Nat : g > 0 /\ g \leq MaxGenerations => g \in Generations
  BY BoundsAssumption, ChannelSizeAssumption DEF Generations

\* Taking the head of a queue.
LEMMA QueueFacts ==
    ASSUME NEW S, NEW q \in Seq(S)
    PROVE  /\ Len(q) \in Nat
           /\ q # <<>> => /\ Head(q) \in S /\ Tail(q) \in Seq(S)
                          /\ Len(Tail(q)) = Len(q) - 1 /\ Len(q) > 0
  OBVIOUS

\* An empty queue of reports is a queue of reports.
LEMMA EmptyQueue ==
    /\ <<>> \in Seq(1..MaxReports) /\ Len(<<>>) = 0 /\ Len(<<>>) \leq ChannelSize
  <1>1. <<>> \in Seq(1..MaxReports) /\ Len(<<>>) = 0
    OBVIOUS
  <1> QED BY <1>1, Constants

\* The invariant holds before the first start.
LEMMA SupervisorInit == Init => IInv
  <1> SUFFICES ASSUME Init PROVE IInv
    OBVIOUS
  <1>1. TypeOK
    BY Constants DEF Init, TypeOK, TaskStates
  <1>2. Len(handled) = 0
    BY DEF Init
  <1>3. Bookkeeping
    BY <1>2, Constants DEF Init, Bookkeeping
  <1>4. OneHandlingPerGeneration /\ HandledBeforeCancelled
    BY <1>2, Constants DEF Init, OneHandlingPerGeneration, HandledBeforeCancelled
  <1> QED BY <1>1, <1>3, <1>4 DEF IInv

\* A step of a task changes only its own generation.
LEMMA TaskKeepsIInv ==
    ASSUME IInv, NEW g \in Generations, Report(g) \/ End(g) \/ Acknowledge(g)
    PROVE  IInv'
  <1>1. TypeOK /\ Bookkeeping
    BY DEF IInv
  <1>2. UNCHANGED <<phase, current, listening, cancelled, handled>>
    BY DEF Report, End, Acknowledge, supervisorVars
  <1>3. /\ \A h \in Generations \ {g} : /\ task'[h] = task[h] /\ sent'[h] = sent[h]
                                        /\ reports'[h] = reports[h]
        /\ task[g] \in {"running", "waiting"} /\ task'[g] # "absent"
        /\ task' \in [Generations -> TaskStates]
    BY <1>1 DEF Report, End, Acknowledge, TypeOK, TaskStates
  <1>4. CASE Report(g)
    <2>1. /\ reports[g] \in Seq(1..MaxReports) /\ sent[g] \in 0..MaxReports
          /\ sent[g] < MaxReports /\ Len(reports[g]) < ChannelSize
          /\ sent'[g] = sent[g] + 1
          /\ reports'[g] = Append(reports[g], sent[g] + 1)
          /\ sent' \in [Generations -> 0..MaxReports]
      BY <1>1, <1>4, Constants DEF Report, TypeOK
    <2>2. /\ reports'[g] \in Seq(1..MaxReports) /\ Len(reports'[g]) \leq ChannelSize
          /\ reports'[g] # <<>>
          /\ reports[g] = <<>> => Head(reports'[g]) = sent[g] + 1
          /\ reports[g] # <<>> => Head(reports'[g]) = Head(reports[g])
      <3>1. sent[g] + 1 \in 1..MaxReports
        BY <2>1, Constants
      <3>2. \A e \in 1..MaxReports, q \in Seq(1..MaxReports) :
              /\ Append(q, e) \in Seq(1..MaxReports) /\ Len(Append(q, e)) = Len(q) + 1
              /\ Append(q, e) # <<>>
              /\ q = <<>> => Head(Append(q, e)) = e
              /\ q # <<>> => Head(Append(q, e)) = Head(q)
        OBVIOUS
      <3>3. Len(reports[g]) \in Nat /\ Len(reports'[g]) = Len(reports[g]) + 1
        BY <2>1, <3>1, <3>2
      <3>4. Len(reports'[g]) \leq ChannelSize
        BY <2>1, <3>3, Constants
      <3> QED BY <2>1, <3>1, <3>2, <3>4
    <2>3. reports' \in [Generations -> Seq(1..MaxReports)]
      BY <1>1, <1>4, <2>1, <2>2 DEF Report, TypeOK
    <2>4. TypeOK'
      BY <1>1, <1>2, <1>3, <2>1, <2>2, <2>3 DEF TypeOK
    <2>5. Bookkeeping'
      <3>1. ASSUME phase # "dropped", g > Len(handled)
            PROVE  Head(reports'[g]) = 1
        <4>1. CASE sent[g] = 0
          BY <4>1, <1>1, <2>1, <2>2 DEF Bookkeeping
        <4>2. CASE sent[g] > 0
          BY <4>2, <3>1, <1>1, <2>2 DEF Bookkeeping
        <4> QED BY <4>1, <4>2, <2>1
      <3>2. ASSUME NEW h \in Generations
            PROVE  /\ task'[h] = "absent" => sent'[h] = 0 /\ ~cancelled'[h]
                   /\ sent'[h] = 0 => reports'[h] = <<>> /\ task'[h] # "waiting"
        BY <1>1, <1>2, <1>3, <2>1 DEF Bookkeeping
      <3>3. ASSUME phase # "dropped", NEW h \in Generations
            PROVE  /\ task[h] = "absent" <=> task'[h] = "absent"
                   /\ task'[h] \in {"running", "waiting"}
                        => task[h] \in {"running", "waiting"}
                   /\ h > Len(handled) /\ sent'[h] > 0
                        => reports'[h] # <<>> /\ Head(reports'[h]) = 1
        BY <1>1, <1>2, <1>3, <2>1, <2>2, <3>1, <3>3 DEF Bookkeeping
      <3> QED BY <1>1, <1>2, <3>2, <3>3 DEF Bookkeeping
    <2> QED BY <2>4, <2>5, <1>2 DEF IInv, OneHandlingPerGeneration,
               HandledBeforeCancelled
  <1>5. CASE End(g) \/ Acknowledge(g)
    <2>1. UNCHANGED <<sent, reports>> /\ task'[g] \in {"finished", "panicked"}
      BY <1>1, <1>5 DEF End, Acknowledge, TypeOK
    <2>2. TypeOK'
      BY <1>1, <1>2, <1>3, <2>1 DEF TypeOK
    <2>3. Bookkeeping'
      BY <1>1, <1>2, <1>3, <2>1 DEF Bookkeeping
    <2> QED BY <2>2, <2>3, <1>2 DEF IInv, OneHandlingPerGeneration,
               HandledBeforeCancelled
  <1> QED BY <1>4, <1>5

\* start spawns the next generation.
LEMMA StartSpawnsKeepsIInv ==
    ASSUME IInv, StartSpawns
    PROVE  IInv'
  <1> DEFINE n == current + 1
  <1>1. /\ TypeOK /\ Bookkeeping /\ OneHandlingPerGeneration
        /\ HandledBeforeCancelled
    BY DEF IInv
  <1>2. /\ phase = "starting" /\ phase' = "spawned" /\ n \in Generations
        /\ current \in Nat
        /\ UNCHANGED <<current, sent, reports, cancelled, handled>>
    BY <1>1, Constants DEF StartSpawns, TypeOK
  <1>3. /\ task'[n] = "running"
        /\ \A g \in Generations \ {n} : task'[g] = task[g]
        /\ task' \in [Generations -> TaskStates]
        /\ listening' \in [Generations -> BOOLEAN]
    BY <1>1, <1>2 DEF StartSpawns, TypeOK, TaskStates
  <1>4. Len(handled) = current
    BY <1>1, <1>2 DEF OneHandlingPerGeneration
  <1>5. TypeOK'
    BY <1>1, <1>2, <1>3 DEF TypeOK
  <1>6. Bookkeeping'
    BY <1>1, <1>2, <1>3, <1>4, Constants DEF Bookkeeping, StartSpawns
  <1>7. OneHandlingPerGeneration' /\ HandledBeforeCancelled'
    BY <1>1, <1>2 DEF OneHandlingPerGeneration, HandledBeforeCancelled
  <1> QED BY <1>5, <1>6, <1>7 DEF IInv

\* start returns and the generation before is released.
LEMMA StartReturnsKeepsIInv ==
    ASSUME IInv, StartReturns
    PROVE  IInv'
  <1>1. /\ TypeOK /\ Bookkeeping /\ OneHandlingPerGeneration
        /\ HandledBeforeCancelled
    BY DEF IInv
  <1>2. /\ phase = "spawned" /\ phase' = "watching" /\ current' = current + 1
        /\ current \in Nat /\ current < MaxGenerations
        /\ UNCHANGED <<task, sent, handled>>
    BY <1>1, Constants DEF StartReturns, TypeOK, taskVars, Bookkeeping
  <1>3. /\ \A g \in Generations :
             /\ listening'[g] = (g # current /\ listening[g])
             /\ cancelled'[g] = (g = current \/ cancelled[g])
             /\ reports'[g] = IF g = current THEN <<>> ELSE reports[g]
        /\ listening' \in [Generations -> BOOLEAN]
        /\ cancelled' \in [Generations -> BOOLEAN]
    BY <1>1 DEF StartReturns, TypeOK
  <1>4. Len(handled) = current
    BY <1>1, <1>2 DEF OneHandlingPerGeneration
  <1>5. TypeOK'
    <2>1. /\ reports' \in [Generations -> Seq(1..MaxReports)]
          /\ \A g \in Generations : Len(reports'[g]) \leq ChannelSize
      <3>1. /\ reports' = [g \in Generations |->
                             IF g = current THEN <<>> ELSE reports[g]]
            /\ \A g \in Generations : /\ reports[g] \in Seq(1..MaxReports)
                                      /\ Len(reports[g]) \leq ChannelSize
        BY <1>1 DEF StartReturns, TypeOK
      <3>2. ASSUME NEW g \in Generations
            PROVE  reports'[g] \in Seq(1..MaxReports) /\ Len(reports'[g]) \leq ChannelSize
        BY <3>1, <1>3, EmptyQueue
      <3> QED BY <3>1, <3>2
    <2>2. current' \in 0..MaxGenerations
      BY <1>2, Constants
    <2> QED BY <1>1, <1>2, <1>3, <2>1, <2>2 DEF TypeOK
  <1>6. Bookkeeping'
    <2>1. \A g \in Generations : task[g] = "absent" => sent[g] = 0 /\ ~cancelled'[g]
      BY <1>1, <1>2, <1>3 DEF Bookkeeping
    <2>2. \A g \in Generations : g > current + 1 => task[g] = "absent"
      BY <1>1, <1>2 DEF Bookkeeping
    <2>3. \A g \in Generations : g > Len(handled) /\ sent[g] > 0 =>
             reports'[g] # <<>> /\ Head(reports'[g]) = 1
      BY <1>1, <1>2, <1>3, <1>4, Constants DEF Bookkeeping
    <2>4. \A g \in Generations : sent[g] = 0 => reports'[g] = <<>> /\ task[g] # "waiting"
      BY <1>1, <1>3 DEF Bookkeeping
    <2>5. \A g \in Generations : g < current + 1 => cancelled'[g] /\ ~listening'[g]
      BY <1>1, <1>2, <1>3, Constants DEF Bookkeeping
    <2> QED BY <1>1, <1>2, <2>1, <2>2, <2>3, <2>4, <2>5, Constants DEF Bookkeeping
  <1>7. OneHandlingPerGeneration'
    BY <1>2, <1>4 DEF OneHandlingPerGeneration
  <1>8. HandledBeforeCancelled'
    BY <1>1, <1>2, <1>3, <1>4, Constants DEF HandledBeforeCancelled
  <1> QED BY <1>5, <1>6, <1>7, <1>8 DEF IInv

\* A message is handled: restart is entered, or supervision fails.
LEMMA HandleKeepsIInv ==
    ASSUME IInv, phase = "watching", current < MaxGenerations,
           NEW m \in 0..MaxReports, NEW rest \in Seq(1..MaxReports),
           Len(rest) \leq ChannelSize,
           sent[current] = 0 => rest = <<>>,
           task[current] \in {"running", "waiting"} => m = 1,
           HandleIrrecoverable(m, rest)
    PROVE  IInv'
  <1>1. /\ TypeOK /\ Bookkeeping /\ OneHandlingPerGeneration
        /\ HandledBeforeCancelled
    BY DEF IInv
  <1>2. /\ current \in Generations /\ current \in Nat
        /\ handled \in Seq(0..MaxReports) /\ Len(handled) = current - 1
    BY <1>1, Constants DEF TypeOK, Bookkeeping, OneHandlingPerGeneration
  <1>3. /\ handled' \in Seq(0..MaxReports) /\ Len(handled') = current
        /\ handled'[current] = m
        /\ \A i \in Nat : i > 0 /\ i < current => handled'[i] = handled[i]
    BY <1>2 DEF HandleIrrecoverable
  <1>4. UNCHANGED <<current, task, sent>> /\ phase' \in {"starting", "failed"}
    BY DEF HandleIrrecoverable, taskVars
  <1>5. \A g \in Generations : g # current =>
          /\ reports'[g] = reports[g]
          /\ listening'[g] = listening[g] /\ cancelled'[g] = cancelled[g]
    BY <1>1, <1>2 DEF HandleIrrecoverable, TypeOK
  <1>6. TypeOK'
    <2>1. listening' \in [Generations -> BOOLEAN] /\ cancelled' \in [Generations -> BOOLEAN]
      BY <1>1, <1>2 DEF HandleIrrecoverable, TypeOK
    <2>2. PICK e \in {rest, <<>>} : reports' = [reports EXCEPT ![current] = e]
      BY DEF HandleIrrecoverable
    <2>3. e \in Seq(1..MaxReports) /\ Len(e) \leq ChannelSize
      BY <2>2, EmptyQueue
    <2>4. /\ reports' \in [Generations -> Seq(1..MaxReports)]
          /\ \A g \in Generations : Len(reports'[g]) \leq ChannelSize
      BY <1>1, <2>2, <2>3 DEF TypeOK
    <2> QED BY <1>1, <1>3, <1>4, <2>1, <2>4 DEF TypeOK
  <1>10. sent[current] = 0 => reports'[current] = <<>>
    BY <1>1, <1>2 DEF HandleIrrecoverable, TypeOK
  <1>7. Bookkeeping'
    <2>1. task[current] # "absent"
      BY <1>1, <1>2 DEF Bookkeeping
    <2>2. ASSUME NEW g \in Generations
          PROVE  /\ task[g] = "absent" => sent[g] = 0 /\ ~cancelled'[g]
                 /\ sent[g] = 0 => reports'[g] = <<>> /\ task[g] # "waiting"
      BY <1>1, <1>5, <1>10, <2>1 DEF Bookkeeping
    <2>3. ASSUME NEW g \in Generations
          PROVE  g > current /\ sent[g] > 0 =>
                    reports'[g] # <<>> /\ Head(reports'[g]) = 1
      <3> SUFFICES ASSUME g > current, sent[g] > 0
                   PROVE  reports'[g] # <<>> /\ Head(reports'[g]) = 1
        OBVIOUS
      <3>1. g # current /\ g > Len(handled)
        BY <1>2, Constants
      <3> QED BY <3>1, <1>1, <1>5 DEF Bookkeeping
    <2>4. ASSUME NEW g \in Generations, g \leq current,
                 task[g] \in {"running", "waiting"}
          PROVE  handled'[g] = 1
      <3>1. CASE g = current
        BY <3>1, <2>4, <1>3
      <3>2. CASE g < current
        <4>1. g \leq Len(handled) /\ g \in Nat /\ g > 0
          BY <3>2, <1>2, Constants
        <4>2. handled[g] = 1
          BY <4>1, <2>4, <1>1 DEF Bookkeeping
        <4> QED BY <4>1, <4>2, <3>2, <1>3
      <3> QED BY <3>1, <3>2, <2>4, <1>2, Constants
    <2>5. ASSUME NEW g \in Generations, g < current
          PROVE  cancelled'[g] /\ ~listening'[g]
      <3>1. g # current
        BY <2>5, <1>2, Constants
      <3> QED BY <3>1, <2>5, <1>1, <1>5 DEF Bookkeeping
    <2> QED BY <1>1, <1>3, <1>4, <2>2, <2>3, <2>4, <2>5 DEF Bookkeeping
  <1>8. OneHandlingPerGeneration'
    BY <1>3, <1>4 DEF OneHandlingPerGeneration
  <1>9. HandledBeforeCancelled'
    <2> SUFFICES ASSUME NEW g \in Generations, cancelled'[g] PROVE g \leq Len(handled')
      BY DEF HandledBeforeCancelled
    <2>1. CASE g = current
      BY <2>1, <1>2, <1>3
    <2>2. CASE g # current
      <3>1. g \leq Len(handled)
        BY <2>2, <1>1, <1>5 DEF HandledBeforeCancelled
      <3> QED BY <3>1, <1>2, <1>3, Constants
    <2> QED BY <2>1, <2>2
  <1> QED BY <1>6, <1>7, <1>8, <1>9 DEF IInv

\* Either branch of the select keeps the invariant.
LEMMA ObserveKeepsIInv ==
    ASSUME IInv, ObserveReport \/ ObserveEnd
    PROVE  IInv'
  <1>1. TypeOK /\ Bookkeeping /\ OneHandlingPerGeneration
    BY DEF IInv
  <1>2. /\ phase = "watching" /\ current < MaxGenerations /\ current \in Generations
        /\ reports[current] \in Seq(1..MaxReports)
        /\ Len(reports[current]) \leq ChannelSize
        /\ current \in Nat /\ Len(handled) = current - 1
    BY <1>1, Constants DEF ObserveReport, ObserveEnd, TypeOK, Bookkeeping,
                           OneHandlingPerGeneration
  <1>3. CASE ObserveReport
    <2> DEFINE q == reports[current]
    <2>1. q # <<>> /\ HandleIrrecoverable(Head(q), Tail(q))
      BY <1>3 DEF ObserveReport
    <2>2. /\ Head(q) \in 1..MaxReports /\ Tail(q) \in Seq(1..MaxReports)
          /\ Len(Tail(q)) = Len(q) - 1 /\ Len(q) \in Nat
      BY <1>2, <2>1, QueueFacts
    <2>3. sent[current] # 0 /\ sent[current] \in Nat
      BY <1>1, <1>2, <2>1, Constants DEF Bookkeeping, TypeOK
    <2>4. Head(q) = 1
      BY <1>1, <1>2, <2>3 DEF Bookkeeping
    <2>5. Head(q) \in 0..MaxReports /\ Len(Tail(q)) \leq ChannelSize
      BY <1>2, <2>2, Constants
    <2> HIDE DEF q
    <2> QED BY <1>2, <2>1, <2>2, <2>3, <2>4, <2>5, HandleKeepsIInv
  <1>4. CASE ObserveEnd
    <2>1. Ended(current) /\ HandleIrrecoverable(Unexpected, reports[current])
      BY <1>4 DEF ObserveEnd
    <2>2. task[current] \notin {"running", "waiting"}
      BY <2>1 DEF Ended
    <2>3. Unexpected \in 0..MaxReports
      BY Constants DEF Unexpected
    <2>4. sent[current] = 0 => reports[current] = <<>>
      BY <1>1, <1>2 DEF Bookkeeping
    <2> QED BY <1>2, <2>1, <2>2, <2>3, <2>4, HandleKeepsIInv
  <1> QED BY <1>3, <1>4

\* Dropping the supervisor keeps what is still said.
LEMMA DropKeepsIInv ==
    ASSUME IInv, Drop
    PROVE  IInv'
  <1>1. TypeOK /\ Bookkeeping
    BY DEF IInv
  <1>2. /\ phase' = "dropped" /\ UNCHANGED <<current, handled, task, sent>>
        /\ \A g \in Generations : /\ reports'[g] = <<>>
                                  /\ cancelled'[g] = (cancelled[g] \/ task[g] # "absent")
        /\ listening' \in [Generations -> BOOLEAN]
        /\ cancelled' \in [Generations -> BOOLEAN]
    BY <1>1 DEF Drop, taskVars, TypeOK
  <1>3. TypeOK'
    <2>1. <<>> \in Seq(1..MaxReports) /\ Len(<<>>) = 0
      BY EmptyQueue
    <2>2. /\ reports' \in [Generations -> Seq(1..MaxReports)]
          /\ \A g \in Generations : Len(reports'[g]) \leq ChannelSize
      BY <1>2, <2>1, Constants DEF Drop
    <2> QED BY <1>1, <1>2, <2>2 DEF TypeOK
  <1>4. Bookkeeping'
    BY <1>1, <1>2 DEF Bookkeeping
  <1>5. OneHandlingPerGeneration' /\ HandledBeforeCancelled'
    BY <1>2 DEF OneHandlingPerGeneration, HandledBeforeCancelled
  <1> QED BY <1>3, <1>4, <1>5 DEF IInv

\* The inductive invariant of supervision.
THEOREM SupervisorInvariance == Spec => []IInv
  <1>1. IInv /\ [Next]_vars => IInv'
    <2> SUFFICES ASSUME IInv, [Next]_vars PROVE IInv'
      OBVIOUS
    <2>1. ASSUME NEW g \in Generations, Report(g) \/ End(g) \/ Acknowledge(g)
          PROVE  IInv'
      BY <2>1, TaskKeepsIInv
    <2>2. CASE StartSpawns
      BY <2>2, StartSpawnsKeepsIInv
    <2>3. CASE StartReturns
      BY <2>3, StartReturnsKeepsIInv
    <2>4. CASE ObserveReport \/ ObserveEnd
      BY <2>4, ObserveKeepsIInv
    <2>5. CASE Drop
      BY <2>5, DropKeepsIInv
    <2>6. CASE UNCHANGED vars
      BY <2>6 DEF vars, IInv, TypeOK, Bookkeeping, OneHandlingPerGeneration,
                  HandledBeforeCancelled
    <2> QED BY <2>1, <2>2, <2>3, <2>4, <2>5, <2>6 DEF Next
  <1> QED BY <1>1, SupervisorInit, PTL DEF Spec

\* handle_irrecoverable runs once per replaced generation and before its task
\* is cancelled (lib.rs:100-119).
THEOREM HandlingIsOrderly ==
    Spec => [](OneHandlingPerGeneration /\ HandledBeforeCancelled)
  <1>1. IInv => OneHandlingPerGeneration /\ HandledBeforeCancelled
    BY DEF IInv
  <1> QED BY <1>1, SupervisorInvariance, PTL

\* The acknowledgement a waiting task gets means that its first report was
\* handled (the Manageable contract, lib.rs:36-47).
THEOREM AcknowledgementIsHonest == Spec => []AcknowledgedMeansHandled
  <1>1. IInv => AcknowledgedMeansHandled
    BY DEF IInv, AcknowledgedMeansHandled, HandledBeforeCancelled, Bookkeeping
  <1> QED BY <1>1, SupervisorInvariance, PTL

\* While the supervisor watches, earlier generations are cancelled and cannot
\* report (lib.rs:133-136).
THEOREM EarlierGenerationsReleased == Spec => []OldGenerationsReleased
  <1>1. IInv => OldGenerationsReleased
    BY DEF IInv, OldGenerationsReleased, Bookkeeping
  <1> QED BY <1>1, SupervisorInvariance, PTL
=============================================================================
