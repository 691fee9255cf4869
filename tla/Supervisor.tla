----------------------------- MODULE Supervisor -----------------------------
(***************************************************************************)
(* Supervision of a component that should always run                         *)
(* (crates/component/src/lib.rs).  The supervisor calls start, which spawns    *)
(* the component's task with one end of two channels: a bounded channel on     *)
(* which the task reports an irrecoverable error, and a oneshot whose other    *)
(* end the supervisor drops to cancel the task.  On a report, or when the      *)
(* task ends, it calls handle_irrecoverable, starts a new task, and only then  *)
(* lets go of the old channels.                                                *)
(*                                                                            *)
(* Each start makes a new generation.  The task of a generation is user code,  *)
(* so it may do whatever the Manageable contract leaves open: report any       *)
(* number of times, wait for the cancellation, return or panic at any moment.  *)
(***************************************************************************)
EXTENDS Naturals, Sequences

CONSTANTS ChannelSize,     \* CHANNEL_SIZE, 10 in the code
          MaxGenerations,  \* bound: starts in a behaviour
          MaxReports       \* bound: reports of one task

ASSUME ChannelSizeAssumption == ChannelSize \in Nat \ {0}
ASSUME BoundsAssumption == MaxGenerations \in Nat \ {0} /\ MaxReports \in Nat

Generations == 1..MaxGenerations

VARIABLES
    phase,      \* of the supervisor: "starting" (start was called), "spawned"
                \* (start has spawned the task), "watching" (the select of
                \* run), "failed" (handle_irrecoverable returned an error) or
                \* "dropped" (the caller dropped the future)
    current,    \* the generation whose channel ends the supervisor holds
    task,       \* the task of each generation
    sent,       \* how many reports it has sent
    reports,    \* irrecoverable_signal: the reports not yet received
    listening,  \* the receiver of its reports exists
    cancelled,  \* the sender of its cancellation was dropped
    handled     \* history: what handle_irrecoverable was given, in order

vars == <<phase, current, task, sent, reports, listening, cancelled, handled>>

taskVars == <<task, sent>>
supervisorVars == <<phase, current, listening, cancelled, handled>>

\* The message of run when it has none from the component.
Unexpected == 0

TaskStates == {"absent", "running", "waiting", "finished", "panicked"}
Ended(g) == task[g] \in {"finished", "panicked"}

Init ==
    /\ phase = "starting"
    /\ current = 0
    /\ task = [g \in Generations |-> "absent"]
    /\ sent = [g \in Generations |-> 0]
    /\ reports = [g \in Generations |-> <<>>]
    /\ listening = [g \in Generations |-> FALSE]
    /\ cancelled = [g \in Generations |-> FALSE]
    /\ handled = <<>>

-----------------------------------------------------------------------------
(* The task of generation g: user code behind the Manageable trait.         *)

\* tx_irrecoverable.send: there is room and the supervisor holds the receiver.
\* The task then goes on, or waits for the cancellation as the contract asks.
Report(g) ==
    /\ task[g] = "running"
    /\ listening[g]
    /\ Len(reports[g]) < ChannelSize
    /\ sent[g] < MaxReports
    /\ sent' = [sent EXCEPT ![g] = @ + 1]
    /\ reports' = [reports EXCEPT ![g] = Append(@, sent[g] + 1)]
    /\ \E s \in {"running", "waiting"} : task' = [task EXCEPT ![g] = s]
    /\ UNCHANGED supervisorVars

\* Sending to a supervisor that let go of the receiver fails (.expect panics),
\* and a task may return or panic at any moment without a word.
End(g) ==
    /\ task[g] = "running"
    /\ \E s \in {"finished", "panicked"} : task' = [task EXCEPT ![g] = s]
    /\ UNCHANGED <<sent, reports>>
    /\ UNCHANGED supervisorVars

\* rx_cancellation resolves: the task returns.
Acknowledge(g) ==
    /\ task[g] = "waiting"
    /\ cancelled[g]
    /\ task' = [task EXCEPT ![g] = "finished"]
    /\ UNCHANGED <<sent, reports>>
    /\ UNCHANGED supervisorVars

-----------------------------------------------------------------------------
(* The supervisor.                                                           *)

\* start spawns the task of the next generation on new channels (spawn and
\* restart make them alike).  The old channel ends are still held.
StartSpawns ==
    /\ phase = "starting"
    /\ current < MaxGenerations
    /\ phase' = "spawned"
    /\ task' = [task EXCEPT ![current + 1] = "running"]
    /\ listening' = [listening EXCEPT ![current + 1] = TRUE]
    /\ UNCHANGED <<current, sent, reports, cancelled, handled>>

\* Mutant of StartReturns: the old sender of the cancellation is kept.
StartReturns_KeepsOld ==
    /\ phase = "spawned"
    /\ phase' = "watching"
    /\ current' = current + 1
    /\ listening' = [g \in Generations |-> g # current /\ listening[g]]
    /\ UNCHANGED <<cancelled, reports, handled>>
    /\ UNCHANGED taskVars

\* start returns the join handle.  Assigning the new channel ends drops those
\* of the generation before, if any: its reports are lost, its task cancelled.
StartReturns ==
    /\ phase = "spawned"
    /\ phase' = "watching"
    /\ current' = current + 1
    /\ listening' = [g \in Generations |-> g # current /\ listening[g]]
    /\ cancelled' = [g \in Generations |-> g = current \/ cancelled[g]]
    /\ reports' = [g \in Generations |-> IF g = current THEN <<>> ELSE reports[g]]
    /\ UNCHANGED handled
    /\ UNCHANGED taskVars

\* handle_irrecoverable(message)?: on Ok restart is entered, which calls start;
\* on Err run returns and the supervisor is dropped with everything it holds.
\* rest is what the channel still holds.
HandleIrrecoverable(message, rest) ==
    /\ handled' = Append(handled, message)
    /\ \/ /\ phase' = "starting"
          /\ reports' = [reports EXCEPT ![current] = rest]
          /\ UNCHANGED <<listening, cancelled>>
       \/ /\ phase' = "failed"
          /\ reports' = [reports EXCEPT ![current] = <<>>]
          /\ listening' = [listening EXCEPT ![current] = FALSE]
          /\ cancelled' = [cancelled EXCEPT ![current] = TRUE]
    /\ UNCHANGED current
    /\ UNCHANGED taskVars

\* Mutant of ObserveReport: the message of the component is not kept.
ObserveReport_Forgets ==
    /\ phase = "watching"
    /\ current < MaxGenerations
    /\ reports[current] # <<>>
    /\ HandleIrrecoverable(Unexpected, Tail(reports[current]))

\* The first branch of the select: a report is there.
ObserveReport ==
    /\ phase = "watching"
    /\ current < MaxGenerations
    /\ reports[current] # <<>>
    /\ HandleIrrecoverable(Head(reports[current]), Tail(reports[current]))

\* Mutants of ObserveEnd: only a normal end is noticed; or supervision goes on
\* without a restart.
ObserveEnd_NotPanics ==
    /\ phase = "watching"
    /\ current < MaxGenerations
    /\ task[current] = "finished"
    /\ HandleIrrecoverable(Unexpected, reports[current])
ObserveEnd_NoRestart ==
    /\ phase = "watching"
    /\ current < MaxGenerations
    /\ Ended(current)
    /\ handled' = Append(handled, Unexpected)
    /\ UNCHANGED <<phase, current, reports, listening, cancelled>>
    /\ UNCHANGED taskVars

\* The second branch: the join handle of the task is ready.  When both are,
\* select takes either.
ObserveEnd ==
    /\ phase = "watching"
    /\ current < MaxGenerations
    /\ Ended(current)
    /\ HandleIrrecoverable(Unexpected, reports[current])

\* The caller drops the future of spawn at an await: the channel ends held by
\* the supervisor and those of a start in progress go with it.
Drop ==
    /\ phase \in {"starting", "spawned", "watching"}
    /\ phase' = "dropped"
    /\ listening' = [g \in Generations |-> FALSE]
    /\ cancelled' = [g \in Generations |-> cancelled[g] \/ task[g] # "absent"]
    /\ reports' = [g \in Generations |-> <<>>]
    /\ UNCHANGED <<current, handled>>
    /\ UNCHANGED taskVars

Supervise == StartSpawns \/ StartReturns \/ ObserveReport \/ ObserveEnd

Next ==
    \/ StartSpawns \/ StartReturns \/ ObserveReport \/ ObserveEnd \/ Drop
    \/ \E g \in Generations : Report(g) \/ End(g) \/ Acknowledge(g)

\* The runtime polls the supervisor and a cancelled task; start, which is user
\* code, is assumed to return.  Nothing makes a task report, end or wait.
Fairness ==
    /\ WF_vars(Supervise)
    /\ \A g \in Generations : WF_vars(Acknowledge(g))

Spec == Init /\ [][Next]_vars
FairSpec == Spec /\ Fairness

-----------------------------------------------------------------------------
(* Properties.                                                               *)

\* Type correctness; the channel of reports keeps to its size.
TypeOK ==
    /\ phase \in {"starting", "spawned", "watching", "failed", "dropped"}
    /\ current \in 0..MaxGenerations
    /\ task \in [Generations -> TaskStates]
    /\ sent \in [Generations -> 0..MaxReports]
    /\ reports \in [Generations -> Seq(1..MaxReports)]
    /\ \A g \in Generations : Len(reports[g]) \leq ChannelSize
    /\ listening \in [Generations -> BOOLEAN]
    /\ cancelled \in [Generations -> BOOLEAN]
    /\ handled \in Seq(0..MaxReports)

\* One handling per generation: handle_irrecoverable is called once for every
\* generation that was replaced and for no other, however its end and its
\* reports raced in the select (lib.rs:104-119).
OneHandlingPerGeneration ==
    phase # "dropped" =>
        Len(handled) = IF phase = "watching" THEN current - 1 ELSE current

\* handle_irrecoverable has run for a generation before its task is cancelled,
\* so cleanup sees the task still alive (lib.rs:100-102), unless the caller
\* drops the supervisor.
HandledBeforeCancelled ==
    phase # "dropped" =>
        \A g \in Generations : cancelled[g] => g \leq Len(handled)

\* A task that reported and then waits for the cancellation can rely on it: it
\* is cancelled only after its first report, not the generic message, reached
\* handle_irrecoverable (the contract at lib.rs:36-47), unless the caller drops
\* the supervisor.
AcknowledgedMeansHandled ==
    phase # "dropped" =>
        \A g \in Generations : task[g] = "waiting" /\ cancelled[g] =>
            g \leq Len(handled) /\ handled[g] = 1

\* While the supervisor watches, every earlier generation has been told to
\* stop and has nobody left to report to (lib.rs:133-136).
OldGenerationsReleased ==
    phase = "watching" =>
        \A g \in Generations : g < current => cancelled[g] /\ ~listening[g]

\* Which tasks exist, and what the supervisor knows of a generation that was
\* not handled yet: its first report, if it sent one, is at the head.
Bookkeeping ==
    /\ phase = "watching" => current > 0
    /\ phase \in {"starting", "spawned"} => current < MaxGenerations
    /\ \A g \in Generations :
         /\ task[g] = "absent" => sent[g] = 0 /\ ~cancelled[g]
         /\ sent[g] = 0 => reports[g] = <<>> /\ task[g] # "waiting"
    /\ phase # "dropped" =>
         /\ \A g \in Generations : g > current + 1 => task[g] = "absent"
         /\ \A g \in Generations : g \leq current => task[g] # "absent"
         /\ \A g \in Generations : g < current => cancelled[g] /\ ~listening[g]
         /\ \A g \in Generations : g = current + 1 =>
              (task[g] = "absent" <=> phase # "spawned")
         /\ \A g \in Generations : g > Len(handled) /\ sent[g] > 0 =>
              reports[g] # <<>> /\ Head(reports[g]) = 1
         /\ \A g \in Generations :
              g \leq Len(handled) /\ task[g] \in {"running", "waiting"} =>
                handled[g] = 1

\* The inductive invariant.
IInv ==
    /\ TypeOK
    /\ Bookkeeping
    /\ OneHandlingPerGeneration
    /\ HandledBeforeCancelled

\* Panic-tolerance: when the watched task panics, or has sent a report before it
\* ended in whatever way, a new one is started, unless supervision itself is over
\* because handle_irrecoverable failed or the caller dropped it (lib.rs:104-119;
\* README of the component crate: "restarted after any irrecoverable errors").
\* Nothing is said of a task that completes without a word: the code restarts
\* it, as lib.rs:17-18 says, while README.md:28 says supervision ends.
FailedIsRestarted ==
    \A g \in 1..(MaxGenerations - 1) :
        /\ phase = "watching" /\ current = g
        /\ task[g] = "panicked" \/ reports[g] # <<>>
        ~> \/ task[g + 1] # "absent"
           \/ phase \in {"failed", "dropped"}

\* A task that waits for its cancellation gets it (README of the component
\* crate: "return on reception of the cancellation signal").
WaitingIsReleased ==
    \A g \in 1..(MaxGenerations - 1) :
        task[g] = "waiting" ~> task[g] # "waiting"
=============================================================================
