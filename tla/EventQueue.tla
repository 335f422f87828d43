----------------------------- MODULE EventQueue -----------------------------
(***************************************************************************)
(* The event queue (EventQueueService): jobs of a BullMQ queue, each of    *)
(* which runs the handler of one event through the provider pool, is tried *)
(* again after a failure, and ends up in the dead letter queue and the     *)
(* table failed_events when all attempts have failed.                      *)
(*                                                                         *)
(* The handler is the one of a purchase: check the marker, write, mark.    *)
(* The pool gives it up after PROVIDER_TIMEOUT, but the abandoned          *)
(* invocation runs on while the next one has started.                      *)
(***************************************************************************)
EXTENDS ProviderPool

CONSTANTS
  Attempts,     \* EVENT_MAX_RETRIES: the attempts of a job
  MaxTimeouts,  \* bound: invocations given up while they run on
  MaxCrashes    \* bound: restarts of the worker's process

Events == Callers

ASSUME QueueAssumption ==
  /\ Attempts \in Nat \ {0}
  /\ MaxTimeouts \in Nat
  /\ MaxCrashes \in Nat

VARIABLES
  job,           \* state and attemptsMade of each event's job
  step,          \* what the invocation the pool waits for does next
  abandoned,     \* invocations that run on, by what they do next
  written,       \* how often an event's writes were made
  marked,        \* the events with a marker
  recording,     \* locals of handlePermanentFailure
  deadLetters,   \* the jobs of the dead letter queue
  failedEvents,  \* the row of each event in failed_events
  unrecorded,    \* history: recording the failure failed or was cut short
  interrupted,   \* history: invocations of an event given up before their marker
  untried,       \* history: for each attempt of a job not completed, the rounds
                 \* and nodes it has not failed in yet
  timeouts,      \* how much of MaxTimeouts is used up
  crashes        \* how much of MaxCrashes is used up

store     == <<written, marked>>
record    == <<recording, deadLetters, failedEvents, unrecorded>>
history   == <<interrupted, untried>>
bounds    == <<timeouts, crashes>>
queueVars == <<job, step, abandoned, store, record, history, bounds>>
vars      == <<poolVars, queueVars>>

NoJob == [state |-> "none", attemptsMade |-> 0]
\* What an attempt that begins now has to fail in before it is given up: every
\* round on every healthy node, or on every node when none is.
Rounds == 1..MaxRetries
Usable == IF HealthyProviders # {} THEN HealthyProviders ELSE Providers

NoneTried == [a \in 1..Attempts |-> Rounds \X Providers]
Steps == {"check", "write", "mark"}
None  == [s \in Steps |-> 0]

Is(e, state) == job[e].state = state
SetState(e, state) == job' = [job EXCEPT ![e].state = state]
Current(e) == job[e].attemptsMade + 1

-----------------------------------------------------------------------------
(***************************************************************************)
(* The queue                                                               *)
(***************************************************************************)

\* enqueueEvent: a second job with the same jobId is not added.
EnqueueEvent(e) ==
  /\ Is(e, "none")
  /\ SetState(e, "waiting")
  /\ UNCHANGED <<poolVars, step, abandoned, store, record, history, bounds>>

\* removeOnComplete; failed jobs are kept.
RemoveOnComplete(e) ==
  /\ Is(e, "completed")
  /\ job' = [job EXCEPT ![e] = NoJob]
  /\ UNCHANGED <<poolVars, step, abandoned, store, record, history, bounds>>

\* A worker takes the job and calls executeWithFallback.  An attempt that a
\* crash cut short begins anew.
ProcessEventJob(e) ==
  /\ Is(e, "waiting")
  /\ SetState(e, "active")
  /\ StartCall(e)
  /\ step' = [step EXCEPT ![e] = "check"]
  /\ untried' = [untried EXCEPT ![e][Current(e)] = Rounds \X Usable]
  /\ UNCHANGED <<abandoned, store, record, interrupted, bounds>>

BackoffEnds(e) ==
  /\ Is(e, "delayed")
  /\ SetState(e, "waiting")
  /\ UNCHANGED <<poolVars, step, abandoned, store, record, history, bounds>>

NoAttemptLeft(made) == made >= Attempts

\* What the 'failed' listener asks after every failed attempt.
OneTooMany(made)        == made > Attempts
PermanentlyFailed(made) == made >= Attempts

\* processEventJob throws: BullMQ counts the attempt and delays or fails the
\* job, and the listener starts handlePermanentFailure after the last one.
AttemptFails(e) ==
  /\ call[e].pc = "exhausted"
  /\ LET made == Current(e) IN
       /\ job' = [job EXCEPT ![e] = [state |-> IF NoAttemptLeft(made) THEN "failed" ELSE "delayed",
                                     attemptsMade |-> made]]
       /\ recording' = IF PermanentlyFailed(made)
                       THEN [recording EXCEPT ![e] = "deadLetter"] ELSE recording
  /\ call' = [call EXCEPT ![e] = NoCall]
  /\ UNCHANGED <<health, verdicts, step, abandoned, store,
                 deadLetters, failedEvents, unrecorded, history, bounds>>

-----------------------------------------------------------------------------
(***************************************************************************)
(* One invocation of the handler, and what the pool sees of it             *)
(***************************************************************************)

Running(e, s) == call[e].pc = "running" /\ step[e] = s

\* The handler returns and with it executeWithFallback and the job.
Completes(e) ==
  /\ CallSucceeds(e)
  /\ SetState(e, "completed")
  /\ step' = [step EXCEPT ![e] = "none"]
  /\ untried' = [untried EXCEPT ![e] = NoneTried]

\* The next invocation starts, unless executeWithFallback gives up.
TriesAgain(e) ==
  /\ CallFails(e)
  /\ step' = [step EXCEPT ![e] = IF GivesUp(e) THEN "none" ELSE "check"]
  /\ untried' = [untried EXCEPT ![e][Current(e)] = @ \ {<<call[e].attempt, call[e].provider>>}]
  /\ UNCHANGED job

NotChecked(e)  == FALSE
HasWrites(e)   == written[e] > 0
IsProcessed(e) == e \in marked

HandlerChecks(e) ==
  /\ Running(e, "check")
  /\ IF IsProcessed(e)
     THEN Completes(e)
     ELSE step' = [step EXCEPT ![e] = "write"] /\ UNCHANGED <<poolVars, job, untried>>
  /\ UNCHANGED <<abandoned, store, record, interrupted, bounds>>

HandlerWrites(e) ==
  /\ Running(e, "write")
  /\ written' = [written EXCEPT ![e] = @ + 1]
  /\ step' = [step EXCEPT ![e] = "mark"]
  /\ UNCHANGED <<poolVars, job, abandoned, marked, record, history, bounds>>

HandlerMarks(e) ==
  /\ Running(e, "mark")
  /\ marked' = marked \cup {e}
  /\ Completes(e)
  /\ UNCHANGED <<abandoned, written, record, interrupted, bounds>>

Interrupt(e) == interrupted' = [interrupted EXCEPT ![e] = @ + 1]

HandlerThrows(e) ==
  /\ call[e].pc = "running"
  /\ TriesAgain(e)
  /\ IF step[e] = "mark" THEN Interrupt(e) ELSE UNCHANGED interrupted
  /\ UNCHANGED <<abandoned, store, record, bounds>>

\* timeoutPromise wins the race.
HandlerTimesOut(e) ==
  /\ call[e].pc = "running"
  /\ timeouts < MaxTimeouts
  /\ timeouts' = timeouts + 1
  /\ TriesAgain(e)
  /\ abandoned' = [abandoned EXCEPT ![e][step[e]] = @ + 1]
  /\ Interrupt(e)
  /\ UNCHANGED <<store, record, crashes>>

\* An abandoned invocation goes on; nobody waits for what it returns.
AbandonedGoesOn(e) ==
  /\ \E s \in Steps :
       /\ abandoned[e][s] > 0
       /\ \/ /\ s = "check" /\ ~IsProcessed(e)
             /\ abandoned' = [abandoned EXCEPT ![e][s] = @ - 1, ![e]["write"] = @ + 1]
             /\ UNCHANGED store
          \/ /\ s = "write"
             /\ abandoned' = [abandoned EXCEPT ![e][s] = @ - 1, ![e]["mark"] = @ + 1]
             /\ written' = [written EXCEPT ![e] = @ + 1]
             /\ UNCHANGED marked
          \/ /\ s = "mark"
             /\ abandoned' = [abandoned EXCEPT ![e][s] = @ - 1]
             /\ marked' = marked \cup {e}
             /\ UNCHANGED written
          \/ \* it returns from its check, or throws
             /\ abandoned' = [abandoned EXCEPT ![e][s] = @ - 1]
             /\ UNCHANGED store
  /\ UNCHANGED <<poolVars, job, step, record, history, bounds>>

-----------------------------------------------------------------------------
(***************************************************************************)
(* Permanent failures                                                      *)
(***************************************************************************)

RecordingFails(e) ==
  /\ recording' = [recording EXCEPT ![e] = "idle"]
  /\ unrecorded' = unrecorded \cup {e}
  /\ UNCHANGED <<deadLetters, failedEvents>>

\* An error of the dead letter queue or of the database is logged only.
MoveToDeadLetters(e) ==
  /\ recording[e] = "deadLetter"
  /\ \/ /\ deadLetters' = deadLetters \cup {e}
        /\ recording' = [recording EXCEPT ![e] = "failedEvent"]
        /\ UNCHANGED <<failedEvents, unrecorded>>
     \/ RecordingFails(e)
  /\ UNCHANGED <<poolVars, job, step, abandoned, store, history, bounds>>

\* eventId is unique: a row that exists makes the create throw.
CreateFailedEvent(e) ==
  /\ recording[e] = "failedEvent"
  /\ \/ /\ failedEvents[e] = "none"
        /\ failedEvents' = [failedEvents EXCEPT ![e] = "unresolved"]
        /\ recording' = [recording EXCEPT ![e] = "idle"]
        /\ UNCHANGED <<deadLetters, unrecorded>>
     \/ RecordingFails(e)
  /\ UNCHANGED <<poolVars, job, step, abandoned, store, history, bounds>>

\* retryFailedEvents: the rows that the filter and the limit select, less
\* those whose update fails, are marked as resolved.  Nothing is queued.
RetryFailedEvents ==
  /\ \E rows \in SUBSET {e \in Events : failedEvents[e] = "unresolved"} :
       /\ rows # {}
       /\ failedEvents' = [e \in Events |-> IF e \in rows THEN "resolved" ELSE failedEvents[e]]
  /\ UNCHANGED <<poolVars, job, step, abandoned, store, recording, deadLetters,
                 unrecorded, history, bounds>>

-----------------------------------------------------------------------------
\* The process dies.  Redis keeps the jobs, and a new worker finds the active
\* ones stalled and moves them back; what was only in memory is gone.
Crash ==
  /\ crashes < MaxCrashes
  /\ crashes' = crashes + 1
  /\ PoolRestart
  /\ job' = [e \in Events |-> IF Is(e, "active") THEN [job[e] EXCEPT !.state = "waiting"] ELSE job[e]]
  /\ step' = [e \in Events |-> "none"]
  /\ abandoned' = [e \in Events |-> None]
  /\ recording' = [e \in Events |-> "idle"]
  /\ unrecorded' = unrecorded \cup {e \in Events : recording[e] # "idle"}
  /\ interrupted' = [e \in Events |-> interrupted[e] + IF Running(e, "mark") THEN 1 ELSE 0]
  /\ UNCHANGED <<store, deadLetters, failedEvents, untried, timeouts>>

Pool == PoolStep /\ UNCHANGED queueVars

Invocation(e) == HandlerChecks(e) \/ HandlerWrites(e) \/ HandlerMarks(e) \/ HandlerThrows(e)

Worker(e) ==
  \/ ProcessEventJob(e) \/ BackoffEnds(e) \/ AttemptFails(e)
  \/ Invocation(e) \/ HandlerTimesOut(e)

Init ==
  /\ PoolInit
  /\ job = [e \in Events |-> NoJob]
  /\ step = [e \in Events |-> "none"]
  /\ abandoned = [e \in Events |-> None]
  /\ written = [e \in Events |-> 0]
  /\ marked = {}
  /\ recording = [e \in Events |-> "idle"]
  /\ deadLetters = {}
  /\ failedEvents = [e \in Events |-> "none"]
  /\ unrecorded = {}
  /\ interrupted = [e \in Events |-> 0]
  /\ untried = [e \in Events |-> NoneTried]
  /\ timeouts = 0
  /\ crashes = 0

Next ==
  \/ Pool \/ Crash \/ RetryFailedEvents
  \/ \E e \in Events :
       \/ EnqueueEvent(e) \/ RemoveOnComplete(e) \/ Worker(e) \/ AbandonedGoesOn(e)
       \/ MoveToDeadLetters(e) \/ CreateFailedEvent(e)

Spec == Init /\ [][Next]_vars

\* The worker takes what is waiting, a delay ends, an invocation returns,
\* throws or is timed out, and the failure listener runs to its end.
Fairness ==
  \A e \in Events :
    /\ WF_vars(Worker(e))
    /\ WF_vars(MoveToDeadLetters(e) \/ CreateFailedEvent(e))

LiveSpec == Spec /\ Fairness

-----------------------------------------------------------------------------
(***************************************************************************)
(* Properties                                                              *)
(***************************************************************************)

\* Types of all variables.
TypeOK ==
  /\ PoolTypeOK
  /\ job \in [Events -> [state : {"none", "waiting", "active", "delayed", "completed", "failed"},
                         attemptsMade : 0..Attempts]]
  /\ step \in [Events -> Steps \cup {"none"}]
  /\ abandoned \in [Events -> [Steps -> 0..MaxTimeouts]]
  /\ written \in [Events -> Nat]
  /\ marked \subseteq Events
  /\ recording \in [Events -> {"idle", "deadLetter", "failedEvent"}]
  /\ deadLetters \subseteq Events
  /\ failedEvents \in [Events -> {"none", "unresolved", "resolved"}]
  /\ unrecorded \subseteq Events
  /\ interrupted \in [Events -> Nat]
  /\ untried \in [Events -> [1..Attempts -> SUBSET (Rounds \X Providers)]]
  /\ timeouts \in 0..MaxTimeouts
  /\ crashes \in 0..MaxCrashes

\* The writes of an event are repeated only when an invocation was timed out,
\* thrown out of or killed between them and the marker; retries, stalled jobs
\* and a second enqueueEvent after the job was removed do not repeat them
\* (processEventJob, executeWithFallback).
WritesRepeatOnlyAfterInterruption ==
  \A e \in Events : written[e] <= 1 + interrupted[e]

\* A job counts as completed only when its event is marked, although the pool
\* may take the answer of any of several invocations.
CompletedJobsAreHandled ==
  \A e \in Events : Is(e, "completed") => e \in marked

\* A job is given up only after each of its attempts has failed, in every round,
\* on every node that was healthy when the attempt began, or on every node of
\* the pool when none was; verdicts on the nodes in between, timeouts and
\* crashes excuse none of them (executeWithFallback, the worker's 'failed'
\* listener).
GivenUpOnlyAfterAllTries ==
  \A e \in Events : Is(e, "failed") => \A a \in 1..Attempts : untried[e][a] = {}

\* A job given up is in the dead letter queue and in failed_events, or still on
\* its way there, unless recording it was interrupted; and no row is written
\* for a job that is not among the dead letters (handlePermanentFailure).
FailuresAreKept ==
  \A e \in Events :
    /\ Is(e, "failed") /\ recording[e] = "idle" /\ e \notin unrecorded =>
         e \in deadLetters /\ failedEvents[e] # "none"
    /\ failedEvents[e] # "none" => e \in deadLetters /\ Is(e, "failed")

\* A queued event is handled or given up in the end, whatever timed out or
\* crashed in between.
EveryJobEnds ==
  \A e \in Events : Is(e, "waiting") ~> Is(e, "completed") \/ Is(e, "failed")

=============================================================================
