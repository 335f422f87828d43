-------------------------- MODULE EventQueueProofs --------------------------
(***************************************************************************)
(* Theorems about EventQueue and the pool it runs on, for every number of  *)
(* events, nodes, attempts and rounds, and however many timeouts, crashes  *)
(* and verdicts on nodes there are.                                        *)
(***************************************************************************)
EXTENDS EventQueue, Sums

-----------------------------------------------------------------------------
(***************************************************************************)
(* The inductive invariant                                                 *)
(***************************************************************************)

JobRecord == [state : {"none", "waiting", "active", "delayed", "completed", "failed"},
              attemptsMade : 0..Attempts]

CallRecord == [pc : {"idle", "running", "exhausted"}, toTry : SUBSET Providers,
               attempt : 0..MaxRetries, provider : 0..NumProviders]

\* A call goes over the nodes of its list, and over the list at most
\* MaxRetries times.
CallOK(c) ==
  /\ c \in CallRecord
  /\ c.pc # "idle" => c.attempt >= 1 /\ c.provider \in c.toTry
  /\ c.pc = "exhausted" => c.attempt = MaxRetries

\* The pool has a call for the jobs that are active, the handler is somewhere
\* as long as the call runs, and a job has attempts left until it is given up.
Linked(j, c, s) ==
  /\ j \in JobRecord /\ CallOK(c) /\ s \in Steps \cup {"none"}
  /\ j.state = "active" <=> c.pc # "idle"
  /\ s # "none" <=> c.pc = "running"
  /\ j.state = "none" => j.attemptsMade = 0
  /\ j.state \in {"waiting", "active", "delayed"} => j.attemptsMade < Attempts
  /\ j.state = "failed" => j.attemptsMade = Attempts

JobsInv ==
  /\ job \in [Events -> JobRecord]
  /\ call \in [Events -> CallRecord]
  /\ step \in [Events -> Steps \cup {"none"}]
  /\ \A e \in Events : Linked(job[e], call[e], step[e])

HealthInv ==
  /\ isHealthy \in [Providers -> BOOLEAN]
  /\ consecutiveFailures \in [Providers -> 0..MaxConsecutiveFailures]
  /\ setAside \subseteq Providers
  /\ HealthMatchesFailures

Abandoned(e) == abandoned[e]["check"] + abandoned[e]["write"] + abandoned[e]["mark"]

AbandonedInv ==
  /\ timeouts \in 0..MaxTimeouts
  /\ abandoned \in [Events -> [Steps -> Nat]]
  /\ \A e \in Events : Abandoned(e) <= timeouts

OtherTypes ==
  /\ verdicts \in 0..MaxVerdicts
  /\ crashes \in 0..MaxCrashes
  /\ written \in [Events -> Nat]
  /\ marked \subseteq Events
  /\ recording \in [Events -> {"idle", "deadLetter", "failedEvent"}]
  /\ deadLetters \subseteq Events
  /\ failedEvents \in [Events -> {"none", "unresolved", "resolved"}]
  /\ unrecorded \subseteq Events
  /\ interrupted \in [Events -> Nat]

TryRecords == [1..Attempts -> SUBSET (Rounds \X Providers)]
TriesTypes == untried \in [Events -> TryRecords]

TypeInv == HealthInv /\ JobsInv /\ AbandonedInv /\ OtherTypes /\ TriesTypes

\* The writes made, and those that abandoned invocations may yet make: each of
\* these was interrupted.  One invocation more may write before the marker is
\* there, and none that starts after it.
Unwritten(e) == abandoned[e]["check"] + abandoned[e]["write"]
Writes(e)    == written[e] + Unwritten(e)

Within(writes, interruptions, isMarked, s) ==
  /\ writes + (IF s = "write" THEN 1 ELSE 0) <= interruptions + 1
  /\ ~isMarked /\ s \notin {"write", "mark"} => writes <= interruptions

WritesInv == \A e \in Events : Within(Writes(e), interrupted[e], e \in marked, step[e])

\* What a call's attempt has not failed in yet is ahead of the call: a node of
\* its list, later in its round or in a later one.
Ahead(c, r, p) ==
  /\ p \in c.toTry
  /\ c.pc # "exhausted" /\ (r > c.attempt \/ (r = c.attempt /\ p >= c.provider))

TriedSoFar(c, u) == \A r \in Rounds, p \in Providers : <<r, p>> \in u => Ahead(c, r, p)

\* The attempts a job has made failed everywhere; the one it makes has so far.
Accounted(j, c, us) ==
  /\ j.state # "completed" => \A a \in 1..Attempts : a <= j.attemptsMade => us[a] = {}
  /\ c.pc # "idle" => TriedSoFar(c, us[j.attemptsMade + 1])

TriesInv == \A e \in Events : Accounted(job[e], call[e], untried[e])

\* What is true of one event: whether it was given up, how far its recording
\* is, whether it is a dead letter and has a row, and whether recording failed.
Recorded(isFailed, r, isDead, row, isUnrecorded) ==
  /\ r # "idle" => isFailed
  /\ r = "failedEvent" => isDead
  /\ isFailed /\ r = "idle" /\ ~isUnrecorded => isDead /\ row # "none"
  /\ row # "none" => isDead /\ isFailed

RecordsInv ==
  \A e \in Events :
    Recorded(Is(e, "failed"), recording[e], e \in deadLetters, failedEvents[e], e \in unrecorded)

-----------------------------------------------------------------------------
(***************************************************************************)
(* The pool                                                                *)
(***************************************************************************)

\* Whatever is heard of a node keeps the flags and the counters in agreement.
LEMMA HeardOf ==
  ASSUME HealthInv, NEW p \in Providers, Answered(p) \/ Failed(p)
  PROVE  HealthInv'
<1> USE PoolAssumption DEF HealthInv, HealthMatchesFailures
<1>1. CASE Answered(p)
  BY <1>1 DEF Answered
<1>2. CASE Failed(p)
  <2> DEFINE failures == OneMore(consecutiveFailures[p])
  <2>1. /\ failures \in 0..MaxConsecutiveFailures
        /\ TooMany(failures) <=> failures = MaxConsecutiveFailures
        /\ consecutiveFailures[p] = MaxConsecutiveFailures => TooMany(failures)
    BY DEF OneMore, TooMany
  <2>2. /\ consecutiveFailures' = [consecutiveFailures EXCEPT ![p] = failures]
        /\ isHealthy' = [isHealthy EXCEPT ![p] = isHealthy[p] /\ ~TooMany(failures)]
        /\ setAside' = setAside
    BY <1>2 DEF Failed
  <2> HIDE DEF failures
  <2>3. \A q \in Providers \ {p} : isHealthy'[q] = isHealthy[q]
                                   /\ consecutiveFailures'[q] = consecutiveFailures[q]
    BY <2>2
  <2>4. consecutiveFailures'[p] = failures /\ (isHealthy'[p] <=> isHealthy[p] /\ ~TooMany(failures))
    BY <2>2
  <2>5. isHealthy' \in [Providers -> BOOLEAN]
    BY <2>2
  <2>6. consecutiveFailures' \in [Providers -> 0..MaxConsecutiveFailures]
    BY <2>1, <2>2
  <2>7. ASSUME NEW q \in Providers
        PROVE  /\ isHealthy'[q] => consecutiveFailures'[q] < MaxConsecutiveFailures
               /\ ~isHealthy'[q] => consecutiveFailures'[q] = MaxConsecutiveFailures \/ q \in setAside'
    BY <2>1, <2>2, <2>3, <2>4
  <2> QED
    BY <2>2, <2>5, <2>6, <2>7
<1> QED
  BY <1>1, <1>2

LEMMA VerdictsKeepHealth ==
  ASSUME HealthInv, PoolStep
  PROVE  HealthInv'
<1>1. PICK p \in Providers : \/ HealthCheckSucceeds(p) \/ HealthCheckFails(p)
                             \/ \E healthy \in BOOLEAN : SetProviderHealth(p, healthy)
  BY DEF PoolStep
<1>2. \/ Answered(p) \/ Failed(p)
      \/ /\ isHealthy' = [isHealthy EXCEPT ![p] = FALSE]
         /\ setAside' = setAside \cup {p}
         /\ UNCHANGED consecutiveFailures
  BY <1>1 DEF HealthCheckSucceeds, HealthCheckFails, SetProviderHealth
<1>3. CASE ~(Answered(p) \/ Failed(p))
  BY <1>2, <1>3 DEF HealthInv, HealthMatchesFailures
<1> QED
  BY <1>3, HeardOf

LEMMA HealthAtStart ==
  ASSUME isHealthy = [p \in Providers |-> TRUE], consecutiveFailures = [p \in Providers |-> 0],
         setAside = {}
  PROVE  HealthInv
  BY PoolAssumption DEF HealthInv, HealthMatchesFailures

LEMMA HealthAfterRestart ==
  ASSUME PoolRestart
  PROVE  HealthInv'
  BY PoolAssumption DEF PoolRestart, HealthInv, HealthMatchesFailures

\* A list of nodes has a first one.
LEMMA FirstNode ==
  ASSUME NEW nodes \in SUBSET Providers, nodes # {}
  PROVE  Min(nodes) \in nodes /\ \A m \in nodes : Min(nodes) <= m
<1>1. nodes \in SUBSET Nat
  BY DEF Providers
<1>2. \E n \in nodes : \A m \in nodes : n <= m
  BY <1>1, LeastNumber
<1> QED
  BY <1>2 DEF Min

LEMMA CallStarts ==
  ASSUME NEW e \in Callers, StartCall(e)
  PROVE  \E c : /\ CallOK(c) /\ c.pc = "running" /\ c.attempt = 1 /\ call' = [call EXCEPT ![e] = c]
              /\ c.toTry = ProvidersToTry /\ \A p \in c.toTry : c.provider <= p
<1> DEFINE nodes == ProvidersToTry
           first == Min(nodes)
           new   == [pc |-> "running", toTry |-> nodes, attempt |-> 1, provider |-> first]
<1>1. nodes \in SUBSET Providers /\ nodes # {}
  BY PoolAssumption DEF ProvidersToTry, HealthyProviders, Providers
<1>2. first \in nodes /\ \A p \in nodes : first <= p
  BY <1>1, FirstNode
<1>3. call' = [call EXCEPT ![e] = new]
  BY DEF StartCall
<1> HIDE DEF nodes, first
<1>4. first \in Providers
  BY <1>1, <1>2
<1>5. first \in 0..NumProviders /\ 1 \in 0..MaxRetries
  BY <1>4, PoolAssumption DEF Providers
<1>6. new \in CallRecord
  BY <1>1, <1>5 DEF CallRecord
<1>7. CallOK(new)
  BY <1>2, <1>6 DEF CallOK
<1>8. new.toTry = nodes /\ new.provider = first
  OBVIOUS
<1> QED
  BY <1>2, <1>3, <1>7, <1>8 DEF nodes

LEMMA CallGoesOn ==
  ASSUME NEW e \in Callers, CallOK(call[e]), call[e].pc = "running"
  PROVE  /\ CallOK(NextTry(e)) /\ NextTry(e).toTry = call[e].toTry
         /\ GivesUp(e) => NextTry(e).pc = "exhausted"
         /\ ~GivesUp(e) => NextTry(e).pc = "running"
<1> DEFINE me == call[e]
<1>1. /\ me \in CallRecord /\ me.attempt >= 1 /\ me.provider \in me.toTry
      /\ me.toTry \in SUBSET Providers /\ me.attempt \in 0..MaxRetries
  BY DEF CallOK, CallRecord
<1>2. CASE GivesUp(e)
  <2>1. NextTry(e) = [me EXCEPT !.pc = "exhausted"] /\ me.attempt = MaxRetries
    BY <1>1, <1>2, PoolAssumption DEF NextTry, GivesUp, LastRound
  <2> QED
    BY <1>1, <1>2, <2>1 DEF CallOK, CallRecord
<1>3. CASE ~GivesUp(e) /\ Later(e) # {}
  <2>1. NextTry(e) = [me EXCEPT !.provider = Min(Later(e))]
    BY <1>3 DEF NextTry
  <2>2. Min(Later(e)) \in Later(e) /\ Later(e) \subseteq me.toTry
    BY <1>1, <1>3, FirstNode DEF Later
  <2>3. Min(Later(e)) \in me.toTry /\ Min(Later(e)) \in 0..NumProviders
    BY <1>1, <2>2, PoolAssumption DEF Providers
  <2> QED
    BY <1>1, <1>3, <2>1, <2>3, PoolAssumption DEF CallOK, CallRecord
<1>4. CASE ~GivesUp(e) /\ Later(e) = {}
  <2>1. NextTry(e) = [me EXCEPT !.provider = Min(me.toTry), !.attempt = @ + 1]
    BY <1>4 DEF NextTry
  <2>2. me.attempt < MaxRetries
    BY <1>1, <1>4, PoolAssumption DEF GivesUp, LastRound
  <2>3. Min(me.toTry) \in me.toTry /\ Min(me.toTry) \in 0..NumProviders
    BY <1>1, FirstNode, PoolAssumption DEF Providers
  <2>4. me.attempt + 1 \in 0..MaxRetries /\ me.attempt + 1 >= 1
    BY <1>1, <2>2, PoolAssumption
  <2>5. NextTry(e) \in CallRecord
    BY <1>1, <2>1, <2>3, <2>4 DEF CallRecord
  <2>6. /\ NextTry(e).pc = "running" /\ NextTry(e).attempt = me.attempt + 1
        /\ NextTry(e).provider = Min(me.toTry) /\ NextTry(e).toTry = me.toTry
    BY <1>1, <2>1 DEF CallRecord
  <2> QED
    BY <1>1, <1>4, <2>3, <2>4, <2>5, <2>6 DEF CallOK
<1> QED
  BY <1>2, <1>3, <1>4

\* The node and round a call was on is the only one that the next step puts
\* behind it.
LEMMA NextInLine ==
  ASSUME NEW e \in Callers, CallOK(call[e]), call[e].pc = "running",
         NEW r \in 1..MaxRetries, NEW p \in call[e].toTry,
         \/ NextTry(e).pc = "exhausted" \/ r < NextTry(e).attempt
         \/ r = NextTry(e).attempt /\ p < NextTry(e).provider
  PROVE  r < call[e].attempt \/ (r = call[e].attempt /\ p <= call[e].provider)
<1> DEFINE me == call[e]
<1>1. /\ me \in CallRecord /\ me.toTry \in SUBSET Providers /\ me.attempt \in 0..MaxRetries
      /\ me.provider \in Providers /\ p \in Providers
  BY DEF CallOK, CallRecord
<1>2. p \notin Later(e) => p <= me.provider
  BY <1>1 DEF Later, Providers
<1>3. CASE GivesUp(e)
  BY <1>1, <1>2, <1>3, PoolAssumption DEF GivesUp, LastRound
<1>4. CASE ~GivesUp(e) /\ Later(e) # {}
  <2>1. NextTry(e) = [me EXCEPT !.provider = Min(Later(e))]
    BY <1>4 DEF NextTry
  <2>2. \A m \in Later(e) : Min(Later(e)) <= m
    BY <1>1, <1>4, FirstNode DEF Later
  <2>3. NextTry(e).pc = "running" /\ NextTry(e).attempt = me.attempt /\ NextTry(e).provider = Min(Later(e))
    BY <1>1, <2>1 DEF CallRecord
  <2>4. p \in Later(e) => ~(p < Min(Later(e)))
    <3>1. Min(Later(e)) \in Providers
      BY <1>1, <1>4, FirstNode DEF Later
    <3> QED
      BY <1>1, <2>2, <3>1 DEF Providers
  <2> QED
    BY <1>2, <2>3, <2>4
<1>5. CASE ~GivesUp(e) /\ Later(e) = {}
  <2>1. NextTry(e) = [me EXCEPT !.provider = Min(me.toTry), !.attempt = @ + 1]
    BY <1>5 DEF NextTry
  <2>2. NextTry(e).pc = "running" /\ NextTry(e).attempt = me.attempt + 1 /\ NextTry(e).provider = Min(me.toTry)
    BY <1>1, <2>1 DEF CallRecord
  <2>3. Min(me.toTry) \in Providers /\ Min(me.toTry) <= p
    BY <1>1, FirstNode
  <2>4. ~(p < Min(me.toTry))
    BY <1>1, <2>3 DEF Providers
  <2> QED
    BY <1>1, <1>2, <1>5, <2>2, <2>4
<1> QED
  BY <1>3, <1>4, <1>5

-----------------------------------------------------------------------------
(***************************************************************************)
(* Jobs and calls                                                          *)
(***************************************************************************)

\* A step that moves one job, with its call and its handler.
LEMMA OneJobMoves ==
  ASSUME JobsInv, NEW e \in Events, NEW j, NEW c, NEW s, Linked(j, c, s),
         job' = [job EXCEPT ![e] = j], call' = [call EXCEPT ![e] = c],
         step' = [step EXCEPT ![e] = s]
  PROVE  JobsInv'
<1>1. j \in JobRecord /\ c \in CallRecord /\ s \in Steps \cup {"none"}
  BY DEF Linked, CallOK
<1>2. /\ job' \in [Events -> JobRecord] /\ call' \in [Events -> CallRecord]
      /\ step' \in [Events -> Steps \cup {"none"}]
  BY <1>1 DEF JobsInv
<1>3. \A f \in Events : Linked(job'[f], call'[f], step'[f])
  BY DEF JobsInv
<1> QED
  BY <1>2, <1>3 DEF JobsInv

LEMMA NoJobMoves ==
  ASSUME JobsInv, UNCHANGED <<job, call, step>>
  PROVE  JobsInv'
  BY DEF JobsInv

LEMMA JobStates ==
  ASSUME JobsInv, NEW e \in Events
  PROVE  /\ Linked(job[e], call[e], step[e])
         /\ job = [job EXCEPT ![e] = job[e]]
         /\ call = [call EXCEPT ![e] = call[e]]
         /\ step = [step EXCEPT ![e] = step[e]]
  BY DEF JobsInv

LEMMA StateSet ==
  ASSUME JobsInv, NEW e \in Events, NEW state, SetState(e, state)
  PROVE  \E j : /\ job' = [job EXCEPT ![e] = j]
                /\ j.state = state /\ j.attemptsMade = job[e].attemptsMade
                /\ state \in {"none", "waiting", "active", "delayed", "completed", "failed"}
                     => j \in JobRecord
<1> DEFINE j == [job[e] EXCEPT !.state = state]
<1>1. job[e] \in JobRecord
  BY DEF JobsInv
<1>2. job' = [job EXCEPT ![e] = j]
  BY DEF SetState
<1>3. /\ j.state = state /\ j.attemptsMade = job[e].attemptsMade
      /\ state \in {"none", "waiting", "active", "delayed", "completed", "failed"} => j \in JobRecord
  BY <1>1 DEF JobRecord
<1> QED
  BY <1>2, <1>3

\* The call of a node that answered, and the job with it.
LEMMA CompletionKeepsJobs ==
  ASSUME JobsInv, HealthInv, NEW e \in Events, Completes(e)
  PROVE  JobsInv' /\ HealthInv'
<1>1. PICK j : /\ job' = [job EXCEPT ![e] = j]
               /\ j.state = "completed" /\ j \in JobRecord
  BY StateSet DEF Completes
<1>2. /\ call[e].pc = "running" /\ Answered(call[e].provider)
      /\ call' = [call EXCEPT ![e] = NoCall] /\ step' = [step EXCEPT ![e] = "none"]
  BY DEF Completes, CallSucceeds
<1>3. Linked(j, NoCall, "none")
  BY <1>1, PoolAssumption DEF Linked, CallOK, CallRecord, NoCall
<1>4. call[e].provider \in Providers
  BY <1>2, JobStates DEF Linked, CallOK, CallRecord
<1> QED
  BY <1>1, <1>2, <1>3, <1>4, OneJobMoves, HeardOf

\* The next node, the next round, or none.
LEMMA NextTryKeepsJobs ==
  ASSUME JobsInv, HealthInv, NEW e \in Events, TriesAgain(e)
  PROVE  JobsInv' /\ HealthInv'
<1> DEFINE s == IF GivesUp(e) THEN "none" ELSE "check"
<1>1. /\ call[e].pc = "running" /\ Failed(call[e].provider) /\ UNCHANGED job
      /\ call' = [call EXCEPT ![e] = NextTry(e)] /\ step' = [step EXCEPT ![e] = s]
  BY DEF TriesAgain, CallFails
<1>2. Linked(job[e], call[e], step[e]) /\ job' = [job EXCEPT ![e] = job[e]]
  BY <1>1, JobStates
<1>3. CallOK(NextTry(e)) /\ (GivesUp(e) => NextTry(e).pc = "exhausted")
                         /\ (~GivesUp(e) => NextTry(e).pc = "running")
  BY <1>1, <1>2, CallGoesOn DEF Linked, Events
<1>4. Linked(job[e], NextTry(e), s)
  BY <1>1, <1>2, <1>3 DEF Linked, Steps
<1>5. call[e].provider \in Providers
  BY <1>1, <1>2 DEF Linked, CallOK, CallRecord
<1> QED
  BY <1>1, <1>2, <1>4, <1>5, OneJobMoves, HeardOf

LEMMA StepsKeepJobs ==
  ASSUME JobsInv, HealthInv, [Next]_vars
  PROVE  JobsInv' /\ HealthInv'
<1>1. CASE UNCHANGED vars \/ RetryFailedEvents
  BY <1>1, NoJobMoves DEF vars, poolVars, health, queueVars, RetryFailedEvents, HealthInv, HealthMatchesFailures
<1>2. CASE Pool
  <2>1. UNCHANGED <<call, job, step>>
    BY <1>2 DEF Pool, PoolStep, HealthCheckSucceeds, HealthCheckFails, SetProviderHealth, queueVars
  <2> QED
    BY <1>2, <2>1, NoJobMoves, VerdictsKeepHealth DEF Pool
<1>3. CASE Crash
  <2> DEFINE Back(e) == IF Is(e, "active") THEN [job[e] EXCEPT !.state = "waiting"] ELSE job[e]
  <2>1. /\ job' = [e \in Events |-> Back(e)]
        /\ call' = [e \in Events |-> NoCall] /\ step' = [e \in Events |-> "none"]
    BY <1>3 DEF Crash, PoolRestart, Events
  <2>2. ASSUME NEW e \in Events PROVE Linked(Back(e), NoCall, "none")
    <3>1. Linked(job[e], call[e], step[e])
      BY JobStates
    <3> QED
      BY <3>1, PoolAssumption DEF Linked, JobRecord, CallOK, CallRecord, NoCall, Is
  <2>3. \A e \in Events : Back(e) \in JobRecord /\ NoCall \in CallRecord
    BY <2>2 DEF Linked, CallOK
  <2> HIDE DEF Back
  <2>4. JobsInv'
    BY <2>1, <2>2, <2>3 DEF JobsInv
  <2> QED
    BY <1>3, <2>4, HealthAfterRestart DEF Crash
<1>4. ASSUME NEW e \in Events, EnqueueEvent(e) \/ BackoffEnds(e)
      PROVE  JobsInv' /\ HealthInv'
  <2>1. /\ SetState(e, "waiting") /\ job[e].state \in {"none", "delayed"}
        /\ UNCHANGED <<health, call, step>>
    BY <1>4 DEF EnqueueEvent, BackoffEnds, Is, poolVars
  <2>2. PICK j : /\ job' = [job EXCEPT ![e] = j] /\ j \in JobRecord
                 /\ j.state = "waiting" /\ j.attemptsMade = job[e].attemptsMade
    BY <2>1, StateSet
  <2>3. Linked(j, call[e], step[e])
    BY <2>1, <2>2, JobStates, QueueAssumption DEF Linked
  <2>4. call' = [call EXCEPT ![e] = call[e]] /\ step' = [step EXCEPT ![e] = step[e]]
    BY <2>1, JobStates
  <2>5. JobsInv'
    BY <2>2, <2>3, <2>4, OneJobMoves
  <2> QED
    BY <2>1, <2>5 DEF health, HealthInv, HealthMatchesFailures
<1>5. ASSUME NEW e \in Events, RemoveOnComplete(e)
      PROVE  JobsInv' /\ HealthInv'
  <2>1. job[e].state = "completed" /\ UNCHANGED <<health, call, step>>
    BY <1>5 DEF RemoveOnComplete, Is, poolVars
  <2>2. PICK j : j = NoJob /\ job' = [job EXCEPT ![e] = j]
    BY <1>5 DEF RemoveOnComplete
  <2>3. call' = [call EXCEPT ![e] = call[e]] /\ step' = [step EXCEPT ![e] = step[e]]
    BY <2>1, JobStates
  <2>4. Linked(j, call[e], step[e])
    BY <2>1, <2>2, JobStates, QueueAssumption DEF Linked, NoJob, JobRecord
  <2>5. JobsInv'
    BY <2>2, <2>3, <2>4, OneJobMoves
  <2> QED
    BY <2>1, <2>5 DEF health, HealthInv, HealthMatchesFailures
<1>6. ASSUME NEW e \in Events, ProcessEventJob(e)
      PROVE  JobsInv' /\ HealthInv'
  <2>1. /\ SetState(e, "active") /\ job[e].state = "waiting" /\ StartCall(e)
        /\ step' = [step EXCEPT ![e] = "check"] /\ UNCHANGED health
    BY <1>6 DEF ProcessEventJob, Is, StartCall
  <2>2. PICK j : /\ job' = [job EXCEPT ![e] = j] /\ j \in JobRecord
                 /\ j.state = "active" /\ j.attemptsMade = job[e].attemptsMade
    BY <2>1, StateSet
  <2>3. PICK c : CallOK(c) /\ c.pc = "running" /\ call' = [call EXCEPT ![e] = c]
    BY <2>1, CallStarts DEF Events
  <2>4. Linked(j, c, "check")
    BY <2>1, <2>2, <2>3, JobStates DEF Linked, Steps
  <2>5. JobsInv'
    BY <2>1, <2>2, <2>3, <2>4, OneJobMoves
  <2> QED
    BY <2>1, <2>5 DEF health, HealthInv, HealthMatchesFailures
<1>7. ASSUME NEW e \in Events, AttemptFails(e)
      PROVE  JobsInv' /\ HealthInv'
  <2> DEFINE made == job[e].attemptsMade + 1
             j == [state |-> IF NoAttemptLeft(made) THEN "failed" ELSE "delayed", attemptsMade |-> made]
  <2>1. /\ job' = [job EXCEPT ![e] = j] /\ call' = [call EXCEPT ![e] = NoCall]
        /\ call[e].pc = "exhausted" /\ UNCHANGED <<health, step>>
    BY <1>7 DEF AttemptFails, Current
  <2>2. job[e].attemptsMade \in 0..Attempts /\ job[e].attemptsMade < Attempts /\ step[e] = "none"
    BY <2>1, JobStates DEF Linked, JobRecord
  <2>3. made \in 0..Attempts /\ (NoAttemptLeft(made) <=> made = Attempts)
    BY <2>2, QueueAssumption DEF NoAttemptLeft
  <2>4. Linked(j, NoCall, step[e])
    BY <2>2, <2>3, PoolAssumption, QueueAssumption DEF Linked, JobRecord, CallOK, CallRecord, NoCall
  <2>5. JobsInv'
    BY <2>1, <2>4, OneJobMoves, JobStates
  <2> QED
    BY <2>1, <2>5 DEF health, HealthInv, HealthMatchesFailures
<1>8. ASSUME NEW e \in Events, Completes(e) \/ TriesAgain(e)
      PROVE  JobsInv' /\ HealthInv'
  BY <1>8, CompletionKeepsJobs, NextTryKeepsJobs
<1>9. ASSUME NEW e \in Events, NEW s \in Steps, call[e].pc = "running",
             step' = [step EXCEPT ![e] = s], UNCHANGED <<health, call, job>>
      PROVE  JobsInv' /\ HealthInv'
  <2>1. Linked(job[e], call[e], s)
    BY <1>9, JobStates DEF Linked, Steps
  <2>2. JobsInv'
    BY <1>9, <2>1, OneJobMoves, JobStates
  <2> QED
    BY <1>9, <2>2 DEF health, HealthInv, HealthMatchesFailures
<1>10. ASSUME NEW e \in Events, AbandonedGoesOn(e) \/ MoveToDeadLetters(e) \/ CreateFailedEvent(e)
       PROVE  JobsInv' /\ HealthInv'
  BY <1>10, NoJobMoves DEF AbandonedGoesOn, MoveToDeadLetters, CreateFailedEvent, poolVars, health,
     HealthInv, HealthMatchesFailures
<1>11. ASSUME NEW e \in Events, HandlerChecks(e) \/ HandlerWrites(e) \/ HandlerMarks(e)
       PROVE  JobsInv' /\ HealthInv'
  <2>1. \/ Completes(e)
        \/ \E s \in Steps : /\ call[e].pc = "running" /\ step' = [step EXCEPT ![e] = s]
                            /\ UNCHANGED <<health, call, job>>
    BY <1>11 DEF HandlerChecks, HandlerWrites, HandlerMarks, Running, Steps, poolVars
  <2> QED
    BY <2>1, <1>8, <1>9
<1>12. ASSUME NEW e \in Events, HandlerThrows(e) \/ HandlerTimesOut(e)
       PROVE  JobsInv' /\ HealthInv'
  BY <1>8, <1>12 DEF HandlerThrows, HandlerTimesOut
<1> QED
  BY <1>1, <1>2, <1>3, <1>4, <1>5, <1>6, <1>7, <1>10, <1>11, <1>12 DEF Next, Worker, Invocation

-----------------------------------------------------------------------------
(***************************************************************************)
(* Types                                                                   *)
(***************************************************************************)

\* An invocation is given up in step s.
LEMMA OneMoreAbandoned ==
  ASSUME AbandonedInv, NEW e \in Events, NEW s \in Steps,
         abandoned' = [abandoned EXCEPT ![e][s] = @ + 1]
  PROVE  /\ abandoned' \in [Events -> [Steps -> Nat]]
         /\ \A f \in Events \ {e} : abandoned'[f] = abandoned[f]
         /\ \A t \in Steps : abandoned'[e][t] = abandoned[e][t] + (IF t = s THEN 1 ELSE 0)
  BY DEF AbandonedInv

\* An abandoned invocation goes from step s to step t, or is over.
LEMMA AbandonedMoves ==
  ASSUME AbandonedInv, NEW e \in Events, AbandonedGoesOn(e)
  PROVE  /\ abandoned' \in [Events -> [Steps -> Nat]]
         /\ \A f \in Events \ {e} : abandoned'[f] = abandoned[f]
         /\ Abandoned(e)' <= Abandoned(e)
         /\ Abandoned(e)' \in Nat
         /\ marked' \in {marked, marked \cup {e}}
         /\ \/ /\ written' = written
               /\ Unwritten(e)' <= Unwritten(e)
            \/ /\ written' = [written EXCEPT ![e] = @ + 1]
               /\ Unwritten(e)' = Unwritten(e) - 1
<1> DEFINE a == abandoned[e]
<1>1. a \in [Steps -> Nat] /\ a["check"] \in Nat /\ a["write"] \in Nat /\ a["mark"] \in Nat
  BY DEF AbandonedInv, Steps
<1>2. PICK s \in Steps :
        /\ a[s] > 0
        /\ \/ /\ s = "check"
              /\ abandoned' = [abandoned EXCEPT ![e] = [a EXCEPT !["check"] = @ - 1, !["write"] = @ + 1]]
              /\ written' = written /\ marked' = marked
           \/ /\ s = "write"
              /\ abandoned' = [abandoned EXCEPT ![e] = [a EXCEPT !["write"] = @ - 1, !["mark"] = @ + 1]]
              /\ written' = [written EXCEPT ![e] = @ + 1] /\ marked' = marked
           \/ /\ abandoned' = [abandoned EXCEPT ![e] = [a EXCEPT ![s] = @ - 1]]
              /\ written' = written /\ marked' \in {marked, marked \cup {e}}
  BY DEF AbandonedGoesOn, AbandonedInv, store
<1> DEFINE b == abandoned'[e]
<1>3. /\ abandoned' \in [Events -> [Steps -> Nat]]
      /\ \A f \in Events \ {e} : abandoned'[f] = abandoned[f]
  BY <1>1, <1>2 DEF AbandonedInv, Steps
<1>4. CASE s = "check" /\ abandoned' = [abandoned EXCEPT ![e] = [a EXCEPT !["check"] = @ - 1, !["write"] = @ + 1]]
                       /\ written' = written /\ marked' = marked
  <2>1. b["check"] = a["check"] - 1 /\ b["write"] = a["write"] + 1 /\ b["mark"] = a["mark"]
    BY <1>1, <1>4 DEF AbandonedInv, Steps
  <2> QED
    BY <1>1, <1>3, <1>4, <2>1 DEF Abandoned, Unwritten, Steps
<1>5. CASE s = "write" /\ abandoned' = [abandoned EXCEPT ![e] = [a EXCEPT !["write"] = @ - 1, !["mark"] = @ + 1]]
                       /\ written' = [written EXCEPT ![e] = @ + 1] /\ marked' = marked
  <2>1. b["check"] = a["check"] /\ b["write"] = a["write"] - 1 /\ b["mark"] = a["mark"] + 1
    BY <1>1, <1>5 DEF AbandonedInv, Steps
  <2> QED
    BY <1>1, <1>3, <1>5, <2>1 DEF Abandoned, Unwritten, Steps
<1>6. CASE abandoned' = [abandoned EXCEPT ![e] = [a EXCEPT ![s] = @ - 1]]
           /\ written' = written /\ marked' \in {marked, marked \cup {e}}
  <2>1. \A t \in Steps : b[t] = IF t = s THEN a[t] - 1 ELSE a[t]
    BY <1>1, <1>6 DEF AbandonedInv
  <2> QED
    BY <1>1, <1>2, <1>3, <1>6, <2>1 DEF Abandoned, Unwritten, Steps
<1> QED
  BY <1>2, <1>4, <1>5, <1>6

LEMMA StepsKeepAbandoned ==
  ASSUME JobsInv, AbandonedInv, [Next]_vars
  PROVE  AbandonedInv'
<1>1. CASE UNCHANGED <<abandoned, timeouts>>
  BY <1>1 DEF AbandonedInv, Abandoned
<1>2. CASE Crash
  <2>1. /\ abandoned' = [e \in Events |-> None] /\ UNCHANGED timeouts
    BY <1>2 DEF Crash
  <2> QED
    BY <2>1 DEF AbandonedInv, Abandoned, None, Steps
<1>3. ASSUME NEW e \in Events, HandlerTimesOut(e)
      PROVE  AbandonedInv'
  <2>1. call[e].pc = "running" /\ timeouts < MaxTimeouts /\ timeouts' = timeouts + 1
        /\ abandoned' = [abandoned EXCEPT ![e][step[e]] = @ + 1]
    BY <1>3 DEF HandlerTimesOut
  <2>2. step[e] \in Steps
    BY <2>1, JobStates DEF Linked
  <2>3. /\ abandoned' \in [Events -> [Steps -> Nat]]
        /\ \A f \in Events \ {e} : abandoned'[f] = abandoned[f]
        /\ \A t \in Steps : abandoned'[e][t] = abandoned[e][t] + (IF t = step[e] THEN 1 ELSE 0)
    BY <2>1, <2>2, OneMoreAbandoned
  <2>4. ASSUME NEW f \in Events PROVE Abandoned(f) \in Nat /\ Abandoned(f)' <= Abandoned(f) + 1
    BY <2>2, <2>3 DEF AbandonedInv, Abandoned, Steps
  <2>5. ASSUME NEW f \in Events PROVE Abandoned(f)' <= timeouts'
    <3>1. Abandoned(f)' \in Nat
      BY <2>3 DEF Abandoned, Steps
    <3> QED
      BY <2>1, <2>4, <3>1 DEF AbandonedInv
  <2> QED
    BY <2>1, <2>3, <2>5, QueueAssumption DEF AbandonedInv
<1>4. ASSUME NEW e \in Events, AbandonedGoesOn(e)
      PROVE  AbandonedInv'
  <2>1. UNCHANGED timeouts
    BY <1>4 DEF AbandonedGoesOn, bounds
  <2>2. /\ abandoned' \in [Events -> [Steps -> Nat]]
        /\ \A f \in Events \ {e} : abandoned'[f] = abandoned[f]
        /\ Abandoned(e)' <= Abandoned(e) /\ Abandoned(e)' \in Nat
    BY <1>4, AbandonedMoves
  <2>3. ASSUME NEW f \in Events PROVE Abandoned(f)' <= timeouts'
    <3>1. Abandoned(f) \in Nat /\ Abandoned(f) <= timeouts
      BY DEF AbandonedInv, Abandoned, Steps
    <3>2. CASE f = e
      BY <2>1, <2>2, <3>1, <3>2 DEF AbandonedInv
    <3>3. CASE f # e
      BY <2>1, <2>2, <3>1, <3>3 DEF Abandoned
    <3> QED
      BY <3>2, <3>3
  <2> QED
    BY <2>1, <2>2, <2>3 DEF AbandonedInv
<1>5. CASE Next /\ ~Crash /\ ~(\E e \in Events : HandlerTimesOut(e) \/ AbandonedGoesOn(e))
  <2>1. UNCHANGED <<abandoned, timeouts>>
    BY <1>5 DEF Next, Pool, queueVars, bounds, RetryFailedEvents, EnqueueEvent, RemoveOnComplete, Worker,
       ProcessEventJob, BackoffEnds, AttemptFails, Invocation, HandlerChecks, HandlerWrites, HandlerMarks,
       HandlerThrows, MoveToDeadLetters, CreateFailedEvent
  <2> QED
    BY <1>1, <2>1
<1> QED
  BY <1>1, <1>2, <1>3, <1>4, <1>5 DEF vars, queueVars, bounds

\* What a step does to each of the other variables.
LEMMA StepsKeepOthers ==
  ASSUME OtherTypes, [Next]_vars
  PROVE  OtherTypes'
<1>1. verdicts' \in 0..MaxVerdicts
  <2>1. verdicts' = verdicts \/ (verdicts < MaxVerdicts /\ verdicts' = verdicts + 1)
    BY DEF Next, Pool, PoolStep, HealthCheckSucceeds, HealthCheckFails, SetProviderHealth, Crash, PoolRestart,
       RetryFailedEvents, EnqueueEvent, RemoveOnComplete, Worker, ProcessEventJob, StartCall, BackoffEnds,
       AttemptFails, Invocation, HandlerChecks, Completes, CallSucceeds, HandlerWrites, HandlerMarks,
       HandlerThrows, TriesAgain, CallFails, HandlerTimesOut, AbandonedGoesOn, MoveToDeadLetters,
       CreateFailedEvent, vars, poolVars
  <2> QED
    BY <2>1, PoolAssumption DEF OtherTypes
<1>2. crashes' \in 0..MaxCrashes
  <2>1. crashes' = crashes \/ (crashes < MaxCrashes /\ crashes' = crashes + 1)
    BY DEF Next, Pool, Crash, RetryFailedEvents, EnqueueEvent, RemoveOnComplete, Worker, ProcessEventJob,
       BackoffEnds, AttemptFails, Invocation, HandlerChecks, HandlerWrites, HandlerMarks,
       HandlerThrows, HandlerTimesOut, AbandonedGoesOn, MoveToDeadLetters,
       CreateFailedEvent, vars, queueVars, bounds
  <2> QED
    BY <2>1, QueueAssumption DEF OtherTypes
<1>3. written' \in [Events -> Nat] /\ marked' \subseteq Events
  <2>1. ASSUME NEW e \in Events, HandlerWrites(e) \/ HandlerMarks(e) \/ AbandonedGoesOn(e)
        PROVE  written' \in [Events -> Nat] /\ marked' \subseteq Events
    <3>1. written' = written \/ written' = [written EXCEPT ![e] = @ + 1]
      BY <2>1 DEF HandlerWrites, HandlerMarks, AbandonedGoesOn, store
    <3>2. marked' = marked \/ marked' = marked \cup {e}
      BY <2>1 DEF HandlerWrites, HandlerMarks, AbandonedGoesOn, store
    <3> QED
      BY <3>1, <3>2 DEF OtherTypes
  <2>2. CASE Next /\ ~(\E e \in Events : HandlerWrites(e) \/ HandlerMarks(e) \/ AbandonedGoesOn(e))
    <3>1. UNCHANGED store
      BY <2>2 DEF Next, Pool, Crash, RetryFailedEvents, EnqueueEvent, RemoveOnComplete, Worker, ProcessEventJob,
         BackoffEnds, AttemptFails, Invocation, HandlerChecks, HandlerThrows, HandlerTimesOut,
         MoveToDeadLetters, CreateFailedEvent, queueVars, store
    <3> QED
      BY <3>1 DEF OtherTypes, store
  <2> QED
    BY <2>1, <2>2 DEF vars, queueVars, store, OtherTypes
<1>4. /\ recording' \in [Events -> {"idle", "deadLetter", "failedEvent"}]
      /\ deadLetters' \subseteq Events
      /\ failedEvents' \in [Events -> {"none", "unresolved", "resolved"}]
      /\ unrecorded' \subseteq Events
  <2>1. CASE UNCHANGED record
    BY <2>1 DEF OtherTypes, record
  <2>2. ASSUME NEW e \in Events, AttemptFails(e) \/ MoveToDeadLetters(e) \/ CreateFailedEvent(e)
        PROVE  /\ recording' \in [Events -> {"idle", "deadLetter", "failedEvent"}]
               /\ deadLetters' \subseteq Events
               /\ failedEvents' \in [Events -> {"none", "unresolved", "resolved"}]
               /\ unrecorded' \subseteq Events
    <3>1. \E r \in {"idle", "deadLetter", "failedEvent"} :
            recording' = recording \/ recording' = [recording EXCEPT ![e] = r]
      BY <2>2 DEF AttemptFails, MoveToDeadLetters, CreateFailedEvent, RecordingFails
    <3>2. deadLetters' = deadLetters \/ deadLetters' = deadLetters \cup {e}
      BY <2>2 DEF AttemptFails, MoveToDeadLetters, CreateFailedEvent, RecordingFails
    <3>3. failedEvents' = failedEvents \/ failedEvents' = [failedEvents EXCEPT ![e] = "unresolved"]
      BY <2>2 DEF AttemptFails, MoveToDeadLetters, CreateFailedEvent, RecordingFails
    <3>4. unrecorded' = unrecorded \/ unrecorded' = unrecorded \cup {e}
      BY <2>2 DEF AttemptFails, MoveToDeadLetters, CreateFailedEvent, RecordingFails
    <3>5. recording' \in [Events -> {"idle", "deadLetter", "failedEvent"}]
      BY <3>1 DEF OtherTypes
    <3> QED
      BY <3>2, <3>3, <3>4, <3>5 DEF OtherTypes
  <2>3. CASE Crash
    BY <2>3 DEF Crash, OtherTypes
  <2>4. CASE RetryFailedEvents
    BY <2>4 DEF RetryFailedEvents, OtherTypes
  <2>5. CASE Next /\ ~Crash /\ ~RetryFailedEvents
             /\ ~(\E e \in Events : AttemptFails(e) \/ MoveToDeadLetters(e) \/ CreateFailedEvent(e))
    <3>1. UNCHANGED record
      BY <2>5 DEF Next, Pool, EnqueueEvent, RemoveOnComplete, Worker, ProcessEventJob,
         BackoffEnds, Invocation, HandlerChecks, HandlerWrites, HandlerMarks,
         HandlerThrows, HandlerTimesOut, AbandonedGoesOn, queueVars, record
    <3> QED
      BY <2>1, <3>1
  <2> QED
    BY <2>1, <2>2, <2>3, <2>4, <2>5 DEF vars, queueVars
<1>5. interrupted' \in [Events -> Nat]
  <2>1. CASE Crash
    BY <2>1 DEF Crash, OtherTypes
  <2>2. CASE ~Crash
    <3>1. interrupted' = interrupted \/ \E e \in Events : Interrupt(e)
      BY <2>2 DEF Next, Pool, RetryFailedEvents, EnqueueEvent, RemoveOnComplete, Worker, ProcessEventJob,
         BackoffEnds, AttemptFails, Invocation, HandlerChecks, HandlerWrites, HandlerMarks,
         HandlerThrows, HandlerTimesOut, AbandonedGoesOn, MoveToDeadLetters,
         CreateFailedEvent, vars, queueVars, history
    <3> QED
      BY <3>1 DEF Interrupt, OtherTypes
  <2> QED
    BY <2>1, <2>2
<1> QED
  BY <1>1, <1>2, <1>3, <1>4, <1>5 DEF OtherTypes

LEMMA NoTriesYet == NoneTried \in TryRecords
  BY DEF NoneTried, TryRecords

\* What a job's history becomes when an attempt begins: all of it is ahead.
LEMMA TryBegins ==
  ASSUME TriesTypes, NEW e \in Events, Current(e) \in 1..Attempts, ProcessEventJob(e)
  PROVE  \E us \in TryRecords :
           /\ untried' = [untried EXCEPT ![e] = us]
           /\ us[Current(e)] = Rounds \X Usable
           /\ \A b \in 1..Attempts \ {Current(e)} : us[b] = untried[e][b]
<1> DEFINE a  == Current(e)
           u  == Rounds \X Usable
           us == [untried[e] EXCEPT ![a] = u]
<1>1. untried[e] \in TryRecords
  BY DEF TriesTypes
<1>2. u \in SUBSET (Rounds \X Providers)
  <2>1. Usable \subseteq Providers
    BY DEF Usable, HealthyProviders
  <2> QED
    BY <2>1
<1>3. untried' = [untried EXCEPT ![e] = us]
  BY <1>1 DEF ProcessEventJob, TriesTypes
<1> HIDE DEF a, u
<1>4. us \in TryRecords /\ us[a] = u /\ \A b \in 1..Attempts \ {a} : us[b] = untried[e][b]
  BY <1>1, <1>2 DEF TryRecords, a
<1> QED
  BY <1>3, <1>4 DEF a, u

\* ... and when a try fails: its round and node are no longer ahead.
LEMMA TryFails ==
  ASSUME TriesTypes, NEW e \in Events, Current(e) \in 1..Attempts, TriesAgain(e)
  PROVE  \E us \in TryRecords :
           /\ untried' = [untried EXCEPT ![e] = us]
           /\ us[Current(e)] = untried[e][Current(e)] \ {<<call[e].attempt, call[e].provider>>}
           /\ \A b \in 1..Attempts \ {Current(e)} : us[b] = untried[e][b]
<1> DEFINE a  == Current(e)
           u  == untried[e][a] \ {<<call[e].attempt, call[e].provider>>}
           us == [untried[e] EXCEPT ![a] = u]
<1>1. untried[e] \in TryRecords /\ untried[e][a] \in SUBSET (Rounds \X Providers)
  BY DEF TriesTypes, TryRecords
<1>2. u \in SUBSET (Rounds \X Providers)
  BY <1>1
<1>3. untried' = [untried EXCEPT ![e] = us]
  BY <1>1 DEF TriesAgain, TriesTypes
<1> HIDE DEF a, u
<1>4. us \in TryRecords /\ us[a] = u /\ \A b \in 1..Attempts \ {a} : us[b] = untried[e][b]
  BY <1>1, <1>2 DEF TryRecords, a
<1> QED
  BY <1>3, <1>4 DEF a, u

\* The attempt a job is in is one of those it has, and a running call is on one
\* of the nodes.
LEMMA UnderWay ==
  ASSUME JobsInv, NEW e \in Events
  PROVE  /\ job[e].state \in {"waiting", "active", "delayed"} => Current(e) \in 1..Attempts
         /\ call[e].pc # "idle" => /\ job[e].state = "active"
                                  /\ call[e].attempt \in 1..MaxRetries /\ call[e].provider \in Providers
<1>1. Linked(job[e], call[e], step[e])
  BY DEF JobsInv
<1>2. job[e].attemptsMade \in 0..Attempts
  BY <1>1 DEF Linked, JobRecord
<1> QED
  BY <1>1, <1>2, PoolAssumption, QueueAssumption DEF Linked, CallOK, CallRecord, Current

LEMMA StepsKeepTriesTypes ==
  ASSUME JobsInv, TriesTypes, [Next]_vars
  PROVE  TriesTypes'
<1>1. ASSUME NEW e \in Events, NEW us \in TryRecords, untried' = [untried EXCEPT ![e] = us]
      PROVE  TriesTypes'
  BY <1>1 DEF TriesTypes
<1>2. CASE UNCHANGED untried
  BY <1>2 DEF TriesTypes
<1>3. ASSUME NEW e \in Events, ProcessEventJob(e) PROVE TriesTypes'
  <2>1. Current(e) \in 1..Attempts
    BY <1>3, UnderWay DEF ProcessEventJob, Is
  <2> QED
    BY <1>1, <1>3, <2>1, TryBegins
<1>4. ASSUME NEW e \in Events, TriesAgain(e) PROVE TriesTypes'
  <2>1. call[e].pc = "running"
    BY <1>4 DEF TriesAgain, CallFails
  <2> QED
    BY <1>1, <1>4, <2>1, UnderWay, TryFails
<1>5. ASSUME NEW e \in Events, Completes(e) PROVE TriesTypes'
  BY <1>1, <1>5, NoTriesYet DEF Completes
<1>6. \/ UNCHANGED untried
      \/ \E e \in Events : ProcessEventJob(e) \/ TriesAgain(e) \/ Completes(e)
  BY DEF Next, Pool, RetryFailedEvents, Crash, EnqueueEvent, RemoveOnComplete, Worker, BackoffEnds,
     AttemptFails, Invocation, HandlerChecks, HandlerWrites, HandlerMarks, HandlerThrows, HandlerTimesOut,
     AbandonedGoesOn, MoveToDeadLetters, CreateFailedEvent, vars, queueVars, history
<1> QED
  BY <1>2, <1>3, <1>4, <1>5, <1>6

LEMMA InitTypes == Init => TypeInv
<1> SUFFICES ASSUME Init PROVE TypeInv
  OBVIOUS
<1>1. HealthInv
  BY HealthAtStart DEF Init, PoolInit
<1>2. JobsInv
  <2>1. Linked(NoJob, NoCall, "none")
    BY PoolAssumption, QueueAssumption DEF Linked, NoJob, JobRecord, CallOK, CallRecord, NoCall
  <2>2. NoJob \in JobRecord /\ NoCall \in CallRecord
    BY <2>1 DEF Linked, CallOK
  <2> QED
    BY <2>1, <2>2 DEF Init, PoolInit, JobsInv, Events
<1>3. AbandonedInv
  BY QueueAssumption DEF Init, AbandonedInv, Abandoned, None, Steps
<1>4. OtherTypes
  BY PoolAssumption, QueueAssumption DEF Init, PoolInit, OtherTypes
<1>5. TriesTypes
  BY NoTriesYet DEF Init, TriesTypes
<1> QED
  BY <1>1, <1>2, <1>3, <1>4, <1>5 DEF TypeInv

LEMMA StepTypes == TypeInv /\ [Next]_vars => TypeInv'
  BY StepsKeepJobs, StepsKeepAbandoned, StepsKeepOthers, StepsKeepTriesTypes DEF TypeInv

LEMMA TypesHold == Spec => []TypeInv
  BY InitTypes, StepTypes, PTL DEF Spec

\* The variables of the queue and of the pool have their types: attempts, rounds
\* and abandoned invocations stay within their limits, and a call untried nodes
\* of the pool only (EventQueueService, ProviderService).
THEOREM TypeCorrectness == Spec => []TypeOK
<1>1. TypeInv => TypeOK
  <2> SUFFICES ASSUME TypeInv PROVE TypeOK
    OBVIOUS
  <2>1. PoolTypeOK
    BY DEF TypeInv, HealthInv, JobsInv, OtherTypes, PoolTypeOK, CallRecord, Events
  <2>2. abandoned \in [Events -> [Steps -> 0..MaxTimeouts]]
    <3>1. \A e \in Events : \A t \in Steps : abandoned[e][t] \in 0..MaxTimeouts
      BY QueueAssumption DEF TypeInv, AbandonedInv, Abandoned, Steps
    <3> QED
      BY <3>1 DEF TypeInv, AbandonedInv
  <2> QED
    BY <2>1, <2>2 DEF TypeInv, JobsInv, JobRecord, AbandonedInv, OtherTypes, TriesTypes, TryRecords, TypeOK
<1> QED
  BY <1>1, TypesHold, PTL

\* Whoever sets the flag and the counter of a node, they agree in the end.
THEOREM HealthAgrees == Spec => []HealthMatchesFailures
<1>1. TypeInv => HealthMatchesFailures
  BY DEF TypeInv, HealthInv
<1> QED
  BY <1>1, TypesHold, PTL

-----------------------------------------------------------------------------
(***************************************************************************)
(* Repeated writes                                                         *)
(***************************************************************************)

LEMMA WritesAreNat ==
  ASSUME TypeInv, NEW e \in Events
  PROVE  /\ abandoned[e]["check"] \in Nat /\ abandoned[e]["write"] \in Nat /\ abandoned[e]["mark"] \in Nat
         /\ written[e] \in Nat /\ interrupted[e] \in Nat
         /\ Unwritten(e) \in Nat /\ Writes(e) \in Nat
<1>1. /\ abandoned[e]["check"] \in Nat /\ abandoned[e]["write"] \in Nat /\ abandoned[e]["mark"] \in Nat
      /\ written[e] \in Nat /\ interrupted[e] \in Nat
  BY DEF TypeInv, AbandonedInv, OtherTypes, Steps
<1> QED
  BY <1>1 DEF Writes, Unwritten

\* A step that touches the writes of one event only is judged by that event.
LEMMA OneEventWrites ==
  ASSUME WritesInv, NEW e \in Events,
         \A f \in Events \ {e} : /\ abandoned'[f] = abandoned[f] /\ written'[f] = written[f]
                                 /\ interrupted'[f] = interrupted[f] /\ step'[f] = step[f]
                                 /\ f \in marked' <=> f \in marked,
         Within(Writes(e)', interrupted'[e], e \in marked', step'[e])
  PROVE  WritesInv'
<1>1. ASSUME NEW f \in Events PROVE Within(Writes(f)', interrupted'[f], f \in marked', step'[f])
  <2>1. CASE f = e
    BY <2>1
  <2>2. CASE f # e
    <3>1. Writes(f)' = Writes(f)
      BY <2>2 DEF Writes, Unwritten
    <3>2. Within(Writes(f), interrupted[f], f \in marked, step[f])
      BY DEF WritesInv
    <3> QED
      BY <2>2, <3>1, <3>2 DEF Within
  <2> QED
    BY <2>1, <2>2
<1> QED
  BY <1>1 DEF WritesInv

\* An invocation given up is over, or is counted as interrupted and runs on.
LEMMA GivenUpWrites ==
  ASSUME TypeInv, WritesInv, NEW e \in Events, call[e].pc = "running", TriesAgain(e), UNCHANGED store,
         \/ /\ UNCHANGED abandoned
            /\ IF step[e] = "mark" THEN Interrupt(e) ELSE UNCHANGED interrupted
         \/ /\ abandoned' = [abandoned EXCEPT ![e][step[e]] = @ + 1]
            /\ Interrupt(e)
  PROVE  WritesInv'
<1>1. step[e] \in Steps /\ step \in [Events -> Steps \cup {"none"}]
  BY DEF TypeInv, JobsInv, Linked
<1>2. step' = [step EXCEPT ![e] = IF GivesUp(e) THEN "none" ELSE "check"]
  BY DEF TriesAgain
<1>3. step'[e] \in {"none", "check"} /\ \A f \in Events \ {e} : step'[f] = step[f]
  BY <1>1, <1>2
<1>4. interrupted \in [Events -> Nat]
  BY DEF TypeInv, OtherTypes
<1>5. Within(Writes(e), interrupted[e], e \in marked, step[e])
  BY DEF WritesInv
<1>6. CASE UNCHANGED abandoned
  <2>1. Writes(e)' = Writes(e)
    BY <1>6 DEF Writes, Unwritten, store
  <2>2. interrupted'[e] >= interrupted[e] /\ interrupted'[e] \in Nat
        /\ \A f \in Events \ {e} : interrupted'[f] = interrupted[f]
    BY <1>4 DEF Interrupt
  <2>3. step[e] = "mark" => interrupted'[e] = interrupted[e] + 1
    BY <1>4, <1>6 DEF Interrupt, TypeInv, AbandonedInv
  <2>4. Within(Writes(e)', interrupted'[e], e \in marked', step'[e])
    BY <1>1, <1>3, <1>5, <2>1, <2>2, <2>3, WritesAreNat DEF Within, store, Steps
  <2> QED
    BY <1>3, <1>6, <2>2, <2>4, OneEventWrites DEF store
<1>7. CASE abandoned' = [abandoned EXCEPT ![e][step[e]] = @ + 1] /\ Interrupt(e)
  <2>1. interrupted'[e] = interrupted[e] + 1 /\ \A f \in Events \ {e} : interrupted'[f] = interrupted[f]
    BY <1>4, <1>7 DEF Interrupt
  <2>2. /\ \A f \in Events \ {e} : abandoned'[f] = abandoned[f]
        /\ \A t \in Steps : abandoned'[e][t] = abandoned[e][t] + (IF t = step[e] THEN 1 ELSE 0)
    BY <1>1, <1>7, OneMoreAbandoned DEF TypeInv
  <2>3. Writes(e)' = Writes(e) + (IF step[e] = "mark" THEN 0 ELSE 1)
    BY <1>1, <2>2, WritesAreNat DEF Writes, Unwritten, store, Steps
  <2>4. Within(Writes(e)', interrupted'[e], e \in marked', step'[e])
    BY <1>1, <1>3, <1>5, <2>1, <2>3, WritesAreNat DEF Within, store, Steps
  <2> QED
    BY <1>3, <2>1, <2>2, <2>4, OneEventWrites DEF store
<1> QED
  BY <1>6, <1>7

LEMMA StepsKeepWrites ==
  ASSUME TypeInv, WritesInv, [Next]_vars
  PROVE  WritesInv'
<1> USE DEF Within
<1>1. /\ step \in [Events -> Steps \cup {"none"}] /\ written \in [Events -> Nat]
      /\ interrupted \in [Events -> Nat] /\ marked \subseteq Events
  BY DEF TypeInv, JobsInv, OtherTypes
<1>2. CASE UNCHANGED <<step, abandoned, store, interrupted>>
  BY <1>2 DEF WritesInv, Writes, Unwritten, store
<1>3. ASSUME NEW e \in Events, ProcessEventJob(e)
      PROVE  WritesInv'
  <2>1. step[e] = "none"
    BY <1>3 DEF ProcessEventJob, Is, TypeInv, JobsInv, Linked
  <2>2. step' = [step EXCEPT ![e] = "check"] /\ UNCHANGED <<abandoned, written, marked, interrupted>>
    BY <1>3 DEF ProcessEventJob, store, history
  <2>3. Within(Writes(e)', interrupted'[e], e \in marked', step'[e])
    BY <1>1, <2>1, <2>2, WritesAreNat DEF WritesInv, Writes, Unwritten
  <2> QED
    BY <1>1, <2>2, <2>3, OneEventWrites
<1>4. ASSUME NEW e \in Events, HandlerChecks(e)
      PROVE  WritesInv'
  <2>1. step[e] = "check" /\ UNCHANGED <<abandoned, written, marked, interrupted>>
    BY <1>4 DEF HandlerChecks, Running, store, history
  <2>2. step' = [step EXCEPT ![e] = IF e \in marked THEN "none" ELSE "write"]
    BY <1>4 DEF HandlerChecks, IsProcessed, Completes
  <2>3. step'[e] = (IF e \in marked THEN "none" ELSE "write") /\ \A f \in Events \ {e} : step'[f] = step[f]
    BY <1>1, <2>2
  <2>4. Writes(e)' = Writes(e)
    BY <2>1 DEF Writes, Unwritten
  <2>5. Within(Writes(e)', interrupted'[e], e \in marked', step'[e])
    BY <1>1, <2>1, <2>3, <2>4, WritesAreNat DEF WritesInv
  <2> QED
    BY <2>1, <2>3, <2>5, OneEventWrites
<1>5. ASSUME NEW e \in Events, HandlerWrites(e)
      PROVE  WritesInv'
  <2>1. step[e] = "write" /\ UNCHANGED <<abandoned, marked, interrupted>>
    BY <1>5 DEF HandlerWrites, Running, history
  <2>2. step' = [step EXCEPT ![e] = "mark"] /\ written' = [written EXCEPT ![e] = @ + 1]
    BY <1>5 DEF HandlerWrites
  <2>3. /\ step'[e] = "mark" /\ written'[e] = written[e] + 1
        /\ \A f \in Events \ {e} : step'[f] = step[f] /\ written'[f] = written[f]
    BY <1>1, <2>2
  <2>4. Writes(e)' = Writes(e) + 1
    BY <2>1, <2>3, WritesAreNat DEF Writes, Unwritten
  <2>5. Within(Writes(e)', interrupted'[e], e \in marked', step'[e])
    BY <1>1, <2>1, <2>3, <2>4, WritesAreNat DEF WritesInv
  <2> QED
    BY <2>1, <2>3, <2>5, OneEventWrites
<1>6. ASSUME NEW e \in Events, HandlerMarks(e)
      PROVE  WritesInv'
  <2>1. step[e] = "mark" /\ UNCHANGED <<abandoned, written, interrupted>> /\ marked' = marked \cup {e}
    BY <1>6 DEF HandlerMarks, Running, history
  <2>2. step' = [step EXCEPT ![e] = "none"]
    BY <1>6 DEF HandlerMarks, Completes
  <2>3. step'[e] = "none" /\ \A f \in Events \ {e} : step'[f] = step[f]
    BY <1>1, <2>2
  <2>4. Within(Writes(e)', interrupted'[e], e \in marked', step'[e])
    BY <1>1, <2>1, <2>3, WritesAreNat DEF WritesInv, Writes, Unwritten
  <2> QED
    BY <2>1, <2>3, <2>4, OneEventWrites
<1>7. ASSUME NEW e \in Events, HandlerThrows(e)
      PROVE  WritesInv'
  BY <1>7, GivenUpWrites DEF HandlerThrows
<1>8. ASSUME NEW e \in Events, HandlerTimesOut(e)
      PROVE  WritesInv'
  BY <1>8, GivenUpWrites DEF HandlerTimesOut
<1>9. ASSUME NEW e \in Events, AbandonedGoesOn(e)
      PROVE  WritesInv'
  <2>1. UNCHANGED <<step, interrupted>>
    BY <1>9 DEF AbandonedGoesOn, history
  <2>2. /\ \A f \in Events \ {e} : abandoned'[f] = abandoned[f]
        /\ abandoned' \in [Events -> [Steps -> Nat]]
        /\ marked' \in {marked, marked \cup {e}}
        /\ \/ written' = written /\ Unwritten(e)' <= Unwritten(e)
           \/ written' = [written EXCEPT ![e] = @ + 1] /\ Unwritten(e)' = Unwritten(e) - 1
    BY <1>9, AbandonedMoves DEF TypeInv
  <2>3. \A f \in Events \ {e} : written'[f] = written[f]
    BY <1>1, <2>2
  <2>4. Unwritten(e)' \in Nat
    BY <2>2 DEF Unwritten, Steps
  <2>5. Writes(e)' <= Writes(e) /\ Writes(e)' \in Nat
    BY <1>1, <2>2, <2>4, WritesAreNat DEF Writes
  <2>6. Within(Writes(e)', interrupted'[e], e \in marked', step'[e])
    BY <1>1, <2>1, <2>2, <2>5, WritesAreNat DEF WritesInv
  <2> QED
    BY <2>1, <2>2, <2>3, <2>6, OneEventWrites
<1>10. CASE Crash
  <2>1. SUFFICES ASSUME NEW e \in Events
                 PROVE  Within(Writes(e)', interrupted'[e], e \in marked', step'[e])
    BY DEF WritesInv
  <2>2. Writes(e)' = written[e] /\ written[e] <= Writes(e)
    BY <1>10, WritesAreNat DEF Crash, Writes, Unwritten, None, Steps, store
  <2>3. step'[e] = "none" /\ interrupted'[e] = interrupted[e] + (IF Running(e, "mark") THEN 1 ELSE 0)
        /\ marked' = marked
    BY <1>10 DEF Crash, store
  <2>4. step[e] = "mark" => Running(e, "mark")
    BY DEF TypeInv, JobsInv, Linked, Running
  <2> QED
    BY <1>1, <2>2, <2>3, <2>4, WritesAreNat DEF WritesInv
<1>11. CASE Next /\ ~Crash /\ ~(\E e \in Events : ProcessEventJob(e) \/ Invocation(e) \/ HandlerTimesOut(e)
                                               \/ AbandonedGoesOn(e))
  <2>1. UNCHANGED <<step, abandoned, store, interrupted>>
    BY <1>11 DEF Next, Pool, RetryFailedEvents, EnqueueEvent, RemoveOnComplete, Worker, BackoffEnds,
       AttemptFails, MoveToDeadLetters, CreateFailedEvent, queueVars, history
  <2> QED
    BY <1>2, <2>1
<1> QED
  BY <1>2, <1>3, <1>4, <1>5, <1>6, <1>7, <1>8, <1>9, <1>10, <1>11 DEF vars, queueVars, history, Invocation

\* Nodes may answer late, jobs may stall and be enqueued again: the writes of an
\* event are made once more only for an invocation that was timed out, thrown out of
\* or killed before it set the marker (processEventJob, executeWithFallback).
THEOREM WritesAreNotRepeated == Spec => []WritesRepeatOnlyAfterInterruption
<1>1. Init => WritesInv
  <2> SUFFICES ASSUME Init, NEW e \in Events PROVE Within(Writes(e), interrupted[e], e \in marked, step[e])
    BY DEF WritesInv
  <2>1. Writes(e) = 0
    BY DEF Init, Writes, Unwritten, None, Steps
  <2> QED
    BY <2>1 DEF Init, Within
<1>2. ASSUME TypeInv, WritesInv, [Next]_vars PROVE WritesInv'
  BY <1>2, StepsKeepWrites
<1>3. TypeInv /\ WritesInv => WritesRepeatOnlyAfterInterruption
  <2> SUFFICES ASSUME TypeInv, WritesInv, NEW e \in Events
               PROVE  written[e] <= 1 + interrupted[e]
    BY DEF WritesRepeatOnlyAfterInterruption
  <2>1. Within(Writes(e), interrupted[e], e \in marked, step[e])
    BY DEF WritesInv
  <2>2. Writes(e) <= interrupted[e] + 1
    BY <2>1, WritesAreNat DEF Within
  <2>3. Writes(e) = written[e] + Unwritten(e)
    BY DEF Writes
  <2> QED
    BY <2>2, <2>3, WritesAreNat
<1> QED
  BY <1>1, <1>2, <1>3, TypesHold, PTL DEF Spec

-----------------------------------------------------------------------------
(***************************************************************************)
(* Jobs that complete, and jobs given up                                   *)
(***************************************************************************)

LEMMA StepsKeepCompleted ==
  ASSUME TypeInv, CompletedJobsAreHandled, [Next]_vars
  PROVE  CompletedJobsAreHandled'
<1>1. job \in [Events -> JobRecord]
  BY DEF TypeInv, JobsInv
<1>2. \A e \in Events : Is(e, "completed") => e \in marked
  BY DEF CompletedJobsAreHandled
<1>3. ASSUME NEW e \in Events, HandlerChecks(e) \/ HandlerMarks(e)
      PROVE  CompletedJobsAreHandled'
  <2>1. marked \subseteq marked'
    BY <1>3 DEF HandlerChecks, HandlerMarks, store
  <2>2. job' = job \/ (job' = [job EXCEPT ![e].state = "completed"] /\ e \in marked')
    BY <1>3 DEF HandlerChecks, HandlerMarks, Completes, SetState, IsProcessed, store
  <2> QED
    BY <1>1, <1>2, <2>1, <2>2 DEF CompletedJobsAreHandled, Is, JobRecord
<1>4. CASE UNCHANGED <<job, marked>>
  BY <1>2, <1>4 DEF CompletedJobsAreHandled, Is
<1>5. ASSUME NEW e \in Events, HandlerWrites(e) \/ HandlerThrows(e) \/ HandlerTimesOut(e) \/ AbandonedGoesOn(e)
      PROVE  CompletedJobsAreHandled'
  <2>1. marked \subseteq marked' /\ job' = job
    BY <1>5 DEF HandlerWrites, HandlerThrows, HandlerTimesOut, AbandonedGoesOn, TriesAgain, store
  <2> QED
    BY <1>2, <2>1 DEF CompletedJobsAreHandled, Is
<1>6. ASSUME NEW e \in Events,
             EnqueueEvent(e) \/ RemoveOnComplete(e) \/ ProcessEventJob(e) \/ BackoffEnds(e) \/ AttemptFails(e)
      PROVE  CompletedJobsAreHandled'
  <2>1. marked' = marked
    BY <1>6 DEF EnqueueEvent, RemoveOnComplete, ProcessEventJob, BackoffEnds, AttemptFails, store
  <2>2. job'[e].state # "completed" /\ \A f \in Events \ {e} : job'[f] = job[f]
    <3>1. CASE EnqueueEvent(e) \/ ProcessEventJob(e) \/ BackoffEnds(e)
      BY <1>1, <3>1 DEF EnqueueEvent, ProcessEventJob, BackoffEnds, SetState, JobRecord
    <3>2. CASE RemoveOnComplete(e)
      BY <1>1, <3>2 DEF RemoveOnComplete, NoJob
    <3>3. CASE AttemptFails(e)
      BY <1>1, <3>3 DEF AttemptFails
    <3> QED
      BY <1>6, <3>1, <3>2, <3>3
  <2> QED
    BY <1>2, <2>1, <2>2 DEF CompletedJobsAreHandled, Is
<1>7. CASE Crash
  <2>1. marked' = marked
    BY <1>7 DEF Crash, store
  <2>2. \A e \in Events : job'[e].state = "completed" => job[e].state = "completed"
    BY <1>1, <1>7 DEF Crash, Is, JobRecord
  <2> QED
    BY <1>2, <2>1, <2>2 DEF CompletedJobsAreHandled, Is
<1>8. CASE \/ Pool \/ RetryFailedEvents \/ \E e \in Events : MoveToDeadLetters(e) \/ CreateFailedEvent(e)
  <2>1. UNCHANGED <<job, marked>>
    BY <1>8 DEF Pool, RetryFailedEvents, MoveToDeadLetters, CreateFailedEvent, queueVars, store
  <2> QED
    BY <1>4, <2>1
<1> QED
  BY <1>3, <1>4, <1>5, <1>6, <1>7, <1>8 DEF Next, Worker, Invocation, vars, queueVars, store

\* A job is completed by an invocation that found or set the marker, markers
\* stay, and no other job step leads to "completed": whichever of an event's
\* invocations the pool listens to (Completes, executeWithFallback).
THEOREM CompletionsAreBacked == Spec => []CompletedJobsAreHandled
<1>1. Init => CompletedJobsAreHandled
  BY DEF Init, CompletedJobsAreHandled, Is, NoJob
<1>2. ASSUME TypeInv, CompletedJobsAreHandled, [Next]_vars PROVE CompletedJobsAreHandled'
  BY <1>2, StepsKeepCompleted
<1> QED
  BY <1>1, <1>2, TypesHold, PTL DEF Spec

\* A step that moves one job, one call and one history.
LEMMA OneHistoryMoves ==
  ASSUME JobsInv, TriesTypes, TriesInv, NEW e \in Events, NEW j, NEW c, NEW us, Accounted(j, c, us),
         job' = [job EXCEPT ![e] = j], call' = [call EXCEPT ![e] = c],
         untried' = [untried EXCEPT ![e] = us]
  PROVE  TriesInv'
<1>1. \A f \in Events : Accounted(job'[f], call'[f], untried'[f])
  BY DEF JobsInv, TriesTypes, TriesInv, Events
<1> QED
  BY <1>1 DEF TriesInv, Accounted, TriedSoFar, Ahead, Rounds, Providers

LEMMA NoHistoryMoves ==
  ASSUME TriesInv, UNCHANGED <<job, call, untried>>
  PROVE  TriesInv'
  BY DEF TriesInv, Accounted, TriedSoFar, Ahead, Rounds, Providers

\* A call that has given up was on every node in every round.
LEMMA ExhaustedCall ==
  ASSUME NEW c, NEW u \in SUBSET (Rounds \X Providers), TriedSoFar(c, u), c.pc = "exhausted"
  PROVE  u = {}
  BY DEF TriedSoFar, Ahead

LEMMA StepsKeepTries ==
  ASSUME TypeInv, TriesInv, [Next]_vars
  PROVE  TriesInv'
<1>1. JobsInv /\ TriesTypes
  BY DEF TypeInv
<1>2. ASSUME NEW e \in Events
      PROVE  /\ Linked(job[e], call[e], step[e]) /\ Accounted(job[e], call[e], untried[e])
             /\ job[e].attemptsMade \in 0..Attempts /\ CallOK(call[e])
             /\ job' = job => job' = [job EXCEPT ![e] = job[e]]
             /\ call' = call => call' = [call EXCEPT ![e] = call[e]]
             /\ untried' = untried => untried' = [untried EXCEPT ![e] = untried[e]]
  BY <1>1 DEF JobsInv, TriesTypes, TriesInv, Events, Linked, JobRecord
<1>3. CASE UNCHANGED <<job, call, untried>>
  BY <1>3, NoHistoryMoves
<1>4. ASSUME NEW e \in Events, EnqueueEvent(e) \/ BackoffEnds(e)
      PROVE  TriesInv'
  <2>1. /\ job[e].state \in {"none", "delayed"} /\ SetState(e, "waiting")
        /\ call' = call /\ untried' = untried
    BY <1>4 DEF EnqueueEvent, BackoffEnds, Is, poolVars, history
  <2>2. PICK j : job' = [job EXCEPT ![e] = j] /\ j.attemptsMade = job[e].attemptsMade
    BY <1>1, <2>1, StateSet
  <2>3. Accounted(j, call[e], untried[e])
    BY <1>2, <2>1, <2>2 DEF Accounted
  <2>4. call' = [call EXCEPT ![e] = call[e]] /\ untried' = [untried EXCEPT ![e] = untried[e]]
    BY <1>2, <2>1
  <2> QED
    BY <1>1, <2>2, <2>3, <2>4, OneHistoryMoves
<1>5. ASSUME NEW e \in Events, RemoveOnComplete(e)
      PROVE  TriesInv'
  <2>1. /\ call' = call /\ untried' = untried /\ job' = [job EXCEPT ![e] = NoJob]
        /\ job[e].state = "completed"
    BY <1>5 DEF RemoveOnComplete, poolVars, history, Is
  <2>2. call[e].pc = "idle" /\ NoJob.attemptsMade = 0
    BY <1>2, <2>1 DEF Linked, NoJob
  <2>3. Accounted(NoJob, call[e], untried[e])
    BY <2>2 DEF Accounted
  <2>4. PICK j, c, us : j = NoJob /\ c = call[e] /\ us = untried[e]
    OBVIOUS
  <2>5. job' = [job EXCEPT ![e] = j] /\ call' = [call EXCEPT ![e] = c] /\ untried' = [untried EXCEPT ![e] = us]
    BY <1>2, <2>1, <2>4
  <2>6. Accounted(j, c, us)
    BY <2>3, <2>4
  <2> QED
    BY <1>1, <2>5, <2>6, OneHistoryMoves
<1>6. ASSUME NEW e \in Events, ProcessEventJob(e)
      PROVE  TriesInv'
  <2> DEFINE a == job[e].attemptsMade + 1
  <2>1. job[e].state = "waiting" /\ SetState(e, "active") /\ StartCall(e)
    BY <1>6 DEF ProcessEventJob, Is
  <2>2. a \in 1..Attempts /\ a = Current(e)
    BY <1>1, <2>1, UnderWay DEF Current
  <2>3. PICK j : job' = [job EXCEPT ![e] = j] /\ j.attemptsMade = job[e].attemptsMade
    BY <1>1, <2>1, StateSet
  <2>4. PICK c : /\ CallOK(c) /\ c.pc = "running" /\ c.attempt = 1 /\ call' = [call EXCEPT ![e] = c]
                 /\ c.toTry = ProvidersToTry /\ \A p \in c.toTry : c.provider <= p
    BY <2>1, CallStarts DEF Events
  <2>5. PICK us \in TryRecords : /\ untried' = [untried EXCEPT ![e] = us] /\ us[a] = Rounds \X Usable
                                 /\ \A b \in 1..Attempts \ {a} : us[b] = untried[e][b]
    BY <1>1, <1>6, <2>2, TryBegins
  <2>6. TriedSoFar(c, us[a])
    <3>1. c.toTry = Usable
      BY <2>4 DEF Usable, ProvidersToTry
    <3> QED
      BY <2>4, <2>5, <3>1 DEF TriedSoFar, Ahead, Rounds, CallOK, CallRecord, Providers
  <2>7. \A b \in 1..Attempts : b <= job[e].attemptsMade => us[b] = {}
    <3>1. \A b \in 1..Attempts : b <= job[e].attemptsMade => b # a /\ untried[e][b] = {}
      BY <1>2, <2>1 DEF Accounted
    <3> QED
      BY <2>5, <3>1
  <2>8. Accounted(j, c, us)
    BY <2>3, <2>6, <2>7 DEF Accounted
  <2> QED
    BY <1>1, <2>3, <2>4, <2>5, <2>8, OneHistoryMoves
<1>7. ASSUME NEW e \in Events, AttemptFails(e)
      PROVE  TriesInv'
  <2> DEFINE a == job[e].attemptsMade + 1
             j == [state |-> IF NoAttemptLeft(a) THEN "failed" ELSE "delayed", attemptsMade |-> a]
  <2>1. /\ job' = [job EXCEPT ![e] = j] /\ call' = [call EXCEPT ![e] = NoCall] /\ untried' = untried
        /\ call[e].pc = "exhausted"
    BY <1>7 DEF AttemptFails, history, Current
  <2>2. job[e].state = "active" /\ a \in 1..Attempts
    BY <1>1, <2>1, UnderWay DEF Current
  <2>3. untried[e][a] \in SUBSET (Rounds \X Providers) /\ TriedSoFar(call[e], untried[e][a])
    <3>1. untried[e][a] \in SUBSET (Rounds \X Providers)
      BY <1>1, <2>2 DEF TriesTypes, TryRecords
    <3>2. Accounted(job[e], call[e], untried[e])
      BY <1>2
    <3> QED
      BY <2>1, <3>1, <3>2 DEF Accounted
  <2>4. untried[e][a] = {}
    BY <2>1, <2>3, ExhaustedCall
  <2>5. \A b \in 1..Attempts : b <= a => untried[e][b] = {}
    <3>1. \A b \in 1..Attempts : b <= a => b = a \/ b <= job[e].attemptsMade
      BY <1>2
    <3> QED
      BY <1>2, <2>2, <2>4, <3>1 DEF Accounted
  <2>6. Accounted(j, NoCall, untried[e])
    BY <2>5 DEF Accounted, NoCall
  <2>7. untried' = [untried EXCEPT ![e] = untried[e]]
    BY <1>2, <2>1
  <2> HIDE DEF j
  <2> QED
    BY <1>1, <2>1, <2>6, <2>7, OneHistoryMoves
<1>8. ASSUME NEW e \in Events, Completes(e)
      PROVE  TriesInv'
  <2>1. /\ SetState(e, "completed") /\ call' = [call EXCEPT ![e] = NoCall]
        /\ untried' = [untried EXCEPT ![e] = NoneTried]
    BY <1>8 DEF Completes, CallSucceeds
  <2>2. PICK j : job' = [job EXCEPT ![e] = j] /\ j.state = "completed"
    BY <1>1, <2>1, StateSet
  <2>3. Accounted(j, NoCall, NoneTried)
    BY <2>2 DEF Accounted, NoCall
  <2> QED
    BY <1>1, <2>1, <2>2, <2>3, OneHistoryMoves
<1>9. ASSUME NEW e \in Events, TriesAgain(e)
      PROVE  TriesInv'
  <2> DEFINE a == job[e].attemptsMade + 1
             c == NextTry(e)
             x == <<call[e].attempt, call[e].provider>>
  <2>1. call' = [call EXCEPT ![e] = c] /\ job' = job /\ call[e].pc = "running"
    BY <1>9 DEF TriesAgain, CallFails
  <2>2. /\ job[e].state = "active" /\ a \in 1..Attempts /\ a = Current(e)
        /\ call[e].attempt \in 1..MaxRetries /\ call[e].provider \in Providers
    BY <1>1, <2>1, UnderWay DEF Current
  <2>3. CallOK(call[e]) /\ CallOK(c) /\ c.toTry = call[e].toTry
    BY <1>2, <2>1, CallGoesOn DEF Events
  <2>4. PICK us \in TryRecords : /\ untried' = [untried EXCEPT ![e] = us]
                                 /\ us[a] = untried[e][a] \ {x}
                                 /\ \A b \in 1..Attempts \ {a} : us[b] = untried[e][b]
    BY <1>1, <1>9, <2>2, TryFails
  <2>5. TriedSoFar(call[e], untried[e][a])
    BY <1>2, <2>1 DEF Accounted
  <2>6. TriedSoFar(c, us[a])
    <3> SUFFICES ASSUME NEW r \in Rounds, NEW p \in Providers, <<r, p>> \in us[a]
                 PROVE  Ahead(c, r, p)
      BY DEF TriedSoFar
    <3>1. Ahead(call[e], r, p) /\ <<r, p>> # x
      BY <2>4, <2>5 DEF TriedSoFar
    <3>2. /\ p \in c.toTry /\ p \in Nat /\ call[e].provider \in Nat /\ r \in Nat /\ call[e].attempt \in Nat
          /\ r > call[e].attempt \/ (r = call[e].attempt /\ p > call[e].provider)
      BY <2>2, <2>3, <3>1, PoolAssumption DEF Ahead, Rounds, Providers
    <3>3. ~(r < call[e].attempt \/ (r = call[e].attempt /\ p <= call[e].provider))
      BY <3>2
    <3>4. ~(c.pc = "exhausted" \/ r < c.attempt \/ (r = c.attempt /\ p < c.provider))
      BY <2>1, <2>3, <3>2, <3>3, NextInLine DEF Events, Rounds
    <3>5. c.attempt \in Nat /\ c.provider \in Nat
      BY <2>3, PoolAssumption DEF CallOK, CallRecord, Providers
    <3> HIDE DEF c
    <3> QED
      BY <3>2, <3>4, <3>5 DEF Ahead
  <2>7. \A b \in 1..Attempts : b <= job[e].attemptsMade => us[b] = {}
    <3>1. \A b \in 1..Attempts : b <= job[e].attemptsMade => b # a /\ untried[e][b] = {}
      BY <1>2, <2>2 DEF Accounted
    <3> QED
      BY <2>4, <3>1
  <2>8. Accounted(job[e], c, us)
    BY <2>6, <2>7 DEF Accounted
  <2>9. job' = [job EXCEPT ![e] = job[e]]
    BY <1>2, <2>1
  <2> HIDE DEF c
  <2> QED
    BY <1>1, <2>1, <2>4, <2>8, <2>9, OneHistoryMoves
<1>10. CASE Crash
  <2>1. SUFFICES ASSUME NEW e \in Events PROVE Accounted(job'[e], call'[e], untried'[e])
    BY DEF TriesInv, Accounted, TriedSoFar, Ahead, Rounds, Providers
  <2>2. call'[e] = NoCall /\ untried'[e] = untried[e]
    BY <1>10 DEF Crash, PoolRestart, Events
  <2>3. /\ job'[e].attemptsMade = job[e].attemptsMade
        /\ job'[e].state # "completed" => job[e].state # "completed"
    BY <1>1, <1>10 DEF Crash, Is, JobsInv, JobRecord
  <2> QED
    BY <1>2, <2>2, <2>3 DEF Accounted, NoCall
<1>11. CASE Pool \/ RetryFailedEvents
            \/ \E e \in Events : \/ HandlerWrites(e) \/ AbandonedGoesOn(e)
                                 \/ MoveToDeadLetters(e) \/ CreateFailedEvent(e)
  <2>1. UNCHANGED <<job, call, untried>>
    BY <1>11 DEF Pool, PoolStep, HealthCheckSucceeds, HealthCheckFails, SetProviderHealth, RetryFailedEvents,
       HandlerWrites, AbandonedGoesOn, MoveToDeadLetters, CreateFailedEvent, queueVars, poolVars, history
  <2> QED
    BY <1>3, <2>1
<1>12. ASSUME NEW e \in Events, Invocation(e) \/ HandlerTimesOut(e)
       PROVE  TriesInv'
  <2>1. UNCHANGED <<job, call, untried>> \/ Completes(e) \/ TriesAgain(e)
    BY <1>12 DEF Invocation, HandlerChecks, HandlerWrites, HandlerMarks, HandlerThrows, HandlerTimesOut,
       poolVars, history
  <2> QED
    BY <1>3, <1>8, <1>9, <2>1
<1> QED
  BY <1>3, <1>4, <1>5, <1>6, <1>7, <1>10, <1>11, <1>12
     DEF Next, Worker, vars, queueVars, poolVars, history

\* A job is given up only when its handler has failed in every round of every
\* attempt on every node that was healthy when the attempt began, however the
\* nodes were judged in between, the calls timed out or a crash restarted them
\* (the worker's 'failed' listener, executeWithFallback).
THEOREM FailuresAreExhaustive == Spec => []GivenUpOnlyAfterAllTries
<1>1. ASSUME Init PROVE TriesInv
  <2>1. \A e \in Events : Accounted(NoJob, NoCall, NoneTried)
    BY DEF Accounted, NoJob, NoCall
  <2> QED
    BY <1>1, <2>1 DEF Init, PoolInit, TriesInv, Events
<1>2. ASSUME TypeInv, TriesInv, [Next]_vars PROVE TriesInv'
  BY <1>2, StepsKeepTries
<1>3. ASSUME TypeInv, TriesInv PROVE GivenUpOnlyAfterAllTries
  <2>1. ASSUME NEW e \in Events, Is(e, "failed"), NEW a \in 1..Attempts PROVE untried[e][a] = {}
    BY <1>3, <2>1, JobStates DEF TypeInv, Linked, Is, TriesInv, Accounted
  <2> QED
    BY <2>1 DEF GivenUpOnlyAfterAllTries
<1> QED
  BY <1>1, <1>2, <1>3, TypesHold, PTL DEF Spec

-----------------------------------------------------------------------------
(***************************************************************************)
(* Permanent failures                                                      *)
(***************************************************************************)

LEMMA StepsKeepRecords ==
  ASSUME TypeInv, RecordsInv, [Next]_vars
  PROVE  RecordsInv'
<1>1. /\ job \in [Events -> JobRecord] /\ \A e \in Events : Linked(job[e], call[e], step[e])
      /\ recording \in [Events -> {"idle", "deadLetter", "failedEvent"}]
      /\ failedEvents \in [Events -> {"none", "unresolved", "resolved"}]
  BY DEF TypeInv, JobsInv, OtherTypes
<1>2. ASSUME UNCHANGED record, \A e \in Events : job'[e].state = "failed" <=> job[e].state = "failed"
      PROVE  RecordsInv'
  BY <1>2 DEF RecordsInv, Is, record
<1>3. ASSUME NEW e \in Events, EnqueueEvent(e) \/ RemoveOnComplete(e) \/ ProcessEventJob(e) \/ BackoffEnds(e)
                               \/ HandlerChecks(e) \/ HandlerMarks(e)
      PROVE  RecordsInv'
  <2>1. UNCHANGED record
    BY <1>3 DEF EnqueueEvent, RemoveOnComplete, ProcessEventJob, BackoffEnds, HandlerChecks, HandlerMarks
  <2>2. \/ job' = job
        \/ \E s \in {"waiting", "active", "completed"} : job' = [job EXCEPT ![e].state = s]
        \/ job' = [job EXCEPT ![e] = NoJob]
    BY <1>3 DEF EnqueueEvent, RemoveOnComplete, ProcessEventJob, BackoffEnds, HandlerChecks, HandlerMarks,
       Completes, SetState
  <2>3. job[e].state # "failed" \/ job' = job
    <3>1. CASE HandlerChecks(e) \/ HandlerMarks(e)
      <4>1. job' = job \/ call[e].pc = "running"
        BY <3>1 DEF HandlerChecks, HandlerMarks, Running
      <4> QED
        BY <1>1, <4>1 DEF Linked
    <3>2. CASE ~(HandlerChecks(e) \/ HandlerMarks(e))
      BY <1>3, <3>2 DEF EnqueueEvent, RemoveOnComplete, ProcessEventJob, BackoffEnds, Is
    <3> QED
      BY <3>1, <3>2
  <2>4. \A f \in Events : job'[f].state = "failed" <=> job[f].state = "failed"
    BY <1>1, <2>2, <2>3 DEF JobRecord, NoJob
  <2> QED
    BY <1>2, <2>1, <2>4
<1>4. ASSUME NEW e \in Events, AttemptFails(e)
      PROVE  RecordsInv'
  <2> DEFINE made == job[e].attemptsMade + 1
  <2>1. job[e].state = "active"
    BY <1>1, <1>4 DEF AttemptFails, Linked
  <2>2. Recorded(FALSE, recording[e], e \in deadLetters, failedEvents[e], e \in unrecorded)
    BY <2>1 DEF RecordsInv, Is
  <2>3. /\ (job'[e].state = "failed" <=> NoAttemptLeft(made)) /\ \A f \in Events \ {e} : job'[f] = job[f]
        /\ UNCHANGED <<deadLetters, failedEvents, unrecorded>>
    BY <1>1, <1>4 DEF AttemptFails, Current
  <2>4. /\ recording'[e] = IF NoAttemptLeft(made) THEN "deadLetter" ELSE recording[e]
        /\ \A f \in Events \ {e} : recording'[f] = recording[f]
    BY <1>1, <1>4 DEF AttemptFails, Current, PermanentlyFailed, NoAttemptLeft
  <2> QED
    BY <2>2, <2>3, <2>4 DEF RecordsInv, Recorded, Is
<1>5. ASSUME NEW e \in Events, MoveToDeadLetters(e) \/ CreateFailedEvent(e)
      PROVE  RecordsInv'
  <2>1. job' = job
    BY <1>5 DEF MoveToDeadLetters, CreateFailedEvent
  <2>3. CASE RecordingFails(e)
    <3>1. recording[e] # "idle" /\ recording' = [recording EXCEPT ![e] = "idle"]
          /\ unrecorded' = unrecorded \cup {e} /\ UNCHANGED <<deadLetters, failedEvents>>
      BY <1>5, <2>3 DEF MoveToDeadLetters, CreateFailedEvent, RecordingFails
    <3>2. recording'[e] = "idle" /\ \A f \in Events \ {e} : recording'[f] = recording[f]
      BY <1>1, <3>1
    <3> QED
      BY <2>1, <3>1, <3>2 DEF RecordsInv, Recorded, Is
  <2>4. CASE MoveToDeadLetters(e) /\ ~RecordingFails(e)
    <3>1. /\ recording[e] = "deadLetter" /\ recording' = [recording EXCEPT ![e] = "failedEvent"]
          /\ deadLetters' = deadLetters \cup {e} /\ UNCHANGED <<failedEvents, unrecorded>>
      BY <2>4 DEF MoveToDeadLetters
    <3>2. recording'[e] = "failedEvent" /\ \A f \in Events \ {e} : recording'[f] = recording[f]
      BY <1>1, <3>1
    <3> QED
      BY <2>1, <3>1, <3>2 DEF RecordsInv, Recorded, Is
  <2>5. CASE CreateFailedEvent(e) /\ ~RecordingFails(e)
    <3>1. /\ recording[e] = "failedEvent" /\ recording' = [recording EXCEPT ![e] = "idle"]
          /\ failedEvents' = [failedEvents EXCEPT ![e] = "unresolved"] /\ UNCHANGED <<deadLetters, unrecorded>>
      BY <2>5 DEF CreateFailedEvent
    <3>2. recording'[e] = "idle" /\ \A f \in Events \ {e} : recording'[f] = recording[f]
      BY <1>1, <3>1
    <3>3. failedEvents'[e] = "unresolved" /\ \A f \in Events \ {e} : failedEvents'[f] = failedEvents[f]
      BY <1>1, <3>1
    <3> QED
      BY <2>1, <3>1, <3>2, <3>3 DEF RecordsInv, Recorded, Is
  <2> QED
    BY <1>5, <2>3, <2>4, <2>5
<1>6. CASE Crash
  <2>1. \A e \in Events : job'[e].state = "failed" <=> job[e].state = "failed"
    BY <1>1, <1>6 DEF Crash, Is, JobRecord
  <2>2. /\ recording' = [e \in Events |-> "idle"]
        /\ unrecorded' = unrecorded \cup {e \in Events : recording[e] # "idle"}
        /\ UNCHANGED <<deadLetters, failedEvents>>
    BY <1>6 DEF Crash
  <2> QED
    BY <2>1, <2>2 DEF RecordsInv, Recorded, Is
<1>7. CASE RetryFailedEvents
  <2>1. /\ UNCHANGED <<job, recording, deadLetters, unrecorded>>
        /\ \A e \in Events : failedEvents'[e] = failedEvents[e]
                            \/ (failedEvents[e] = "unresolved" /\ failedEvents'[e] = "resolved")
    BY <1>7 DEF RetryFailedEvents
  <2> QED
    BY <2>1 DEF RecordsInv, Recorded, Is
<1>8. CASE Pool \/ \E e \in Events : \/ HandlerWrites(e) \/ HandlerThrows(e) \/ HandlerTimesOut(e)
                                     \/ AbandonedGoesOn(e)
  <2>1. UNCHANGED <<job, record>>
    BY <1>8 DEF Pool, HandlerWrites, HandlerThrows, HandlerTimesOut, TriesAgain, AbandonedGoesOn, queueVars
  <2> QED
    BY <1>2, <2>1
<1>9. CASE UNCHANGED vars
  BY <1>2, <1>9 DEF vars, queueVars
<1> QED
  BY <1>3, <1>4, <1>5, <1>6, <1>7, <1>8, <1>9 DEF Next, Worker, Invocation

\* A job given up is kept as a dead letter and as a row of failed_events, or its
\* recording is under way or is known to have been cut short; and a row never
\* stands for a job that may still run (handlePermanentFailure,
\* retryFailedEvents).
THEOREM FailuresStayOnRecord == Spec => []FailuresAreKept
<1>1. ASSUME Init PROVE RecordsInv
  BY <1>1 DEF Init, RecordsInv, Recorded, Is, NoJob
<1>2. ASSUME TypeInv, RecordsInv, [Next]_vars PROVE RecordsInv'
  BY <1>2, StepsKeepRecords
<1>3. RecordsInv => FailuresAreKept
  BY DEF RecordsInv, Recorded, FailuresAreKept
<1> QED
  BY <1>1, <1>2, <1>3, TypesHold, PTL DEF Spec
=============================================================================
