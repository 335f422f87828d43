---------------------------- MODULE ProviderPool ----------------------------
(***************************************************************************)
(* The pool of RPC nodes (ProviderService): which nodes count as healthy,  *)
(* and executeWithFallback, which runs an operation on one node after the  *)
(* other until one of them answers.  What the operation does is left to    *)
(* the module that composes with this one: it calls StartCall, and         *)
(* CallSucceeds or CallFails when the operation has ended.                 *)
(***************************************************************************)
EXTENDS Integers, FiniteSets, FiniteSetsExt

CONSTANTS
  Callers,                 \* the operations that may be in progress
  NumProviders,
  MaxConsecutiveFailures,
  MaxRetries,              \* rounds over the nodes
  MaxVerdicts              \* bound: failed health checks and calls of setProviderHealth

ASSUME PoolAssumption ==
  /\ NumProviders \in Nat \ {0}
  /\ MaxConsecutiveFailures \in Nat \ {0}
  /\ MaxRetries \in Nat \ {0}
  /\ MaxVerdicts \in Nat

VARIABLES
  isHealthy,            \* the health flag of each node
  consecutiveFailures,  \* failures in a row, counted up to MaxConsecutiveFailures
  setAside,             \* history: nodes declared unhealthy by hand, not heard of since
  call,                 \* locals of executeWithFallback for each caller
  verdicts              \* how much of MaxVerdicts is used up

health   == <<isHealthy, consecutiveFailures, setAside>>
poolVars == <<health, call, verdicts>>

Providers == 1..NumProviders       \* in the order of priority
NoCall    == [pc |-> "idle", toTry |-> {}, attempt |-> 0, provider |-> 0]

-----------------------------------------------------------------------------
HealthyProviders == {p \in Providers : isHealthy[p]}

\* The list is made once; a node that fails in the first round is tried again
\* in the next although it may count as unhealthy by then.
ProvidersToTry == IF HealthyProviders # {} THEN HealthyProviders ELSE Providers

StartCall(c) ==
  /\ call[c].pc = "idle"
  /\ call' = [call EXCEPT ![c] = [pc |-> "running", toTry |-> ProvidersToTry,
                                  attempt |-> 1, provider |-> Min(ProvidersToTry)]]
  /\ UNCHANGED <<health, verdicts>>

\* A node that answered is healthy, whatever was said of it before.
AnsweredFlagOnly(p) ==
  /\ isHealthy' = [isHealthy EXCEPT ![p] = TRUE]
  /\ setAside' = setAside \ {p}
  /\ UNCHANGED consecutiveFailures
Answered(p) ==
  /\ isHealthy' = [isHealthy EXCEPT ![p] = TRUE]
  /\ consecutiveFailures' = [consecutiveFailures EXCEPT ![p] = 0]
  /\ setAside' = setAside \ {p}

\* One failure more; the code only asks whether the limit is reached.
OneMore(n) == IF n < MaxConsecutiveFailures THEN n + 1 ELSE n

TooMany(n) == n >= MaxConsecutiveFailures

Failed(p) ==
  LET failures == OneMore(consecutiveFailures[p]) IN
  /\ consecutiveFailures' = [consecutiveFailures EXCEPT ![p] = failures]
  /\ isHealthy' = [isHealthy EXCEPT ![p] = @ /\ ~TooMany(failures)]
  /\ UNCHANGED setAside

CallSucceeds(c) ==
  /\ call[c].pc = "running"
  /\ Answered(call[c].provider)
  /\ call' = [call EXCEPT ![c] = NoCall]
  /\ UNCHANGED verdicts

NoFailover(c) == {}
Later(c)      == {p \in call[c].toTry : p > call[c].provider}
OneRoundMore(c) == call[c].attempt > MaxRetries
LastRound(c)    == call[c].attempt >= MaxRetries

OneRoundOnly(c) == Later(c) = {}
GivesUp(c)      == Later(c) = {} /\ LastRound(c)

\* The next node of the list, the first one of the next round, or the error
\* "All providers failed".
SameRoundAgain(c) ==
  CASE Later(c) # {} -> [call[c] EXCEPT !.provider = Min(Later(c))]
    [] OTHER         -> [call[c] EXCEPT !.provider = Min(call[c].toTry)]

NextTry(c) ==
  CASE GivesUp(c)     -> [call[c] EXCEPT !.pc = "exhausted"]
    [] Later(c) # {}  -> [call[c] EXCEPT !.provider = Min(Later(c))]
    [] OTHER          -> [call[c] EXCEPT !.provider = Min(call[c].toTry), !.attempt = @ + 1]

\* An error and a timeout are the same to the pool, and so is an error that
\* was not the node's fault.
CallFails(c) ==
  /\ call[c].pc = "running"
  /\ Failed(call[c].provider)
  /\ call' = [call EXCEPT ![c] = NextTry(c)]
  /\ UNCHANGED verdicts

-----------------------------------------------------------------------------
\* performHealthChecks, every 30 seconds, for each node on its own.  (A node
\* that answers with block 0 changes nothing.)
HealthCheckSucceeds(p) ==
  /\ Answered(p)
  /\ UNCHANGED <<call, verdicts>>

HealthCheckFails(p) ==
  /\ verdicts < MaxVerdicts
  /\ verdicts' = verdicts + 1
  /\ Failed(p)
  /\ UNCHANGED call

\* setProviderHealth, by an administrator.
SetProviderHealth(p, healthy) ==
  /\ verdicts < MaxVerdicts
  /\ verdicts' = verdicts + 1
  /\ IF healthy THEN Answered(p)
     ELSE /\ isHealthy' = [isHealthy EXCEPT ![p] = FALSE]
          /\ setAside' = setAside \cup {p}
          /\ UNCHANGED consecutiveFailures
  /\ UNCHANGED call

PoolInit ==
  /\ isHealthy = [p \in Providers |-> TRUE]
  /\ consecutiveFailures = [p \in Providers |-> 0]
  /\ setAside = {}
  /\ call = [c \in Callers |-> NoCall]
  /\ verdicts = 0

\* The pool lives in memory.
PoolRestart ==
  /\ isHealthy' = [p \in Providers |-> TRUE]
  /\ consecutiveFailures' = [p \in Providers |-> 0]
  /\ setAside' = {}
  /\ call' = [c \in Callers |-> NoCall]
  /\ UNCHANGED verdicts

PoolStep ==
  \E p \in Providers :
    \/ HealthCheckSucceeds(p)
    \/ HealthCheckFails(p)
    \/ \E healthy \in BOOLEAN : SetProviderHealth(p, healthy)

-----------------------------------------------------------------------------
PoolTypeOK ==
  /\ isHealthy \in [Providers -> BOOLEAN]
  /\ consecutiveFailures \in [Providers -> 0..MaxConsecutiveFailures]
  /\ setAside \subseteq Providers
  /\ call \in [Callers -> [pc : {"idle", "running", "exhausted"}, toTry : SUBSET Providers,
                           attempt : 0..MaxRetries, provider : 0..NumProviders]]
  /\ verdicts \in 0..MaxVerdicts

\* Calls, health checks and the administrator all write the flag and the
\* counter of a node; however they interleave, a node is avoided only after
\* MaxConsecutiveFailures failures in a row or because it was set aside by hand
\* and not heard of since, and a healthy one is below that limit
\* (executeWithFallback, performHealthChecks, setProviderHealth).
HealthMatchesFailures ==
  \A p \in Providers :
    /\ isHealthy[p] => consecutiveFailures[p] < MaxConsecutiveFailures
    /\ ~isHealthy[p] => consecutiveFailures[p] = MaxConsecutiveFailures \/ p \in setAside
=============================================================================
