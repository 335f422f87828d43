----------------------------- MODULE Monitoring -----------------------------
(***************************************************************************)
(* GET /listener/health: the report puts together what it reads at         *)
(* different moments, the listener's cursor and the flags of the nodes     *)
(* first and the chain's head last, from a node that getProvider hands out *)
(* in rotation.  Meanwhile the chain grows, the listener goes on, and      *)
(* calls, health checks and the administrator change the flags (module     *)
(* ProviderPool).                                                          *)
(***************************************************************************)
EXTENDS ProviderPool

CONSTANTS
  Probes,        \* health requests that may be in progress at once
  HealthyLag,    \* the lag a healthy contract stays below: 100 blocks
  NodeLag,       \* bound: how far behind the chain a node may be
  MaxHead,       \* bound: length of the chain
  MaxHandOuts    \* bound: calls of getProvider

ASSUME MonitoringAssumption ==
  /\ HealthyLag \in Nat \ {0}
  /\ NodeLag \in Nat
  /\ MaxHead \in Nat \ {0}
  /\ MaxHandOuts \in Nat

VARIABLES
  currentProviderIndex,
  head,       \* the newest block of the chain
  cursor,     \* lastProcessedBlock of the contract
  probe,      \* locals of each health request
  handedOut   \* history: hand-outs of each node since the healthy ones last changed

monitorVars == <<poolVars, currentProviderIndex, head, cursor, probe, handedOut>>

NoProbe == [pc |-> "none", cursor |-> 0, healthy |-> {}, since |-> 0, status |-> "none"]

-----------------------------------------------------------------------------
Stuck(index)    == index
Advanced(index) == index + 1

\* getProvider: the healthy nodes in turn, or the first one when there is none.
\* A node's place in their list is how many of them come before it.
Place(p) == Cardinality({q \in HealthyProviders : q < p})
Turn == CHOOSE p \in HealthyProviders :
          Place(p) = currentProviderIndex % Cardinality(HealthyProviders)

GetProvider ==
  /\ currentProviderIndex < MaxHandOuts
  /\ IF HealthyProviders = {} THEN UNCHANGED <<currentProviderIndex, handedOut>>
     ELSE /\ currentProviderIndex' = Advanced(currentProviderIndex)
          /\ handedOut' = [handedOut EXCEPT ![Turn] = @ + 1]
  /\ UNCHANGED poolVars

\* getStatus and getProviderStats.
ReadStatus(r) ==
  /\ probe[r].pc = "none"
  /\ probe' = [probe EXCEPT ![r] = [pc |-> "block", cursor |-> cursor,
                healthy |-> HealthyProviders, since |-> head, status |-> "none"]]
  /\ UNCHANGED <<poolVars, currentProviderIndex, head, cursor, handedOut>>

UnknownIsNear(block, at) == block - at < HealthyLag
Near(block, at)          == block > 0 /\ block - at < HealthyLag

Status(healthy, block, at) ==
  CASE healthy = {}                                  -> "critical"
    [] healthy # {} /\ healthy = Providers /\ Near(block, at) -> "healthy"
    [] OTHER                                         -> "degraded"

\* getBlockNumber of the node handed out; an error leaves latestBlock at 0.
Report(r) ==
  /\ probe[r].pc = "block"
  /\ GetProvider
  /\ \E block \in 0..head :
       /\ block = 0 \/ block >= head - NodeLag
       /\ probe' = [probe EXCEPT ![r].pc = "answered",
                                 ![r].status = Status(probe[r].healthy, block, probe[r].cursor)]
  /\ UNCHANGED <<head, cursor>>

Forget(r) ==
  /\ probe[r].pc = "answered"
  /\ probe' = [probe EXCEPT ![r] = NoProbe]
  /\ UNCHANGED <<poolVars, currentProviderIndex, head, cursor, handedOut>>

-----------------------------------------------------------------------------
ChainGrows ==
  /\ head < MaxHead
  /\ head' = head + 1
  /\ UNCHANGED <<poolVars, currentProviderIndex, cursor, probe, handedOut>>

\* The listener goes on; a jump, or a reprocessing request, sets the cursor to
\* any block, back to -1 or ahead of the chain (modules ContractManager,
\* Reprocess).
ListenerMoves ==
  /\ cursor' \in (-1..MaxHead) \ {cursor}
  /\ UNCHANGED <<poolVars, currentProviderIndex, head, probe, handedOut>>

\* The rotation goes on where it was, over another list of nodes.
FlagsMove ==
  /\ PoolStep
  /\ handedOut' = IF HealthyProviders' = HealthyProviders THEN handedOut
                  ELSE [p \in Providers |-> 0]
  /\ UNCHANGED <<currentProviderIndex, head, cursor, probe>>

MonitorInit ==
  /\ PoolInit
  /\ currentProviderIndex = 0
  /\ head = 1
  /\ cursor = 0
  /\ probe = [r \in Probes |-> NoProbe]
  /\ handedOut = [p \in Providers |-> 0]

MonitorNext ==
  \/ ChainGrows \/ ListenerMoves \/ FlagsMove
  \/ GetProvider /\ UNCHANGED <<head, cursor, probe>>
  \/ \E r \in Probes : ReadStatus(r) \/ Report(r) \/ Forget(r)

MonitorSpec == MonitorInit /\ [][MonitorNext]_monitorVars

-----------------------------------------------------------------------------
(***************************************************************************)
(* Properties                                                              *)
(***************************************************************************)

MonitorTypeOK ==
  /\ PoolTypeOK
  /\ currentProviderIndex \in 0..MaxHandOuts
  /\ head \in 1..MaxHead
  /\ cursor \in -1..MaxHead
  /\ handedOut \in [Providers -> 0..MaxHandOuts]
  /\ \A r \in Probes : /\ probe[r].status \in {"none", "healthy", "degraded", "critical"}
                        /\ probe[r].cursor \in -1..MaxHead

\* Between two changes of the list of healthy nodes, none of them is handed out
\* more than once oftener than another, wherever the index stood at the change
\* (getProvider: "round-robin strategy").
RotationIsFair ==
  \A p, q \in HealthyProviders : handedOut[p] <= handedOut[q] + 1

\* README: healthy means "each contract's lastProcessedBlock is within 100
\* blocks of chain head".  Put together from several moments as it is, a report
\* says so only if the position it read was that near to the head the chain had
\* when the request came in, give or take the lag of the node asked; where the
\* listener has been sent meanwhile, it does not know.
HealthyReportsAreSound ==
  \A r \in Probes : probe[r].status = "healthy" =>
    probe[r].since - probe[r].cursor < HealthyLag + NodeLag
=============================================================================
