------------------------- MODULE MCPresaleHandlers -------------------------
(***************************************************************************)
(* Small instances of PresaleHandlers for TLC: the logs of the contract.   *)
(***************************************************************************)
EXTENDS PresaleHandlers

CONSTANTS w1, t1, t2

\* A purchase logs the purchase and its vesting schedule in one transaction.
Buy(wallet, tx, schedule, tokens) ==
  <<[kind |-> "Bought", wallet |-> wallet, tokens |-> tokens, tx |-> tx, schedule |-> schedule],
    [kind |-> "VestingScheduleCreated", wallet |-> wallet, tokens |-> tokens, tx |-> tx,
     schedule |-> schedule]>>

Claim(wallet, tx, tokens) ==
  <<[kind |-> "Claimed", wallet |-> wallet, tokens |-> tokens, tx |-> tx, schedule |-> 0]>>

\* One purchase and a claim of part of it.
ShortLog == Buy(w1, t1, 0, 3) \o Claim(w1, t2, 2)

\* A request names any event types.
AnyKinds == (SUBSET Kinds) \ {{}}
=============================================================================
