--------------------------- MODULE MCBuyerRecords ---------------------------
(***************************************************************************)
(* Small instances of BuyerRecords for TLC.                                *)
(***************************************************************************)
EXTENDS BuyerRecords

CONSTANTS w1, w2, t1, t2

Bought(wallet, tx, schedule, tokens) ==
  [kind |-> "Bought", wallet |-> wallet, tokens |-> tokens, tx |-> tx, schedule |-> schedule]

Scheduled(wallet, tx, schedule, tokens) ==
  [kind |-> "VestingScheduleCreated", wallet |-> wallet, tokens |-> tokens, tx |-> tx,
   schedule |-> schedule]

Claimed(wallet, tx, tokens) ==
  [kind |-> "Claimed", wallet |-> wallet, tokens |-> tokens, tx |-> tx, schedule |-> 0]

\* A purchase, the schedule its transaction logs with it, and a claim of part of it.
BuyAndClaim == <<Bought(w1, t1, 0, 3), Scheduled(w1, t1, 0, 3), Claimed(w1, t2, 2)>>

\* A request names no event type, which means all of them.
AllKinds == {Kinds}
=============================================================================
