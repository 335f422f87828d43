----------------------------- MODULE EventFeed -----------------------------
(***************************************************************************)
(* What the listener promises of its block cursor, whatever scans and      *)
(* polls move it: a feed that reads the blocks of a chain for several      *)
(* event types, keeps its position while it runs, and saves it for the     *)
(* next start.  The position never stands past a block that was not        *)
(* accounted for, and what is saved is a position the feed has reached, so *)
(* that a feed that stops at any moment starts again at or before the      *)
(* first block it still owes.  Nothing is said of the order in which       *)
(* blocks are accounted for, nor how.                                      *)
(***************************************************************************)
EXTENDS Integers

CONSTANTS
  Types,       \* the event types
  StartBlock   \* the feed answers for the blocks after this one

VARIABLES
  head,        \* the chain's latest block
  running,
  position,    \* every block up to here is accounted for; 0 when not running
  saved,       \* the position the next start resumes from
  accounted    \* the cells <<type, block>> accounted for

feedVars == <<head, running, position, saved, accounted>>

Complete(block, cells) == Types \X ((StartBlock + 1)..block) \subseteq cells

Init ==
  /\ head \in Nat
  /\ ~running
  /\ position = 0
  /\ saved = 0
  /\ accounted = {}

Grow ==
  /\ head' = head + 1
  /\ UNCHANGED <<running, position, saved, accounted>>

\* Without a readable saved position the feed starts over.
Start ==
  /\ ~running
  /\ running' = TRUE
  /\ \/ position' = StartBlock
     \/ saved > StartBlock /\ position' = saved
  /\ UNCHANGED <<head, saved, accounted>>

Stop ==
  /\ running
  /\ running' = FALSE
  /\ position' = 0
  /\ UNCHANGED <<head, saved, accounted>>

\* Cells of blocks the chain has are accounted for, and the position may be
\* any up to which all are.
Account ==
  /\ running
  /\ accounted \subseteq accounted'
  /\ accounted' \ accounted \subseteq Types \X (0..head)
  /\ \/ position' = position
     \/ position' \in Nat /\ Complete(position', accounted')
  /\ UNCHANGED <<head, running, saved>>

Save ==
  /\ running
  /\ saved' = position
  /\ UNCHANGED <<head, running, position, accounted>>

Next == Grow \/ Start \/ Stop \/ Account \/ Save

Spec == Init /\ [][Next]_feedVars
=============================================================================
