----------------------------- MODULE Leaderboard -----------------------------
(***************************************************************************)
(* What the sorted-set half of util/redis/RedisService promises: updates   *)
(* are handed over and forgotten by the caller, and settled one at a time, *)
(* in the order of submission.  An update that settles has changed the     *)
(* board, or has left it alone, or is in doubt: then it may still change   *)
(* the board once, at any later moment, over newer updates.  The updates   *)
(* may also stall, when a Redis call never returns (ConnectionManager says *)
(* when): then nothing settles until the process is started anew.          *)
(***************************************************************************)
EXTENDS Integers, Sequences, Bags

CONSTANTS Update,          \* what can be submitted
          Empty,           \* the boards at the start
          Apply(_, _)      \* Apply(boards, u): the boards after update u

VARIABLES
  boards,
  pending,    \* updates submitted and not settled
  doubtful,   \* the bag of updates in doubt
  stalled     \* no update will settle any more

vars == <<boards, pending, doubtful, stalled>>

Init == boards = Empty /\ pending = <<>> /\ doubtful = EmptyBag /\ stalled = FALSE

Submit(u) ==
  /\ pending' = Append(pending, u)
  /\ UNCHANGED <<boards, doubtful, stalled>>

Settle ==
  /\ pending # <<>> /\ ~stalled
  /\ pending' = Tail(pending)
  /\ \/ boards' = Apply(boards, Head(pending)) /\ UNCHANGED doubtful
     \/ UNCHANGED <<boards, doubtful>>
     \/ doubtful' = doubtful (+) SetToBag({Head(pending)}) /\ UNCHANGED boards
  /\ stalled' \in BOOLEAN

Stall ==
  /\ pending # <<>> /\ stalled' = TRUE
  /\ UNCHANGED <<boards, pending, doubtful>>

Surprise(u) ==
  /\ u \in BagToSet(doubtful)
  /\ boards' = Apply(boards, u)
  /\ doubtful' = doubtful (-) SetToBag({u})
  /\ UNCHANGED <<pending, stalled>>

\* The process dies: pending updates are gone, the first perhaps under way.
Crash ==
  /\ pending' = <<>> /\ stalled' = FALSE
  /\ \/ UNCHANGED doubtful
     \/ pending # <<>> /\ ~stalled /\ doubtful' = doubtful (+) SetToBag({Head(pending)})
  /\ UNCHANGED boards

Next ==
  \/ \E u \in Update : Submit(u)
  \/ Settle \/ Stall
  \/ \E u \in BagToSet(doubtful) : Surprise(u)
  \/ Crash

\* No update waits for ever, unless they have stalled.
Spec == Init /\ [][Next]_vars /\ WF_vars(Settle)
=============================================================================
