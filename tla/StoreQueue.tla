----------------------------- MODULE StoreQueue -----------------------------
(***************************************************************************)
(* What the table of the store means to its callers: the line of           *)
(* VerificationQueue, read off the columns with queuePosition().           *)
(***************************************************************************)
EXTENDS RunStore

LineOf(db) ==
  [i \in 1..WaitingCount(db) |->
     CHOOSE r \in Waiting(db) : QueuePosition(db, r) = i]

ServedIn(db) ==
  IF Running(db) = {} THEN None ELSE CHOOSE r \in Running(db) : TRUE

EndedIn(db) == {r \in Run : db[r].status \in Terminal}

Queue == INSTANCE VerificationQueue
  WITH Limit <- WaitingLimit, Nobody <- None,
       line <- LineOf(rows), serving <- ServedIn(rows), finished <- EndedIn(rows)

(* The table implements the line: queuePosition() reports each waiting     *)
(* run's index in it, claimNext() takes its head, requeue() puts the run   *)
(* back at the head, and both children of a job join it side by side.      *)
ImplementsQueue == Queue!QueueSpec
=============================================================================
