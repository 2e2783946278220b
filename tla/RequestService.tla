--------------------------- MODULE RequestService ---------------------------
(***************************************************************************)
(* What the parallel engine promises to the application, without slots,    *)
(* batches or threads: requests are served in the order they were queued,  *)
(* at most Capacity at a time; a request can be taken back only while it   *)
(* waits; and every request ends in exactly one final status and stays     *)
(* there.                                                                  *)
(*                                                                         *)
(* A request may end without an answer only when it has no completion      *)
(* callback (CanBeDropped): the engine drops embedding and rerank requests *)
(* whose batch fails or which are cancelled while they run.                *)
(***************************************************************************)
EXTENDS Naturals, Sequences, FiniteSets

CONSTANTS Request, Capacity, CanBeDropped

VARIABLES
  waiting,   \* the queue of waiting requests
  status     \* status[r]: how far request r has come

Status == {"unknown", "waiting", "running", "answered", "withdrawn", "dropped"}

RunningRequests == {r \in Request : status[r] = "running"}

Init ==
  /\ waiting = <<>>
  /\ status = [r \in Request |-> "unknown"]

Submit(r) ==
  /\ status[r] = "unknown"
  /\ \/ /\ waiting' = Append(waiting, r)
        /\ status' = [status EXCEPT ![r] = "waiting"]
     \/ /\ status' = [status EXCEPT ![r] = "answered"]
        /\ UNCHANGED waiting

\* The oldest waiting request is given one of the places, or fails at once.
Start ==
  /\ waiting # <<>>
  /\ waiting' = Tail(waiting)
  /\ \/ /\ Cardinality(RunningRequests) < Capacity
        /\ status' = [status EXCEPT ![Head(waiting)] = "running"]
     \/ status' = [status EXCEPT ![Head(waiting)] = "answered"]

Withdraw(r) ==
  /\ status[r] = "waiting"
  /\ \E i \in DOMAIN waiting :
       /\ waiting[i] = r
       /\ waiting' = [j \in 1..(Len(waiting) - 1) |->
                       IF j < i THEN waiting[j] ELSE waiting[j + 1]]
  /\ status' = [status EXCEPT ![r] = "withdrawn"]

\* Running requests end, several of them at once when a batch fails.
End ==
  /\ UNCHANGED waiting
  /\ \E A \in SUBSET RunningRequests, D \in SUBSET (RunningRequests \cap CanBeDropped) :
       status' = [r \in Request |-> IF r \in A THEN "answered"
                                    ELSE IF r \in D THEN "dropped" ELSE status[r]]

Next == Start \/ End \/ \E r \in Request : Submit(r) \/ Withdraw(r)

Spec == Init /\ [][Next]_<<waiting, status>>
=============================================================================
