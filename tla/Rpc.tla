--------------------------------- MODULE Rpc ---------------------------------
(***************************************************************************)
(* What the requests over a connection promise, without sequence numbers,  *)
(* boxes, tables or sockets: a request is answered at most once, with what *)
(* the remote said to this very request, or it fails.  That the remote     *)
(* knows nothing of the channel is no secret and may be an answer to any   *)
(* request.                                                                *)
(***************************************************************************)
CONSTANT Request

VARIABLES
  status,   \* status[r]: "unused", "asked", "answered", "empty" or "failed"
  said      \* said[r]: "nothing", "data" or "empty": what the remote said

vars == <<status, said>>

Init ==
  /\ status = [r \in Request |-> "unused"]
  /\ said = [r \in Request |-> "nothing"]

\* A request that has ended may be made again, under the same name.
Ask(r) ==
  /\ status[r] # "asked"
  /\ status' = [status EXCEPT ![r] = "asked"]
  /\ said' = [said EXCEPT ![r] = "nothing"]

\* The remote speaks, perhaps to nobody any more.
Say(r) ==
  /\ said[r] = "nothing"
  /\ \E answer \in {"data", "empty"} : said' = [said EXCEPT ![r] = answer]
  /\ UNCHANGED status

Answer(r) ==
  /\ status[r] = "asked" /\ said[r] = "data"
  /\ status' = [status EXCEPT ![r] = "answered"]
  /\ UNCHANGED said

AnswerEmpty(r) ==
  /\ status[r] = "asked" /\ \E q \in Request : said[q] = "empty"
  /\ status' = [status EXCEPT ![r] = "empty"]
  /\ UNCHANGED said

\* Any number of requests fail together: the connection is gone.
Fail ==
  /\ \E R \in SUBSET {r \in Request : status[r] = "asked"} :
       status' = [r \in Request |-> IF r \in R THEN "failed" ELSE status[r]]
  /\ UNCHANGED said

Next == Fail \/ \E r \in Request : Ask(r) \/ Say(r) \/ Answer(r) \/ AnswerEmpty(r)

Spec == Init /\ [][Next]_vars
==============================================================================
