----------------------------- MODULE MCRequests -----------------------------
(* Instances of Requests that TLC checks.                                  *)
EXTENDS Requests

TwoAgents == <<"first", "second">>
=============================================================================
