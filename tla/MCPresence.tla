----------------------------- MODULE MCPresence -----------------------------
(* Instances of Presence that TLC checks.                                  *)
EXTENDS Presence, TLC

CONSTANTS n1, n2, o, a, b

\* The owner on one node, two members on the other.
OwnerAlone == o :> n1 @@ a :> n2 @@ b :> n2

\* The second clock is slow, which lets chains look older than they are.
SlowGuest == n1 :> 1 @@ n2 :> 0
=============================================================================
