------------------------------ MODULE MCGossip ------------------------------
(* Instances of Gossip that TLC checks.                                    *)
EXTENDS Gossip, TLC

CONSTANTS a, b, c, x, y, m1, m2

(* b between a and c. *)
Line == {<<a, b>>, <<b, a>>, <<b, c>>, <<c, b>>}
Pair == {<<a, b>>, <<b, a>>}

(* Everybody but a has loaded the channels, which a may add. *)
OthersLoaded == {[n \in Node |-> IF n = a THEN {} ELSE Channel]}

OneMessage == m1 :> x

(* For variations the README describes. *)
AllLoaded == {[n \in Node |-> Channel]}
TwoChannels == m1 :> x @@ m2 :> y
=============================================================================
