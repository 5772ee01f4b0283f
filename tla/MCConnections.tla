---------------------------- MODULE MCConnections ----------------------------
(* Instances of Connections that TLC checks.  Socket k has the ends 2k - 1  *)
(* and 2k.                                                                  *)
EXTENDS Connections

CONSTANTS Sockets, Distance

AllEnds == 1..(2 * Sockets)

Pairs == [e \in AllEnds |-> IF e % 2 = 1 THEN e + 1 ELSE e - 1]

(* Every socket between protocols 0 and Distance. *)
TwoProtocols == [e \in AllEnds |-> IF e % 2 = 1 THEN 0 ELSE Distance]
=============================================================================
