---------------------------- MODULE DagReplicas ----------------------------
(***************************************************************************)
(* What a PeerLinks channel promises, with no storage, cache or network:   *)
(* messages form one growing directed acyclic graph, and every replica     *)
(* holds a set of messages that contains the parents of each of its        *)
(* members.  A message never changes once it is signed and a replica never *)
(* forgets one.  Channel.tla implements it.                                *)
(***************************************************************************)
CONSTANTS
  Replica,  \* the peers that store the channel
  Hash,     \* message hashes; a message is known by its hash
  Root,     \* the hash of the channel's root message
  Owner     \* the replica that creates the channel

VARIABLES
  created,  \* hashes of the messages signed so far
  parents,  \* parents[h]: the parent hashes inside message h
  store     \* store[r]: hashes of the messages replica r has

dagVars == <<created, parents, store>>

Init ==
  /\ created = {Root}
  /\ parents = [h \in Hash |-> {}]
  /\ store = [r \in Replica |-> IF r = Owner THEN {Root} ELSE {}]

(* A replica signs a new message on top of messages it holds. *)
Create(r, h, P) ==
  /\ h \notin created
  /\ P # {} /\ P \subseteq store[r]
  /\ created' = created \cup {h}
  /\ parents' = [parents EXCEPT ![h] = P]
  /\ UNCHANGED store

(* The parents of a message are all held before the message is. *)
ParentsHeld(r, h) == parents[h] \subseteq store[r]

(* A signed message reaches a replica that holds its parents. *)
Deliver(r, h) ==
  /\ h \in created \ store[r]
  /\ ParentsHeld(r, h)
  /\ store' = [store EXCEPT ![r] = @ \cup {h}]
  /\ UNCHANGED <<created, parents>>

Next ==
  \E r \in Replica, h \in Hash :
    \/ \E P \in SUBSET store[r] : Create(r, h, P)
    \/ Deliver(r, h)

Spec == Init /\ [][Next]_dagVars
=============================================================================
