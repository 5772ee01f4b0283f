----------------------------- MODULE Connections -----------------------------
(***************************************************************************)
(* Connections between protocols: the handshake and the life of a Peer     *)
(* (lib/peer.js, ready and destroy; lib/protocol.js, connect and close;    *)
(* lib/utils.js, compareDistance).                                         *)
(*                                                                         *)
(* A socket has two ends.  Each end is handed to connect() of the protocol *)
(* it belongs to, which makes one Peer for it.  pc is what connect() of an *)
(* end waits for:                                                          *)
(*   none      connect() is not called yet                                 *)
(*   hello     the Hello of the other end                                  *)
(*   accept, refuse   the sending of a Shake                               *)
(*   shake     the Shake of the other end                                  *)
(*   running   loop, pingLoop and syncLoop                                 *)
(*   leaving   destroy(), called by connect() for a peer that was running  *)
(*   left      connect() has returned or thrown                            *)
(***************************************************************************)
EXTENDS Integers, Sequences, FiniteSets

CONSTANTS
  Width,   \* bits of a peer id, 256 in the code
  End,     \* ends of sockets
  Other,   \* Other[e]: the other end of the socket
  Id,      \* Id[e]: the id of the protocol that end e belongs to
  Cuts,    \* ends where the network may close the socket
  Faults,  \* ends whose syncs may fail
  Closes,  \* protocols that may be closed
  None     \* JavaScript's null

PeerId == 0..(2^Width - 1)

ASSUME ConnectionsAssumption ==
  /\ Width \in Nat \ {0} /\ None \notin PeerId
  /\ Other \in [End -> End] /\ \A e \in End : Other[e] # e /\ Other[Other[e]] = e
  /\ Id \in [End -> PeerId]
  /\ Cuts \subseteq End /\ Faults \subseteq End

Running == {Id[e] : e \in End}  \* ids of the protocols

VARIABLES
  pc,             \* pc[e]: see above
  wire,           \* wire[e]: handshake packets on their way to end e
  broken,         \* ends of closed sockets
  remoteId,       \* remoteId[e]: Peer.remoteId
  destroyed,      \* ends whose Peer is destroyed
  lost,           \* history: ends whose remote another end made free, see Rob
  globalPeerIds,  \* globalPeerIds[i]: Protocol.globalPeerIds of protocol i
  peers,          \* peers[i]: the ends in Protocol.peers of protocol i
  announced,      \* ends for which 'peer leave' was resolved
  closed          \* protocols that were closed

socket == <<wire, broken>>
protocol == <<globalPeerIds, peers, announced, closed>>
vars == <<pc, socket, remoteId, destroyed, lost, protocol>>

-----------------------------------------------------------------------------
Hello(id) == [type |-> "hello", peerId |-> id]
Shake(isDuplicate) == [type |-> "shake", isDuplicate |-> isDuplicate]

Threshold == 2^(Width - 1)

Abs(n) == IF n < 0 THEN -n ELSE n

(* Mutant: one of the two comparisons includes the threshold. *)
CompareOneSided(x, y) ==
  CASE y = x -> 0
    [] y > x -> IF y - x < Threshold THEN -1 ELSE 1
    [] y < x -> IF x - y <= Threshold THEN 1 ELSE -1

CompareDistance(x, y) ==
  CASE y = x -> 0
    [] y > x -> IF Abs(y - x) < Threshold THEN -1 ELSE 1
    [] y < x -> IF Abs(y - x) < Threshold THEN 1 ELSE -1

ShouldShake(e, id) == CompareDistance(Id[e], id) < 0

(* Mutant: ids are not looked up. *)
NeverDuplicate(e, id) == FALSE

IsDuplicate(e, id) == id \in globalPeerIds[Id[e]]

Goto(e, label) == pc' = [pc EXCEPT ![e] = label]

(* socket.send: a packet sent on a closed socket is lost. *)
Send(e, packet) ==
  wire' = IF e \in broken THEN wire
          ELSE [wire EXCEPT ![Other[e]] = Append(@, packet)]

Received(e, type) == wire[e] # <<>> /\ Head(wire[e]).type = type

(* Mutant: the id stays registered. *)
KeepId(e, id) == globalPeerIds

WithoutId(e, id) == [globalPeerIds EXCEPT ![Id[e]] = @ \ {id}]

(* Peer.destroy with remoteId = id *)
Destroy(e, id) ==
  /\ destroyed' = destroyed \cup {e}
  /\ globalPeerIds' = IF id = None THEN globalPeerIds ELSE WithoutId(e, id)
  /\ broken' = broken \cup {e, Other[e]}

(* A connection that has id as its remote, and is neither failed nor about *)
(* to be refused.                                                          *)
Holds(e, i, id) ==
  Id[e] = i /\ remoteId[e] = id /\ e \notin destroyed /\ pc[e] \in {"accept", "running"}

(* History: a duplicate that fails while it is refused still has its       *)
(* remote id, and takes the registration of the connection it duplicates;  *)
(* so does later, of the next one, the connection that lost its own.       *)
Rob(e) ==
  lost' = IF pc[e] = "refuse" \/ e \in lost
          THEN lost \cup {d \in End \ {e} : Holds(d, Id[e], remoteId[e])} ELSE lost

Keep == UNCHANGED <<destroyed, lost, globalPeerIds, broken>>

-----------------------------------------------------------------------------
Init ==
  /\ pc = [e \in End |-> "none"]
  /\ wire = [e \in End |-> <<>>]
  /\ broken = {}
  /\ remoteId = [e \in End |-> None]
  /\ destroyed = {} /\ lost = {}
  /\ globalPeerIds = [i \in Running |-> {}]
  /\ peers = [i \in Running |-> {}]
  /\ announced = {}
  /\ closed = {}

(* Protocol.connect and Peer.ready up to the wait for the Hello. *)
Connect(e) ==
  /\ pc[e] = "none" /\ Id[e] \notin closed
  /\ Send(e, Hello(Id[e]))
  /\ Goto(e, "hello")
  /\ UNCHANGED <<broken, remoteId, destroyed, lost, protocol>>

OnHello(e) ==
  /\ pc[e] = "hello" /\ Received(e, "hello")
  /\ LET id == Head(wire[e]).peerId IN
     /\ remoteId' = [remoteId EXCEPT ![e] = id]
     /\ IF id = Id[e]
        THEN \* connected to ourselves
             Goto(e, "refuse") /\ UNCHANGED globalPeerIds
        ELSE /\ globalPeerIds' = [globalPeerIds EXCEPT ![Id[e]] = @ \cup {id}]
             /\ Goto(e, IF ~ShouldShake(e, id) THEN "shake"
                        ELSE IF IsDuplicate(e, id) THEN "refuse" ELSE "accept")
  /\ wire' = [wire EXCEPT ![e] = Tail(@)]
  /\ UNCHANGED <<broken, destroyed, lost, peers, announced, closed>>

(* ready() returns true: the peer joins Protocol.peers and loop() starts. *)
Join(e) ==
  /\ Goto(e, "running")
  /\ peers' = [peers EXCEPT ![Id[e]] = @ \cup {e}]
  /\ UNCHANGED remoteId

(* ready() returns false: connect() returns without further ado.  A        *)
(* duplicate forgets its remote id first, so that destroy() leaves the     *)
(* registration to the peer it duplicates.                                 *)
Refused(e) ==
  /\ Goto(e, "left")
  /\ remoteId' = [remoteId EXCEPT ![e] = IF @ = Id[e] THEN @ ELSE None]
  /\ Destroy(e, remoteId'[e])
  /\ UNCHANGED <<lost, peers>>

Accept(e) ==
  /\ pc[e] = "accept"
  /\ Send(e, Shake(FALSE))
  /\ Join(e) /\ Keep
  /\ UNCHANGED <<announced, closed>>

Refuse(e) ==
  /\ pc[e] = "refuse"
  /\ Send(e, Shake(TRUE))
  /\ Refused(e)
  /\ UNCHANGED <<announced, closed>>

OnShake(e) ==
  /\ pc[e] = "shake" /\ Received(e, "shake")
  /\ IF Head(wire[e]).isDuplicate THEN Refused(e) ELSE Join(e) /\ Keep
  /\ wire' = [wire EXCEPT ![e] = Tail(@)]
  /\ UNCHANGED <<announced, closed>>

Shaking(e) == pc[e] \in {"hello", "accept", "refuse", "shake"}

(* ready() throws: a send or a receive fails.  connect() destroys the peer *)
(* and resolves 'peer leave'.  A receive that times out has the same       *)
(* effect as one that fails after a Cut.                                   *)
ReadyFails(e) ==
  /\ Shaking(e) /\ e \in broken
  /\ Destroy(e, remoteId[e]) /\ Rob(e)
  /\ Goto(e, "leaving")
  /\ UNCHANGED <<wire, remoteId, peers, announced, closed>>

(* loop() throws, or syncLoop returns: connect() deletes the peer and      *)
(* destroys it; a second destroy() throws out of connect().                *)
LoopEnds(e) ==
  /\ pc[e] = "running" /\ e \in broken
  /\ peers' = [peers EXCEPT ![Id[e]] = @ \ {e}]
  /\ IF e \in destroyed THEN Goto(e, "left") /\ Keep
     ELSE Goto(e, "leaving") /\ Destroy(e, remoteId[e]) /\ Rob(e)
  /\ UNCHANGED <<wire, remoteId, announced, closed>>

(* connect() resolves 'peer leave' once destroy() has closed the socket. *)
Leave(e) ==
  /\ pc[e] = "leaving"
  /\ announced' = announced \cup {e}
  /\ Goto(e, "left")
  /\ UNCHANGED <<socket, remoteId, destroyed, lost, globalPeerIds, peers, closed>>

(* The catch of Peer.synchronize destroys the peer. *)
SyncFails(e) ==
  /\ e \in Faults /\ pc[e] = "running" /\ e \notin destroyed
  /\ Destroy(e, remoteId[e]) /\ Rob(e)
  /\ UNCHANGED <<pc, wire, remoteId, peers, announced, closed>>

(* Protocol.close *)
Close(i) ==
  /\ i \in Closes \ closed
  /\ LET gone == peers[i] \ destroyed IN
     /\ destroyed' = destroyed \cup gone
     /\ globalPeerIds' = [globalPeerIds EXCEPT ![i] = @ \ {remoteId[e] : e \in gone}]
     /\ broken' = broken \cup gone \cup {Other[e] : e \in gone}
     /\ lost' = lost \cup {d \in End : \E e \in gone \cap lost : Holds(d, i, remoteId[e])}
  /\ peers' = [peers EXCEPT ![i] = {}]
  /\ closed' = closed \cup {i}
  /\ UNCHANGED <<pc, wire, remoteId, announced>>

(* The network closes a socket, or an end gives up waiting. *)
Cut(e) ==
  /\ e \in Cuts \ broken
  /\ broken' = broken \cup {e, Other[e]}
  /\ UNCHANGED <<pc, wire, remoteId, destroyed, lost, protocol>>

Proceed(e) ==
  \/ OnHello(e) \/ Accept(e) \/ Refuse(e) \/ OnShake(e)
  \/ ReadyFails(e) \/ LoopEnds(e) \/ Leave(e)

Next ==
  \/ \E e \in End : Connect(e) \/ Proceed(e) \/ SyncFails(e) \/ Cut(e)
  \/ \E i \in Running : Close(i)

Spec == Init /\ [][Next]_vars

(* Packets arrive and promises settle; nobody need connect or disconnect.  *)
FairSpec == Spec /\ \A e \in End : WF_vars(Proceed(e))

-----------------------------------------------------------------------------
(* Properties *)

TypeOK ==
  /\ pc \in [End -> {"none", "hello", "accept", "refuse", "shake", "running",
                     "leaving", "left"}]
  /\ broken \in SUBSET End /\ destroyed \in SUBSET End
  /\ lost \in SUBSET End /\ announced \in SUBSET End
  /\ remoteId \in [End -> PeerId \cup {None}]
  /\ globalPeerIds \in [Running -> SUBSET PeerId]
  /\ peers \in [Running -> SUBSET End]
  /\ closed \in SUBSET Running

Live(i, id) == {e \in peers[i] \ destroyed : remoteId[e] = id}

(* The protocol that decides on duplicates keeps at most one live peer for *)
(* a remote id, however many sockets the swarm opens at once, next to such *)
(* peers as a duplicate made forget, directly or by way of another one: it *)
(* failed while it was refused.                                            *)
OnePeerPerRemote ==
  \A i, id \in Running : CompareDistance(i, id) < 0 => Cardinality(Live(i, id) \ lost) <= 1

(* A remote id is not refused once all its connections are gone: no way    *)
(* out of a handshake or a connection leaves it registered.                *)
Reconnectable ==
  \A i, id \in Running :
    /\ CompareDistance(i, id) < 0
    /\ \A e \in End : Id[e] = i => pc[e] \in {"none", "left"}
    => id \notin globalPeerIds[i]

(* The ends of a socket never wait for each other's Shake: when both have  *)
(* been handed to connect(), both get to run or both leave, and do so      *)
(* without the time-out of the handshake, which is not fair here.          *)
HandshakeEnds ==
  \A socketEnds \in {{e, Other[e]} : e \in End} :
    (\A e \in socketEnds : pc[e] = "hello") ~>
      \/ \A e \in socketEnds : pc[e] = "running"
      \/ \A e \in socketEnds : pc[e] = "left"
=============================================================================
