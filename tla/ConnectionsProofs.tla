-------------------------- MODULE ConnectionsProofs --------------------------
(***************************************************************************)
(* Theorems about Connections, for every number of sockets and protocols,  *)
(* every width of ids and whatever goes wrong: the two ends of a socket    *)
(* agree on who sends the Shake, no remote stays registered that has no    *)
(* connection, and of the sockets to one remote at most one is kept next   *)
(* to those that a duplicate made forget.                                  *)
(***************************************************************************)
EXTENDS Connections, SequenceTheorems, FiniteSetTheorems, TLAPS

Packet == [type : {"hello"}, peerId : PeerId] \cup [type : {"shake"}, isDuplicate : BOOLEAN]

WireOK == wire \in [End -> Seq(Packet)]

(* A Hello comes from the other end. *)
HelloFits ==
  \A e \in End : \A k \in 1..Len(wire[e]) :
    wire[e][k].type = "hello" => wire[e][k].peerId = Id[Other[e]]

(* An end that waits for the Shake has found that the other one has to send it. *)
Waits == \A e \in End : pc[e] = "shake" => Id[Other[e]] # Id[e] /\ ~ShouldShake(e, Id[Other[e]])

(* No two ends of a socket wait for each other's Shake. *)
NeverBothWait == \A e \in End : ~(pc[e] = "shake" /\ pc[Other[e]] = "shake")

(* A Peer is destroyed only when it is past its handshake. *)
DestroyedLate == \A e \in destroyed : pc[e] \in {"running", "leaving", "left"}

(* The list of peers has Peers of its own protocol that run. *)
PeersRun == \A i \in Running : \A e \in peers[i] : Id[e] = i /\ pc[e] = "running"

(* Where this side decides on duplicates, a registered id has such a connection. *)
Registered ==
  \A i, id \in Running :
    CompareDistance(i, id) < 0 /\ id \in globalPeerIds[i] => \E e \in End : Holds(e, i, id)

Types == TypeOK /\ WireOK /\ DestroyedLate /\ PeersRun

ConnInv == Types /\ HelloFits /\ Waits /\ Registered

-----------------------------------------------------------------------------
(* Distances *)

LEMMA AbsSymmetric ==
  ASSUME NEW x \in Int, NEW y \in Int
  PROVE  Abs(y - x) = Abs(x - y)
BY DEF Abs

(* Of two different protocols exactly one finds that it should send the Shake: the comparison *)
(* of compareDistance() is antisymmetric for every width, also at the threshold.              *)
THEOREM CompareAntisymmetric ==
  ASSUME NEW x \in Int, NEW y \in Int, x # y
  PROVE  CompareDistance(x, y) < 0 <=> ~(CompareDistance(y, x) < 0)
<1>1. Abs(y - x) = Abs(x - y)
  BY AbsSymmetric
<1>2. CASE y > x
  <2>1. CompareDistance(x, y) = IF Abs(y - x) < Threshold THEN -1 ELSE 1
    BY <1>2 DEF CompareDistance
  <2>2. CompareDistance(y, x) = IF Abs(y - x) < Threshold THEN 1 ELSE -1
    BY <1>1, <1>2 DEF CompareDistance
  <2> QED
    BY <2>1, <2>2
<1>3. CASE y < x
  <2>1. CompareDistance(x, y) = IF Abs(y - x) < Threshold THEN 1 ELSE -1
    BY <1>3 DEF CompareDistance
  <2>2. CompareDistance(y, x) = IF Abs(y - x) < Threshold THEN -1 ELSE 1
    BY <1>1, <1>3 DEF CompareDistance
  <2> QED
    BY <2>1, <2>2
<1> QED
  BY <1>2, <1>3

LEMMA CompareSelf == ASSUME NEW x \in Int PROVE ~(CompareDistance(x, x) < 0)
<1>1. CompareDistance(x, x) = 0
  BY DEF CompareDistance
<1> QED
  BY <1>1

LEMMA IdsAreNumbers == PeerId \subseteq Int
BY DEF PeerId

-----------------------------------------------------------------------------
(* Types *)

LEMMA AssumedTypes ==
  /\ None \notin PeerId
  /\ Other \in [End -> End] /\ \A e \in End : Other[e] # e /\ Other[Other[e]] = e
  /\ Id \in [End -> PeerId]
BY ConnectionsAssumption

LEMMA ReceivedPacket ==
  ASSUME WireOK, NEW e \in End, wire[e] # <<>>
  PROVE  Head(wire[e]) \in Packet /\ Head(wire[e]) = wire[e][1] /\ 1 \in 1..Len(wire[e])
BY HeadTailProperties DEF WireOK

LEMMA PacketFields ==
  ASSUME NEW p \in Packet
  PROVE  /\ p.type = "hello" => p.peerId \in PeerId
         /\ p.type = "shake" => p.isDuplicate \in BOOLEAN
BY DEF Packet

(* What a send does to the packets on their way. *)
LEMMA SendKeepsWire ==
  ASSUME WireOK, NEW e \in End, NEW p \in Packet, Send(e, p)
  PROVE  WireOK'
<1>1. CASE e \in broken
  BY <1>1 DEF Send, WireOK
<1>2. CASE e \notin broken
  <2>1. Other[e] \in End /\ wire[Other[e]] \in Seq(Packet)
    BY AssumedTypes DEF WireOK
  <2>2. Append(wire[Other[e]], p) \in Seq(Packet)
    BY <2>1, AppendProperties
  <2>3. wire' = [wire EXCEPT ![Other[e]] = Append(wire[Other[e]], p)]
    BY <1>2 DEF Send
  <2> QED
    BY <2>1, <2>2, <2>3 DEF WireOK
<1> QED
  BY <1>1, <1>2

LEMMA TailKeepsWire ==
  ASSUME WireOK, NEW e \in End, wire[e] # <<>>, wire' = [wire EXCEPT ![e] = Tail(@)]
  PROVE  WireOK'
<1>1. Tail(wire[e]) \in Seq(Packet)
  BY HeadTailProperties DEF WireOK
<1> QED
  BY <1>1 DEF WireOK

LEMMA PacketsMade ==
  /\ \A e \in End : Hello(Id[e]) \in Packet
  /\ Shake(TRUE) \in Packet /\ Shake(FALSE) \in Packet
BY AssumedTypes DEF Hello, Shake, Packet

LEMMA TypesInit == Init => Types
<1> SUFFICES ASSUME Init PROVE Types
  OBVIOUS
<1> USE DEF Init
<1>1. TypeOK
  BY DEF TypeOK
<1>2. WireOK
  BY DEF WireOK
<1> QED
  BY <1>1, <1>2 DEF Types, DestroyedLate, PeersRun

(* destroy() of an end that runs, leaves or left. *)
LEMMA DestroyTypes ==
  ASSUME TypeOK, NEW e \in End, NEW id \in PeerId \cup {None}, Destroy(e, id)
  PROVE  /\ destroyed' \in SUBSET End /\ broken' \in SUBSET End
         /\ globalPeerIds' \in [Running -> SUBSET PeerId]
<1>1. Other[e] \in End /\ Id[e] \in Running
  BY AssumedTypes DEF Running
<1> QED
  BY <1>1 DEF TypeOK, Destroy, WithoutId

(* What was lost stays lost. *)
LEMMA LostStep ==
  ASSUME TypeOK, [Next]_vars
  PROVE  lost' \in SUBSET End /\ lost \subseteq lost'
<1>0. lost \in SUBSET End
  BY DEF TypeOK
<1>1. ASSUME NEW e \in End, Rob(e)
      PROVE  lost' \in SUBSET End /\ lost \subseteq lost'
  BY <1>0, <1>1 DEF Rob
<1>2. ASSUME NEW e \in End, Proceed(e) \/ SyncFails(e)
      PROVE  UNCHANGED lost \/ Rob(e)
  BY <1>2 DEF Proceed, OnHello, Accept, Refuse, OnShake, ReadyFails, LoopEnds, Leave, SyncFails, Join, Keep, Refused
<1>3. ASSUME NEW e \in End, Connect(e) \/ Cut(e)
      PROVE  UNCHANGED lost
  BY <1>3 DEF Connect, Cut
<1>4. ASSUME NEW i \in Running, Close(i)
      PROVE  lost' \in SUBSET End /\ lost \subseteq lost'
  BY <1>0, <1>4 DEF Close
<1>5. CASE UNCHANGED vars
  BY <1>0, <1>5 DEF vars
<1> QED
  BY <1>0, <1>1, <1>2, <1>3, <1>4, <1>5 DEF Next

LEMMA ProceedTypes ==
  ASSUME Types, NEW e \in End, Proceed(e)
  PROVE  Types'
<1>9. lost' \in SUBSET End
  BY LostStep DEF Next, Types
<1> USE <1>9 DEF Types, TypeOK, DestroyedLate, PeersRun
<1>0. Id[e] \in Running /\ Other[e] \in End /\ Id[e] \in PeerId
  BY AssumedTypes DEF Running
<1>1. CASE OnHello(e)
  <2>1. WireOK'
    BY <1>1, TailKeepsWire DEF OnHello, Received
  <2>2. Head(wire[e]).peerId \in PeerId
    BY <1>1, ReceivedPacket, PacketFields DEF OnHello, Received
  <2>3. TypeOK'
    BY <1>0, <1>1, <2>2 DEF OnHello, Goto
  <2>4. DestroyedLate' /\ PeersRun'
    BY <1>1 DEF OnHello, Goto
  <2> QED
    BY <2>1, <2>3, <2>4
<1>2. CASE Accept(e)
  <2>1. WireOK'
    BY <1>2, SendKeepsWire, PacketsMade DEF Accept
  <2>2. TypeOK' /\ DestroyedLate' /\ PeersRun'
    BY <1>0, <1>2 DEF Accept, Join, Keep, Goto
  <2> QED
    BY <2>1, <2>2
<1>3. ASSUME Refused(e), UNCHANGED <<announced, closed>>, pc[e] \in {"refuse", "shake"}
      PROVE  TypeOK' /\ DestroyedLate' /\ PeersRun'
  <2>1. remoteId'[e] \in PeerId \cup {None} /\ remoteId' \in [End -> PeerId \cup {None}]
    BY <1>3 DEF Refused
  <2>2. destroyed' \in SUBSET End /\ broken' \in SUBSET End
        /\ globalPeerIds' \in [Running -> SUBSET PeerId]
    BY <1>3, <2>1, DestroyTypes DEF Refused
  <2>3. TypeOK'
    BY <1>3, <2>1, <2>2 DEF Refused, Goto
  <2>4. DestroyedLate' /\ PeersRun'
    BY <1>3 DEF Refused, Goto, Destroy
  <2> QED
    BY <2>3, <2>4
<1>4. CASE Refuse(e)
  <2>1. WireOK'
    BY <1>4, SendKeepsWire, PacketsMade DEF Refuse
  <2> QED
    BY <1>3, <1>4, <2>1 DEF Refuse
<1>5. CASE OnShake(e)
  <2>1. WireOK'
    BY <1>5, TailKeepsWire DEF OnShake, Received
  <2>2. CASE Join(e) /\ Keep
    <3>1. TypeOK' /\ DestroyedLate' /\ PeersRun'
      BY <1>0, <1>5, <2>2 DEF OnShake, Join, Keep, Goto
    <3> QED
      BY <2>1, <3>1
  <2>3. CASE Refused(e)
    BY <1>3, <1>5, <2>1, <2>3 DEF OnShake
  <2> QED
    BY <1>5, <2>2, <2>3 DEF OnShake
<1>6. CASE ReadyFails(e)
  <2>1. destroyed' \in SUBSET End /\ broken' \in SUBSET End
        /\ globalPeerIds' \in [Running -> SUBSET PeerId]
    BY <1>6, DestroyTypes DEF ReadyFails
  <2> QED
    BY <1>6, <2>1 DEF ReadyFails, Shaking, Goto, Destroy, WireOK
<1>7. CASE LoopEnds(e)
  <2>1. destroyed' \in SUBSET End /\ broken' \in SUBSET End
        /\ globalPeerIds' \in [Running -> SUBSET PeerId]
    BY <1>7, DestroyTypes DEF LoopEnds, Keep
  <2>2. peers' \in [Running -> SUBSET End] /\ pc'[e] \in {"leaving", "left"}
        /\ \A d \in End : d # e => pc'[d] = pc[d]
    BY <1>7 DEF LoopEnds, Goto
  <2>3. pc' \in [End -> {"none", "hello", "accept", "refuse", "shake", "running", "leaving", "left"}]
    BY <1>7 DEF LoopEnds, Goto
  <2>4. TypeOK' /\ WireOK'
    BY <1>7, <2>1, <2>2, <2>3 DEF LoopEnds, WireOK
  <2>5. \A d \in destroyed' : d = e \/ d \in destroyed
    BY <1>7 DEF LoopEnds, Destroy, Keep
  <2>6. DestroyedLate'
    BY <2>1, <2>2, <2>5
  <2>7. PeersRun'
    <3> SUFFICES ASSUME NEW i \in Running, NEW d \in peers'[i] PROVE Id[d] = i /\ pc'[d] = "running"
      OBVIOUS
    <3>1. d \in peers[i] /\ d # e /\ d \in End
      BY <1>0, <1>7 DEF LoopEnds
    <3> QED
      BY <2>2, <3>1
  <2> QED
    BY <2>4, <2>6, <2>7
<1>8. CASE Leave(e)
  BY <1>8 DEF Leave, socket, Goto, WireOK
<1> QED
  BY <1>1, <1>2, <1>4, <1>5, <1>6, <1>7, <1>8 DEF Proceed

LEMMA TypesStep ==
  ASSUME Types, [Next]_vars
  PROVE  Types'
<1>9. lost' \in SUBSET End
  BY LostStep DEF Types
<1> USE <1>9 DEF Types, TypeOK, WireOK, DestroyedLate, PeersRun
<1>1. CASE UNCHANGED vars
  BY <1>1 DEF vars, socket, protocol
<1>2. ASSUME NEW e \in End, Connect(e)
      PROVE  Types'
  <2>1. WireOK'
    BY <1>2, SendKeepsWire, PacketsMade DEF Connect
  <2> QED
    BY <1>2, <2>1 DEF Connect, Goto, protocol
<1>3. ASSUME NEW e \in End, SyncFails(e)
      PROVE  Types'
  <2>1. destroyed' \in SUBSET End /\ broken' \in SUBSET End
        /\ globalPeerIds' \in [Running -> SUBSET PeerId]
    BY <1>3, DestroyTypes DEF SyncFails
  <2> QED
    BY <1>3, <2>1 DEF SyncFails, Destroy
<1>4. ASSUME NEW e \in End, Cut(e)
      PROVE  Types'
  BY <1>4, AssumedTypes DEF Cut, protocol
<1>5. ASSUME NEW i \in Running, Close(i)
      PROVE  Types'
  <2>1. broken' \in SUBSET End /\ destroyed' \in SUBSET End /\ closed' \in SUBSET Running
    BY <1>5, AssumedTypes DEF Close
  <2>2. globalPeerIds' \in [Running -> SUBSET PeerId] /\ peers' \in [Running -> SUBSET End]
    BY <1>5 DEF Close
  <2>3. DestroyedLate' /\ PeersRun'
    BY <1>5 DEF Close
  <2> QED
    BY <1>5, <2>1, <2>2, <2>3 DEF Close
<1> QED
  BY <1>1, <1>2, <1>3, <1>4, <1>5, ProceedTypes DEF Next

-----------------------------------------------------------------------------
(* Who waits for whom *)

LEMMA SendFits ==
  ASSUME WireOK, HelloFits, NEW e \in End, NEW p \in Packet, Send(e, p),
         p.type = "hello" => p.peerId = Id[e]
  PROVE  HelloFits'
<1>1. CASE e \in broken
  BY <1>1 DEF Send, HelloFits
<1>2. CASE e \notin broken
  <2> DEFINE o == Other[e]
  <2>1. o \in End /\ Other[o] = e /\ wire[o] \in Seq(Packet)
    BY AssumedTypes DEF WireOK
  <2>2. wire'[o] = Append(wire[o], p) /\ \A d \in End : d # o => wire'[d] = wire[d]
    BY <1>2, <2>1 DEF Send, WireOK
  <2>3. /\ Len(wire'[o]) = Len(wire[o]) + 1 /\ wire'[o][Len(wire[o]) + 1] = p
        /\ \A k \in 1..Len(wire[o]) : wire'[o][k] = wire[o][k]
    BY <2>1, <2>2, AppendProperties
  <2> SUFFICES ASSUME NEW d \in End, NEW k \in 1..Len(wire'[d]), wire'[d][k].type = "hello"
               PROVE  wire'[d][k].peerId = Id[Other[d]]
    BY DEF HelloFits
  <2>4. CASE d # o
    BY <2>2, <2>4 DEF HelloFits
  <2>5. CASE d = o /\ k = Len(wire[o]) + 1
    BY <2>1, <2>3, <2>5
  <2>6. CASE d = o /\ k # Len(wire[o]) + 1
    <3>1. k \in 1..Len(wire[o])
      BY <2>1, <2>3, <2>6, LenProperties
    <3> QED
      BY <2>1, <2>3, <2>6, <3>1 DEF HelloFits
  <2> QED
    BY <2>4, <2>5, <2>6
<1> QED
  BY <1>1, <1>2

LEMMA TailFits ==
  ASSUME WireOK, HelloFits, NEW e \in End, wire[e] # <<>>, wire' = [wire EXCEPT ![e] = Tail(@)]
  PROVE  HelloFits'
<1>1. wire[e] \in Seq(Packet) /\ wire'[e] = Tail(wire[e]) /\ \A d \in End : d # e => wire'[d] = wire[d]
  BY DEF WireOK
<1>2. Len(Tail(wire[e])) = Len(wire[e]) - 1 /\ Len(wire[e]) \in Nat
      /\ \A k \in 1..Len(Tail(wire[e])) : Tail(wire[e])[k] = wire[e][k + 1]
  BY <1>1, HeadTailProperties, LenProperties
<1> SUFFICES ASSUME NEW d \in End, NEW k \in 1..Len(wire'[d]), wire'[d][k].type = "hello"
             PROVE  wire'[d][k].peerId = Id[Other[d]]
  BY DEF HelloFits
<1>3. CASE d # e
  BY <1>1, <1>3 DEF HelloFits
<1>4. CASE d = e
  <2>1. k \in 1..Len(Tail(wire[e]))
    BY <1>1, <1>4
  <2>2. wire'[e][k] = wire[e][k + 1]
    BY <1>1, <1>2, <2>1
  <2>3. k + 1 \in 1..Len(wire[e])
    BY <1>2, <2>1
  <2> QED
    BY <1>4, <2>2, <2>3 DEF HelloFits
<1> QED
  BY <1>3, <1>4

LEMMA HelloFitsStep ==
  ASSUME Types, HelloFits, [Next]_vars
  PROVE  HelloFits'
<1>0. WireOK
  BY DEF Types
<1>1. ASSUME NEW e \in End, Connect(e)
      PROVE  HelloFits'
  <2>1. Hello(Id[e]).peerId = Id[e]
    BY DEF Hello
  <2> QED
    BY <1>0, <1>1, <2>1, SendFits, PacketsMade DEF Connect
<1>2. ASSUME NEW e \in End, OnHello(e) \/ OnShake(e)
      PROVE  HelloFits'
  BY <1>0, <1>2, TailFits DEF OnHello, OnShake, Received
<1>3. ASSUME NEW e \in End, Accept(e) \/ Refuse(e)
      PROVE  HelloFits'
  <2>1. Shake(TRUE).type # "hello" /\ Shake(FALSE).type # "hello"
    BY DEF Shake
  <2> QED
    BY <1>0, <1>3, <2>1, SendFits, PacketsMade DEF Accept, Refuse
<1>4. ASSUME UNCHANGED wire
      PROVE  HelloFits'
  BY <1>4 DEF HelloFits
<1> QED
  BY <1>1, <1>2, <1>3, <1>4 DEF Next, Proceed, ReadyFails, LoopEnds, Leave, SyncFails, Cut, Close,
     socket, vars

(* What an end waits for changes by its own steps. *)
LEMMA OwnSteps ==
  ASSUME Types, [Next]_vars, NEW d \in End, pc'[d] # pc[d]
  PROVE  Connect(d) \/ Proceed(d)
<1>0. pc \in [End -> {"none", "hello", "accept", "refuse", "shake", "running", "leaving", "left"}]
  BY DEF Types, TypeOK
<1>1. PICK e \in End : Connect(e) \/ Proceed(e)
  BY DEF Next, SyncFails, Cut, Close, vars
<1>2. ASSUME e # d PROVE FALSE
  <2>1. CASE Refused(e) \/ Join(e)
    BY <1>0, <1>2, <2>1 DEF Refused, Join, Goto
  <2> QED
    BY <1>0, <1>1, <1>2, <2>1 DEF Connect, Proceed, OnHello, Accept, Refuse, OnShake, ReadyFails, LoopEnds,
       Leave, Goto
<1> QED
  BY <1>1, <1>2

(* The steps of an end lead to these states. *)
LEMMA StepsLead ==
  ASSUME Types, NEW d \in End, Connect(d) \/ Proceed(d)
  PROVE  \/ Connect(d) /\ pc[d] = "none" /\ pc'[d] = "hello"
         \/ OnHello(d) /\ pc[d] = "hello"
         \/ pc[d] \in {"accept", "shake"} /\ pc'[d] = "running"
         \/ pc[d] \notin {"leaving", "left"} /\ pc'[d] \in {"leaving", "left"}
         \/ pc[d] = "leaving" /\ pc'[d] = "left"
<1>0. pc \in [End -> {"none", "hello", "accept", "refuse", "shake", "running", "leaving", "left"}]
  BY DEF Types, TypeOK
<1>1. CASE Connect(d) \/ OnHello(d)
  BY <1>0, <1>1 DEF Connect, OnHello, Goto
<1>2. CASE Accept(d) \/ Refuse(d)
  BY <1>0, <1>2 DEF Accept, Refuse, Join, Refused, Goto
<1>3. CASE OnShake(d)
  BY <1>0, <1>3 DEF OnShake, Join, Refused, Goto
<1>4. CASE ReadyFails(d) \/ LoopEnds(d) \/ Leave(d)
  BY <1>0, <1>4 DEF ReadyFails, Shaking, LoopEnds, Leave, Goto
<1> QED
  BY <1>1, <1>2, <1>3, <1>4 DEF Proceed

LEMMA WaitsStep ==
  ASSUME Types, HelloFits, Waits, [Next]_vars
  PROVE  Waits'
<1> SUFFICES ASSUME NEW d \in End, pc'[d] = "shake"
             PROVE  Id[Other[d]] # Id[d] /\ ~ShouldShake(d, Id[Other[d]])
  BY DEF Waits, ShouldShake
<1>1. CASE pc[d] = "shake"
  BY <1>1 DEF Waits
<1>2. CASE pc[d] # "shake"
  <2>1. Connect(d) \/ Proceed(d)
    BY <1>2, OwnSteps
  <2>2. OnHello(d)
    BY <1>2, <2>1, StepsLead
  <2>3. Head(wire[d]).peerId = Id[Other[d]]
    BY <2>2, ReceivedPacket DEF OnHello, Received, HelloFits, Types
  <2> QED
    BY <2>2, <2>3 DEF OnHello, Goto, Types, TypeOK
<1> QED
  BY <1>1, <1>2

LEMMA WaitsNever ==
  ASSUME Types, Waits
  PROVE  NeverBothWait
<1> SUFFICES ASSUME NEW e \in End, pc[e] = "shake", pc[Other[e]] = "shake" PROVE FALSE
  BY DEF NeverBothWait
<1> DEFINE o == Other[e]
<1>1. o \in End /\ Other[o] = e /\ Id[e] \in Int /\ Id[o] \in Int
  BY AssumedTypes, IdsAreNumbers
<1>2. Id[o] # Id[e] /\ ~(CompareDistance(Id[e], Id[o]) < 0)
  BY DEF Waits, ShouldShake
<1>3. ~(CompareDistance(Id[o], Id[e]) < 0)
  BY <1>1 DEF Waits, ShouldShake
<1> QED
  BY <1>1, <1>2, <1>3, CompareAntisymmetric

-----------------------------------------------------------------------------
(* Registrations *)

(* A connection that goes on as it was still holds its id. *)
LEMMA HoldsOn ==
  ASSUME NEW d \in End, NEW i, NEW id, Holds(d, i, id), remoteId'[d] = remoteId[d],
         d \notin destroyed', pc'[d] \in {"accept", "running"}
  PROVE  Holds(d, i, id)'
BY DEF Holds

(* destroy() of an end removes what only this end may have held. *)
LEMMA DestroyRegistered ==
  ASSUME Types, Registered, NEW e \in End, Destroy(e, remoteId[e]), UNCHANGED remoteId,
         \A d \in End : d # e => pc'[d] = pc[d]
  PROVE  Registered'
<1> SUFFICES ASSUME NEW i \in Running, NEW id \in Running, CompareDistance(i, id) < 0,
                    id \in globalPeerIds'[i]
             PROVE  \E d \in End : Holds(d, i, id)'
  BY DEF Registered
<1>0. globalPeerIds \in [Running -> SUBSET PeerId] /\ Id[e] \in Running /\ id # None
  BY AssumedTypes DEF Types, TypeOK, Running
<1>1. id \in globalPeerIds[i] /\ ~(i = Id[e] /\ id = remoteId[e])
  BY <1>0 DEF Destroy, WithoutId
<1>2. PICK d \in End : Holds(d, i, id)
  BY <1>1 DEF Registered
<1>3. d # e
  BY <1>1, <1>2 DEF Holds
<1> QED
  BY <1>2, <1>3 DEF Holds, Destroy

(* A refused end held nothing. *)
LEMMA RefusedRegistered ==
  ASSUME Types, Registered, NEW e \in End, Refused(e), pc[e] \in {"refuse", "shake"}
  PROVE  Registered'
<1> SUFFICES ASSUME NEW i \in Running, NEW id \in Running, CompareDistance(i, id) < 0,
                    id \in globalPeerIds'[i]
             PROVE  \E d \in End : Holds(d, i, id)'
  BY DEF Registered
<1>1. id \in globalPeerIds[i]
  BY AssumedTypes DEF Types, TypeOK, Running, Refused, Destroy, WithoutId
<1>2. PICK d \in End : Holds(d, i, id)
  BY <1>1 DEF Registered
<1>3. d # e
  BY <1>2 DEF Holds
<1>4. pc'[d] = pc[d] /\ remoteId'[d] = remoteId[d]
  BY <1>3 DEF Refused, Goto, Types, TypeOK
<1> QED
  BY <1>2, <1>3, <1>4 DEF Holds, Refused, Destroy

(* A step that keeps registrations, Peers and remote ids, and goes on with the handshake. *)
LEMMA GoOnRegistered ==
  ASSUME Types, Registered, NEW e \in End, UNCHANGED <<remoteId, destroyed, globalPeerIds>>,
         \A d \in End : d # e => pc'[d] = pc[d],
         pc[e] \in {"accept", "running"} => pc'[e] \in {"accept", "running"}
  PROVE  Registered'
<1> SUFFICES ASSUME NEW i \in Running, NEW id \in Running, CompareDistance(i, id) < 0,
                    id \in globalPeerIds[i]
             PROVE  \E d \in End : Holds(d, i, id)'
  BY DEF Registered
<1>1. PICK d \in End : Holds(d, i, id)
  BY DEF Registered
<1> QED
  BY <1>1 DEF Holds

LEMMA HelloRegistered ==
  ASSUME Types, Registered, NEW e \in End, OnHello(e)
  PROVE  Registered'
<1> DEFINE new == Head(wire[e]).peerId
<1> SUFFICES ASSUME NEW i \in Running, NEW id \in Running, CompareDistance(i, id) < 0,
                    id \in globalPeerIds'[i]
             PROVE  \E d \in End : Holds(d, i, id)'
  BY DEF Registered
<1>0. /\ pc \in [End -> {"none", "hello", "accept", "refuse", "shake", "running", "leaving", "left"}]
      /\ remoteId \in [End -> PeerId \cup {None}]
      /\ globalPeerIds \in [Running -> SUBSET PeerId] /\ Id[e] \in Running
  BY AssumedTypes DEF Types, TypeOK, Running
<1>1. pc[e] = "hello" /\ e \notin destroyed /\ destroyed' = destroyed
  BY DEF OnHello, Types, DestroyedLate
<1>2. \A d \in End : d # e => pc'[d] = pc[d] /\ remoteId'[d] = remoteId[d]
  BY <1>0 DEF OnHello, Goto
<1>3. CASE id \in globalPeerIds[i]
  <2>1. PICK d \in End : Holds(d, i, id)
    BY <1>3 DEF Registered
  <2>2. d # e
    BY <1>1, <2>1 DEF Holds
  <2> QED
    BY <1>1, <1>2, <2>1, <2>2 DEF Holds
<1>4. CASE id \notin globalPeerIds[i]
  <2>1. i = Id[e] /\ id = new /\ new # Id[e]
    BY <1>0, <1>4 DEF OnHello
  <2>2. pc'[e] = "accept" /\ remoteId'[e] = id
    BY <1>0, <1>4, <2>1 DEF OnHello, Goto, ShouldShake, IsDuplicate
  <2> QED
    BY <1>1, <2>1, <2>2 DEF Holds
<1> QED
  BY <1>3, <1>4

(* close() destroys the Peers that it takes the ids of. *)
LEMMA CloseRegistered ==
  ASSUME Types, Registered, NEW j \in Running, Close(j)
  PROVE  Registered'
<1> SUFFICES ASSUME NEW i \in Running, NEW id \in Running, CompareDistance(i, id) < 0,
                    id \in globalPeerIds'[i]
             PROVE  \E d \in End : Holds(d, i, id)'
  BY DEF Registered
<1> DEFINE left == peers[j] \ destroyed
<1>1. globalPeerIds' = [globalPeerIds EXCEPT ![j] = @ \ {remoteId[e] : e \in left}]
      /\ destroyed' = destroyed \cup left /\ UNCHANGED <<pc, remoteId>>
  BY DEF Close
<1>2. id \in globalPeerIds[i]
  BY <1>1 DEF Types, TypeOK
<1>3. PICK d \in End : Holds(d, i, id)
  BY <1>2 DEF Registered
<1>4. d \notin left
  <2> SUFFICES ASSUME d \in left PROVE FALSE
    OBVIOUS
  <2>1. i = j
    BY <1>3 DEF Types, PeersRun, Holds
  <2>2. id \in {remoteId[e] : e \in left}
    BY <1>3 DEF Holds
  <2> QED
    BY <1>1, <2>1, <2>2 DEF Types, TypeOK
<1> QED
  BY <1>1, <1>3, <1>4 DEF Holds

LEMMA RegisteredStep ==
  ASSUME Types, Registered, [Next]_vars
  PROVE  Registered'
<1>0. /\ pc \in [End -> {"none", "hello", "accept", "refuse", "shake", "running", "leaving", "left"}]
  BY DEF Types, TypeOK
<1>1. ASSUME NEW e \in End, Connect(e) \/ Accept(e) \/ Leave(e) \/ Cut(e)
                           \/ (OnShake(e) /\ Join(e) /\ Keep)
      PROVE  Registered'
  <2>1. UNCHANGED <<remoteId, destroyed, globalPeerIds>>
    BY <1>1 DEF Connect, Accept, Leave, Cut, Join, Keep, protocol
  <2>2. \A d \in End : d # e => pc'[d] = pc[d]
    BY <1>0, <1>1 DEF Connect, Accept, Leave, Cut, Join, Goto
  <2>3. pc[e] \in {"accept", "running"} => pc'[e] \in {"accept", "running"}
    BY <1>0, <1>1 DEF Connect, Accept, Leave, Cut, OnShake, Join, Goto
  <2> QED
    BY <2>1, <2>2, <2>3, GoOnRegistered
<1>2. ASSUME NEW e \in End, OnShake(e), Refused(e)
      PROVE  Registered'
  BY <1>2, RefusedRegistered DEF OnShake
<1>3. ASSUME NEW e \in End, Refuse(e)
      PROVE  Registered'
  BY <1>3, RefusedRegistered DEF Refuse
<1>4. ASSUME NEW e \in End, ReadyFails(e) \/ SyncFails(e)
      PROVE  Registered'
  BY <1>0, <1>4, DestroyRegistered DEF ReadyFails, SyncFails, Goto
<1>5. ASSUME NEW e \in End, LoopEnds(e)
      PROVE  Registered'
  <2>1. \A d \in End : d # e => pc'[d] = pc[d]
    BY <1>0, <1>5 DEF LoopEnds, Goto
  <2>2. CASE e \in destroyed
    <3> SUFFICES ASSUME NEW i \in Running, NEW id \in Running, CompareDistance(i, id) < 0,
                        id \in globalPeerIds'[i]
                 PROVE  \E d \in End : Holds(d, i, id)'
      BY DEF Registered
    <3>1. PICK d \in End : Holds(d, i, id)
      BY <1>5, <2>2 DEF Registered, LoopEnds, Keep
    <3>2. d # e
      BY <2>2, <3>1 DEF Holds
    <3> QED
      BY <1>5, <2>1, <2>2, <3>1, <3>2 DEF Holds, LoopEnds, Keep
  <2>3. CASE e \notin destroyed
    BY <1>5, <2>1, <2>3, DestroyRegistered DEF LoopEnds
  <2> QED
    BY <2>2, <2>3
<1>6. ASSUME UNCHANGED vars
      PROVE  Registered'
  BY <1>6 DEF Registered, Holds, vars, protocol
<1> QED
  BY <1>1, <1>2, <1>3, <1>4, <1>5, <1>6, HelloRegistered, CloseRegistered DEF Next, Proceed, OnShake

-----------------------------------------------------------------------------
(* One peer per remote *)

(* Two sockets between the same protocols. *)
Mates(a, b) == a # b /\ Id[a] = Id[b] /\ Id[Other[a]] = Id[Other[b]]

RemoteFits ==
  \A e \in End : remoteId[e] = Id[Other[e]] \/ (remoteId[e] = None /\ pc[e] \notin {"accept", "shake", "running"})

(* The remote id is read from the Hello. *)
RemoteRead == \A e \in End : pc[e] \in {"none", "hello"} => remoteId[e] = None

(* A connection that this side decides on, which goes on. *)
Active(e) == e \notin destroyed /\ pc[e] \in {"accept", "running"} /\ ShouldShake(e, Id[Other[e]])

(* Of two connections to a remote, one has lost its registration. *)
OneActive == \A a, b \in End : Mates(a, b) /\ Active(a) /\ Active(b) => a \in lost \/ b \in lost

Guarded == \A a \in End : Active(a) => Id[Other[a]] \in globalPeerIds[Id[a]] \/ a \in lost

MateInv == RemoteFits /\ RemoteRead /\ OneActive /\ Guarded

LEMMA RemoteFitsStep ==
  ASSUME Types, HelloFits, RemoteFits, [Next]_vars
  PROVE  RemoteFits'
<1>0. /\ pc \in [End -> {"none", "hello", "accept", "refuse", "shake", "running", "leaving", "left"}]
      /\ remoteId \in [End -> PeerId \cup {None}] /\ WireOK
  BY DEF Types, TypeOK
<1> SUFFICES ASSUME NEW d \in End
             PROVE  remoteId'[d] = Id[Other[d]]
                    \/ (remoteId'[d] = None /\ pc'[d] \notin {"accept", "shake", "running"})
  BY DEF RemoteFits
<1>1. CASE OnHello(d)
  <2>1. Head(wire[d]).peerId = Id[Other[d]]
    BY <1>0, <1>1, ReceivedPacket DEF OnHello, Received, HelloFits
  <2> QED
    BY <1>0, <1>1, <2>1 DEF OnHello
<1>2. CASE Refused(d)
  BY <1>0, <1>2 DEF Refused, Goto, RemoteFits
<1>3. ASSUME remoteId'[d] = remoteId[d],
             pc'[d] \in {"accept", "shake", "running"} => pc[d] \in {"accept", "shake", "running"}
      PROVE  remoteId'[d] = Id[Other[d]]
             \/ (remoteId'[d] = None /\ pc'[d] \notin {"accept", "shake", "running"})
  BY <1>3 DEF RemoteFits
<1>4. ASSUME NEW e \in End, e # d, Connect(e) \/ Proceed(e)
      PROVE  remoteId'[d] = remoteId[d] /\ pc'[d] = pc[d]
  <2>1. CASE Refused(e)
    BY <1>0, <1>4, <2>1 DEF Refused, Goto
  <2>2. CASE Join(e)
    BY <1>0, <1>4, <2>2 DEF Join, Goto
  <2> QED
    BY <1>0, <1>4, <2>1, <2>2 DEF Connect, Proceed, OnHello, Accept, Refuse, OnShake, ReadyFails, LoopEnds,
       Leave, Goto
<1>5. CASE Connect(d) \/ (Proceed(d) /\ ~OnHello(d) /\ ~Refused(d))
  <2>1. CASE Join(d) /\ (Accept(d) \/ OnShake(d))
    BY <1>0, <1>3, <2>1 DEF Join, Accept, OnShake
  <2>2. CASE Connect(d) \/ ReadyFails(d) \/ LoopEnds(d) \/ Leave(d)
    BY <1>0, <1>3, <2>2 DEF Connect, ReadyFails, LoopEnds, Leave, Goto
  <2> QED
    BY <1>5, <2>1, <2>2 DEF Proceed, Accept, Refuse, OnShake
<1>6. CASE UNCHANGED <<pc, remoteId>>
  BY <1>3, <1>6
<1>7. CASE \E e \in End : Connect(e) \/ Proceed(e)
  <2>1. PICK e \in End : Connect(e) \/ Proceed(e)
    BY <1>7
  <2>2. CASE e # d
    BY <1>3, <1>4, <2>1, <2>2
  <2>3. CASE e = d
    BY <1>1, <1>2, <1>5, <2>1, <2>3
  <2> QED
    BY <2>2, <2>3
<1> QED
  BY <1>6, <1>7 DEF Next, SyncFails, Cut, Close, vars

LEMMA RemoteReadStep ==
  ASSUME Types, RemoteRead, [Next]_vars
  PROVE  RemoteRead'
<1>0. /\ pc \in [End -> {"none", "hello", "accept", "refuse", "shake", "running", "leaving", "left"}]
      /\ remoteId \in [End -> PeerId \cup {None}]
  BY DEF Types, TypeOK
<1> SUFFICES ASSUME NEW d \in End, pc'[d] \in {"none", "hello"} PROVE remoteId'[d] = None
  BY DEF RemoteRead
<1>1. pc[d] \in {"none", "hello"}
  <2>1. CASE pc'[d] # pc[d]
    <3>1. Connect(d) \/ Proceed(d)
      BY <2>1, OwnSteps
    <3> QED
      BY <3>1, StepsLead
  <2> QED
    BY <2>1
<1>2. remoteId[d] = None
  BY <1>1 DEF RemoteRead
<1>3. ~OnHello(d) /\ ~Refused(d)
  BY <1>0 DEF OnHello, Refused, Goto
<1>4. ASSUME NEW e \in End, OnHello(e) \/ Refused(e) PROVE remoteId'[d] = remoteId[d]
  BY <1>0, <1>3, <1>4 DEF OnHello, Refused
<1>5. ASSUME NEW e \in End, Proceed(e), ~OnHello(e), ~Refused(e) PROVE remoteId' = remoteId
  BY <1>5 DEF Proceed, Accept, Refuse, OnShake, Join, ReadyFails, LoopEnds, Leave
<1>6. ASSUME NEW e \in End, Connect(e) \/ SyncFails(e) \/ Cut(e) PROVE remoteId' = remoteId
  BY <1>6 DEF Connect, SyncFails, Cut
<1> QED
  BY <1>2, <1>4, <1>5, <1>6 DEF Next, Close, vars

(* A connection only becomes active by the Hello of its remote, as the first one. *)
LEMMA BecomesActive ==
  ASSUME Types, HelloFits, Waits, RemoteFits, [Next]_vars, NEW a \in End, Active(a)', ~Active(a)
  PROVE  /\ OnHello(a) /\ pc[a] = "hello"
         /\ Id[Other[a]] \notin globalPeerIds[Id[a]] /\ Id[Other[a]] \in globalPeerIds'[Id[a]]
<1>0. /\ pc \in [End -> {"none", "hello", "accept", "refuse", "shake", "running", "leaving", "left"}]
      /\ globalPeerIds \in [Running -> SUBSET PeerId] /\ Id[a] \in Running /\ WireOK
  BY AssumedTypes DEF Types, TypeOK, Running
<1>1. destroyed \subseteq destroyed'
  BY DEF Next, Connect, Proceed, OnHello, Accept, Refuse, OnShake, ReadyFails, LoopEnds,
     Leave, SyncFails, Cut, Close, Join, Keep, Refused, Destroy, vars, protocol
<1>2. pc[a] \notin {"accept", "running"} /\ pc'[a] \in {"accept", "running"}
      /\ ShouldShake(a, Id[Other[a]])
  BY <1>1 DEF Active, ShouldShake
<1>3. pc[a] # "shake"
  BY <1>2 DEF Waits
<1>4. OnHello(a) /\ pc[a] = "hello"
  <2>1. Connect(a) \/ Proceed(a)
    BY <1>2, OwnSteps
  <2> QED
    BY <1>2, <1>3, <2>1, StepsLead
<1>5. Head(wire[a]).peerId = Id[Other[a]]
  BY <1>0, <1>4, ReceivedPacket DEF OnHello, Received, HelloFits
<1> QED
  BY <1>0, <1>2, <1>4, <1>5 DEF OnHello, Goto, IsDuplicate

LEMMA OneActiveStep ==
  ASSUME Types, HelloFits, Waits, MateInv, [Next]_vars
  PROVE  OneActive'
<1> USE DEF MateInv
<1>0. lost \subseteq lost'
  BY LostStep DEF Types
<1> SUFFICES ASSUME NEW a \in End, NEW b \in End, Mates(a, b), Active(a)', Active(b)'
             PROVE  a \in lost' \/ b \in lost'
  BY DEF OneActive, Mates
<1>1. ASSUME NEW x \in End, NEW y \in End, Mates(x, y), Active(x)', ~Active(x), Active(y) PROVE y \in lost
  <2>1. Id[Other[x]] \notin globalPeerIds[Id[x]]
    BY <1>1, BecomesActive
  <2>2. Id[Other[y]] \notin globalPeerIds[Id[y]]
    BY <1>1, <2>1 DEF Mates
  <2> QED
    BY <1>1, <2>2 DEF Guarded
<1>2. CASE ~Active(a) /\ ~Active(b)
  <2>1. OnHello(a) /\ OnHello(b) /\ a # b /\ pc[a] = "hello" /\ pc[b] = "hello"
    BY <1>2, BecomesActive DEF Mates
  <2>2. pc'[a] = "hello"
    BY <2>1 DEF OnHello, Goto, Types, TypeOK
  <2> QED
    BY <2>2 DEF Active
<1>3. Mates(b, a)
  BY DEF Mates
<1> QED
  BY <1>0, <1>1, <1>2, <1>3 DEF OneActive

(* An id is only taken from a connection to it that goes on by a duplicate that fails while it is *)
(* refused, or by one that has lost the id itself: the connection is known to have lost it.       *)
LEMMA TakenBy ==
  ASSUME Types, Waits, MateInv, [Next]_vars, NEW a \in End, Active(a), Active(a)',
         Id[Other[a]] \in globalPeerIds[Id[a]], Id[Other[a]] \notin globalPeerIds'[Id[a]]
  PROVE  a \in lost'
<1> USE DEF MateInv
<1> DEFINE i == Id[a]
           id == Id[Other[a]]
<1>0. /\ pc \in [End -> {"none", "hello", "accept", "refuse", "shake", "running", "leaving", "left"}]
      /\ globalPeerIds \in [Running -> SUBSET PeerId] /\ i \in Running
      /\ id # None /\ id # i /\ lost \subseteq lost'
  <2>1. id # None /\ id \in Int /\ i \in Int /\ i \in Running
    BY AssumedTypes, IdsAreNumbers DEF Running
  <2>2. CompareDistance(i, id) < 0
    BY DEF Active, ShouldShake
  <2>3. id # i
    BY <2>1, <2>2, CompareSelf
  <2> QED
    BY <2>1, <2>3, LostStep DEF Types, TypeOK
<1>1. Holds(a, i, id)
  BY DEF Active, Holds, RemoteFits
<1>2. ASSUME NEW x \in End, x # a, remoteId[x] = id, Id[x] = i, x \notin destroyed, pc[x] \in {"accept", "running"}
      PROVE  a \in lost \/ x \in lost
  <2>1. Id[Other[x]] = id
    BY <1>0, <1>2 DEF RemoteFits
  <2>2. Active(x) /\ Mates(a, x)
    BY <1>2, <2>1 DEF Active, ShouldShake, Mates
  <2> QED
    BY <2>2 DEF OneActive
<1>3. ASSUME NEW x \in End, NEW y, Destroy(x, y) PROVE x # a /\ Id[x] = i /\ y = id
  BY <1>0, <1>3 DEF Destroy, WithoutId, Active
<1>4. ASSUME NEW x \in End, Destroy(x, remoteId[x]), Rob(x), pc[x] = "refuse" \/ x \in lost
      PROVE  a \in lost'
  <2>1. x # a /\ Id[x] = i /\ remoteId[x] = id
    BY <1>3, <1>4
  <2>2. lost' = lost \cup {d \in End \ {x} : Holds(d, Id[x], remoteId[x])}
    BY <1>4 DEF Rob
  <2> HIDE DEF i, id
  <2> QED
    BY <1>1, <2>1, <2>2
<1>5. ASSUME NEW x \in End, ReadyFails(x) PROVE a \in lost'
  <2>1. Destroy(x, remoteId[x]) /\ Rob(x) /\ pc[x] \in {"hello", "accept", "refuse", "shake"}
    BY <1>5 DEF ReadyFails, Shaking
  <2>2. x # a /\ Id[x] = i /\ remoteId[x] = id
    BY <1>3, <2>1
  <2>3. pc[x] # "hello"
    BY <1>0, <2>2 DEF RemoteRead
  <2>4. pc[x] # "shake"
    <3> SUFFICES ASSUME pc[x] = "shake" PROVE FALSE
      OBVIOUS
    <3>1. Id[Other[x]] = id
      BY <1>0, <2>2 DEF RemoteFits
    <3> QED
      BY <2>2, <3>1 DEF Waits, Active, ShouldShake
  <2>5. CASE pc[x] = "accept"
    <3>1. x \notin destroyed
      BY <2>5 DEF Types, DestroyedLate
    <3> QED
      BY <1>0, <1>2, <1>4, <2>1, <2>2, <2>5, <3>1
  <2> QED
    BY <1>4, <2>1, <2>3, <2>4, <2>5
<1>6. ASSUME NEW x \in End, SyncFails(x) \/ LoopEnds(x) PROVE a \in lost'
  <2>1. Destroy(x, remoteId[x]) /\ Rob(x) /\ pc[x] = "running" /\ x \notin destroyed
    BY <1>0, <1>6 DEF SyncFails, LoopEnds, Keep
  <2>2. x # a /\ Id[x] = i /\ remoteId[x] = id
    BY <1>3, <2>1
  <2> QED
    BY <1>0, <1>2, <1>4, <2>1, <2>2
<1>7. ASSUME NEW x \in End, Refused(x) PROVE FALSE
  <2>1. Id[x] = i /\ remoteId'[x] = id
    BY <1>3, <1>7 DEF Refused
  <2>2. remoteId'[x] \in {Id[x], None}
    BY <1>7 DEF Refused, Types, TypeOK
  <2> QED
    BY <1>0, <2>1, <2>2
<1>8. ASSUME NEW j \in Running, Close(j) PROVE a \in lost'
  <2>1. PICK x \in peers[j] \ destroyed : remoteId[x] = id /\ i = j
    BY <1>0, <1>8 DEF Close
  <2>2. x \in End /\ Id[x] = i /\ pc[x] = "running"
    BY <1>8, <2>1 DEF Types, TypeOK, PeersRun
  <2>3. x # a
    BY <1>8, <2>1 DEF Close, Active
  <2>4. CASE x \in lost
    <3>1. lost' = lost \cup {d \in End : \E e \in (peers[j] \ destroyed) \cap lost : Holds(d, j, remoteId[e])}
      BY <1>8 DEF Close
    <3> HIDE DEF i, id
    <3> QED
      BY <1>1, <2>1, <2>4, <3>1
  <2> QED
    BY <1>0, <1>2, <2>1, <2>2, <2>3, <2>4
<1>9. ASSUME NEW x \in End, Connect(x) \/ OnHello(x) \/ Accept(x) \/ (OnShake(x) /\ Keep) \/ Leave(x) \/ Cut(x)
      PROVE  FALSE
  BY <1>0, <1>9 DEF Connect, OnHello, Accept, OnShake, Leave, Cut, Keep, protocol
<1>10. ~UNCHANGED vars
  BY DEF vars, protocol
<1> QED
  BY <1>5, <1>6, <1>7, <1>8, <1>9, <1>10 DEF Next, Proceed, Refuse, OnShake

LEMMA GuardedStep ==
  ASSUME Types, HelloFits, Waits, MateInv, [Next]_vars
  PROVE  Guarded'
<1> USE DEF MateInv
<1> SUFFICES ASSUME NEW a \in End, Active(a)', Id[Other[a]] \notin globalPeerIds'[Id[a]]
             PROVE  a \in lost'
  BY DEF Guarded
<1>1. Active(a)
  BY BecomesActive
<1>2. CASE Id[Other[a]] \in globalPeerIds[Id[a]]
  BY <1>1, <1>2, TakenBy
<1>3. CASE Id[Other[a]] \notin globalPeerIds[Id[a]]
  <2>1. a \in lost
    BY <1>1, <1>3 DEF Guarded
  <2> QED
    BY <2>1, LostStep DEF Types
<1> QED
  BY <1>2, <1>3

LEMMA MateInit == Init => MateInv
BY DEF Init, MateInv, RemoteFits, RemoteRead, OneActive, Guarded, Active

LEMMA MateStep ==
  ASSUME ConnInv, MateInv, [Next]_vars
  PROVE  MateInv'
BY RemoteFitsStep, RemoteReadStep, OneActiveStep, GuardedStep DEF ConnInv, MateInv

(* Live peers of one remote are active connections to it. *)
LEMMA OneLive ==
  ASSUME ConnInv, MateInv
  PROVE  OnePeerPerRemote
<1> SUFFICES ASSUME NEW i \in Running, NEW id \in Running, CompareDistance(i, id) < 0
             PROVE  Cardinality(Live(i, id) \ lost) <= 1
  BY DEF OnePeerPerRemote
<1>1. \A e \in Live(i, id) \ lost : e \in End /\ Id[e] = i /\ Id[Other[e]] = id /\ Active(e)
  <2> SUFFICES ASSUME NEW e \in Live(i, id) \ lost
               PROVE  e \in End /\ Id[e] = i /\ Id[Other[e]] = id /\ Active(e)
    OBVIOUS
  <2>1. e \in End /\ Id[e] = i /\ pc[e] = "running" /\ e \notin destroyed /\ remoteId[e] = id
    BY DEF Live, ConnInv, Types, TypeOK, PeersRun
  <2>2. Id[Other[e]] = id
    BY <2>1, AssumedTypes DEF MateInv, RemoteFits
  <2> QED
    BY <2>1, <2>2 DEF Active, ShouldShake
<1>2. \A a, b \in Live(i, id) \ lost : a = b
  BY <1>1 DEF MateInv, OneActive, Mates
<1>3. CASE Live(i, id) \ lost = {}
  BY <1>3, FS_EmptySet
<1>4. CASE Live(i, id) \ lost # {}
  <2>1. PICK a \in Live(i, id) \ lost : TRUE
    BY <1>4
  <2>2. Live(i, id) \ lost = {a}
    BY <1>2, <2>1
  <2>3. Cardinality({a}) = 1
    BY FS_Singleton
  <2> QED
    BY <2>2, <2>3
<1> QED
  BY <1>3, <1>4

-----------------------------------------------------------------------------
(* Theorems *)

LEMMA ConnInvInit == Init => ConnInv
<1> SUFFICES ASSUME Init PROVE ConnInv
  OBVIOUS
<1>1. Types
  BY TypesInit
<1>2. HelloFits
  BY DEF Init, HelloFits
<1>3. Waits /\ Registered
  BY DEF Init, Waits, Registered
<1> QED
  BY <1>1, <1>2, <1>3 DEF ConnInv

(* The inductive invariant of the connections holds in every reachable state. *)
THEOREM ConnInvariant == Spec => []ConnInv
<1>1. ConnInv /\ [Next]_vars => ConnInv'
  BY TypesStep, HelloFitsStep, WaitsStep, RegisteredStep DEF ConnInv
<1> QED
  BY <1>1, ConnInvInit, PTL DEF Spec

(* Every state of Connections is well typed. *)
THEOREM ConnectionsTyped == Spec => []TypeOK
<1>1. ConnInv => TypeOK
  BY DEF ConnInv, Types
<1> QED
  BY <1>1, ConnInvariant, PTL

(* Two ends that were both handed to connect() never both wait for the other's Shake, for any ids: *)
(* ready() cannot hang in a handshake between live peers.                                         *)
THEOREM NobodyWaits == Spec => []NeverBothWait
<1>1. ConnInv => NeverBothWait
  BY WaitsNever DEF ConnInv
<1> QED
  BY <1>1, ConnInvariant, PTL

(* However many sockets were opened and however they ended, a remote id is free again when all *)
(* connections of the protocol are gone: ready() does not refuse the next one as a duplicate.  *)
THEOREM AlwaysReconnectable == Spec => []Reconnectable
<1>1. ConnInv => Reconnectable
  BY DEF ConnInv, Registered, Holds, Reconnectable
<1> QED
  BY <1>1, ConnInvariant, PTL

(* The protocol that decides on duplicates never runs two live peers for one remote, however many *)
(* sockets are opened and however their handshakes overlap, fail, are cut or closed, but for those *)
(* that lost their registration: to a duplicate whose Shake could not be sent, since it fails with *)
(* the remote id still set, or to an earlier peer that had lost its own.                           *)
THEOREM NeverTwoPeers == Spec => []OnePeerPerRemote
<1>1. ConnInv /\ MateInv /\ [Next]_vars => MateInv'
  BY MateStep
<1>2. ConnInv /\ MateInv => OnePeerPerRemote
  BY OneLive
<1> QED
  BY <1>1, <1>2, MateInit, ConnInvariant, PTL DEF Spec
=============================================================================
