---------------------------- MODULE GossipProofs ----------------------------
(***************************************************************************)
(* Theorems about Gossip: whatever the connections, drops and channels, a  *)
(* message that a connected peer lacks is on its way there or is one of    *)
(* those that were never announced to it, so that protocols with nothing   *)
(* in flight agree on all others.                                          *)
(***************************************************************************)
EXTENDS Gossip, FiniteSetTheorems, WellFoundedInduction, TLAPS

-----------------------------------------------------------------------------
(* The least element of a set of numbers *)

(* Every nonempty set of natural numbers has a least element. *)
LEMMA MinProperty ==
  ASSUME NEW S \in SUBSET Nat, S # {}
  PROVE  Min(S) \in S /\ \A x \in S : Min(S) <= x
<1>1. PICK m \in S : \A x \in S : ~(<<x, m>> \in OpToRel(<, Nat))
  BY NatLessThanWellFounded, WFMin, Zenon
<1>2. \A x \in S : ~(x < m)
  BY <1>1 DEF OpToRel
<1>3. \E k \in S : \A x \in S : k <= x
  BY <1>2
<1> QED
  BY <1>3, Zenon DEF Min

-----------------------------------------------------------------------------
(* The parts of the invariants *)

State == {"idle", "active", "pending"}
Call == [slot : Slot, phase : Phase, got : SUBSET Msg, delta : SUBSET Msg]

(* Connections join linked nodes, and the syncs and waiters of a Peer go with it. *)
Peered ==
  \A n, p \in Node :
    /\ up[n][p] => <<n, p>> \in Link
    /\ fired[n][p] # None => up[n][p]
    /\ \A c \in Channel : syncs[n][p][c] # {} => up[n][p] /\ c \in has[n]

(* A node stores messages of its channels, and receives what the remote has of them. *)
Owned ==
  \A n \in Node : saving[n] \subseteq has[n] /\ \A m \in store[n] : ChannelOf[m] \in has[n]

Carried ==
  \A n, p \in Node, c \in Channel : \A s \in syncs[n][p][c] :
    s.got \subseteq store[p] \cap InChannel(c) /\ (s.phase # "received" => s.got = {})

(* Somebody is there to repeat the sync. *)
PendingRuns ==
  \A n, p \in Node, c \in Channel : agent[n][p][c] = "pending" => syncs[n][p][c] # {}

(* The syncs with a remote that is not yet in its loop wait for it. *)
OneEnd ==
  \A n, p \in Node, c \in Channel : up[n][p] /\ ~up[p][n] =>
    /\ \A s \in syncs[n][p][c] : s.phase = "asking"
    /\ c \in has[n] \ saving[n] => syncs[n][p][c] # {}

(* p gets m from n by a running sync, one to be repeated, or an announcement yet to be read; *)
(* or n has still to announce m, which was posted, or came from another node.                *)
ByCall(n, p, c, m) ==
  \/ agent[p][n][c] = "pending"
  \/ \E s \in syncs[p][n][c] : s.phase = "asking" \/ m \in s.got
ByOther(n, p, c, m) ==
  \E q \in Node \ {p} : fired[n][q] = c \/ \E s \in syncs[n][q][c] : m \in s.delta

UnderWay(n, p, c, m) ==
  c \in posted[n] \/ notices[p][n][c] > 0 \/ ByCall(n, p, c, m) \/ ByOther(n, p, c, m)

(* Or it was never announced. *)
Explained(n, p, c, m) == UnderWay(n, p, c, m) \/ m \in untold[n][p]

Lacks(n, p, m) == m \in Lacking(n, p) /\ up[n][p] /\ up[p][n]

Spread == \A n, p \in Node, m \in Msg : Lacks(n, p, m) => Explained(n, p, ChannelOf[m], m)

GossipInv == TypeOK /\ Peered /\ Owned /\ Carried /\ PendingRuns /\ OneEnd

-----------------------------------------------------------------------------
(* Calls of synchronize() *)

LEMMA Constants ==
  /\ \A n, p \in Node : <<n, p>> \in Link => n # p /\ <<p, n>> \in Link
  /\ \A n, p \in Node : <<n, p>> \in Joined => <<n, p>> \in Link /\ <<p, n>> \in Joined
  /\ Loaded \subseteq [Node -> SUBSET Channel]
  /\ ChannelOf \in [Msg -> Channel] /\ MaxSyncs \in Nat \ {0} /\ MaxDrops \in Nat
  /\ None \notin Channel /\ None \notin Node
BY GossipAssumption

LEMMA FreeSlot ==
  ASSUME NEW running, FreeSlots(running) # {}
  PROVE  Min(FreeSlots(running)) \in Slot
<1>1. FreeSlots(running) \in SUBSET Nat
  BY Constants DEF FreeSlots, Slot
<1>2. Min(FreeSlots(running)) \in FreeSlots(running)
  BY <1>1, MinProperty
<1> QED
  BY <1>2 DEF FreeSlots

LEMMA AllFree == FreeSlots({}) # {}
<1>1. 1 \in FreeSlots({})
  BY Constants DEF FreeSlots, Slot
<1> QED
  BY <1>1

(* A call only adds to what runs: a sync that starts with its query, unless one is repeated anyway. *)
LEMMA CallEffect ==
  ASSUME NEW state \in State, NEW running \in SUBSET Call, FreeSlots(running) # {}
  PROVE  /\ StateAfterCall(state) \in State
         /\ SyncsAfterCall(state, running) \in SUBSET Call
         /\ running \subseteq SyncsAfterCall(state, running)
         /\ state = "pending" => StateAfterCall(state) = "pending" /\ SyncsAfterCall(state, running) = running
         /\ state # "pending" => \E s \in SyncsAfterCall(state, running) : s.phase = "asking"
         /\ \A s \in SyncsAfterCall(state, running) \ running : s.phase = "asking" /\ s.got = {}
<1> DEFINE new == Sync(Min(FreeSlots(running)))
<1>1. new \in Call /\ new.phase = "asking" /\ new.got = {}
  BY FreeSlot DEF Sync, Call, Phase
<1> HIDE DEF new
<1>2. SyncsAfterCall(state, running) = IF state \in {"idle", "active"} THEN running \cup {new} ELSE running
  BY DEF SyncsAfterCall, CanStart, new
<1> QED
  BY <1>1, <1>2 DEF StateAfterCall, State

-----------------------------------------------------------------------------
(* Steps that change no sync but by calling synchronize() *)

(* Of one agent: nothing changes, or there is a call. *)
Same(n, p, c) == agent'[n][p][c] = agent[n][p][c] /\ syncs'[n][p][c] = syncs[n][p][c]

Called(n, p, c) ==
  /\ FreeSlots(syncs[n][p][c]) # {} /\ up'[n][p] /\ c \in has'[n]
  /\ agent'[n][p][c] = StateAfterCall(agent[n][p][c])
  /\ syncs'[n][p][c] = SyncsAfterCall(agent[n][p][c], syncs[n][p][c])

(* Nothing is lost. *)
Grows(n, p, c) ==
  /\ syncs[n][p][c] \subseteq syncs'[n][p][c]
  /\ \A s \in syncs'[n][p][c] \ syncs[n][p][c] : s.phase = "asking" /\ s.got = {}
  /\ agent[n][p][c] = "pending" => agent'[n][p][c] = "pending"
  /\ Called(n, p, c) => agent'[n][p][c] = "pending" \/ \E s \in syncs'[n][p][c] : s.phase = "asking"

LEMMA CallGrows ==
  ASSUME TypeOK, NEW n \in Node, NEW p \in Node, NEW c \in Channel, Same(n, p, c) \/ Called(n, p, c)
  PROVE  Grows(n, p, c)
<1>1. agent[n][p][c] \in State /\ syncs[n][p][c] \in SUBSET Call
  BY DEF TypeOK, State, Call
<1>2. CASE Called(n, p, c)
  BY <1>1, <1>2, CallEffect DEF Called, Grows
<1>3. CASE Same(n, p, c) /\ ~Called(n, p, c)
  BY <1>3 DEF Same, Grows
<1> QED
  BY <1>2, <1>3

(* A step of calls keeps what is said of syncs. *)
LEMMA CallsKeep ==
  ASSUME GossipInv,
         \A n, p \in Node, c \in Channel : Same(n, p, c) \/ Called(n, p, c),
         \A n \in Node : has[n] \subseteq has'[n] /\ store[n] \subseteq store'[n],
         \A n, p \in Node : (up[n][p] => up'[n][p]) /\ (up'[n][p] => up[n][p] \/ <<n, p>> \in Link),
         \A n, p \in Node : fired'[n][p] = fired[n][p] \/ fired'[n][p] = None,
         \A n, p \in Node, c \in Channel :
           up'[n][p] /\ ~up'[p][n] =>
             /\ ~up[p][n]
             /\ c \in has'[n] \ saving'[n] =>
                  (up[n][p] /\ c \in has[n] \ saving[n]) \/ Called(n, p, c)
  PROVE  /\ Peered' /\ Carried' /\ PendingRuns' /\ OneEnd'
         /\ \A n, p \in Node, c \in Channel : Grows(n, p, c)
<1> USE DEF GossipInv
<1>1. \A n, p \in Node, c \in Channel : Grows(n, p, c)
  BY CallGrows
<1>2. Peered'
  <2> SUFFICES ASSUME NEW n \in Node, NEW p \in Node
               PROVE  /\ up'[n][p] => <<n, p>> \in Link
                      /\ fired'[n][p] # None => up'[n][p]
                      /\ \A c \in Channel : syncs'[n][p][c] # {} => up'[n][p] /\ c \in has'[n]
    BY DEF Peered
  <2>1. /\ up[n][p] => <<n, p>> \in Link
        /\ fired[n][p] # None => up[n][p]
        /\ \A c \in Channel : syncs[n][p][c] # {} => up[n][p] /\ c \in has[n]
    BY DEF Peered
  <2>2. (up[n][p] => up'[n][p]) /\ (up'[n][p] => up[n][p] \/ <<n, p>> \in Link)
    OBVIOUS
  <2>3. fired'[n][p] = fired[n][p] \/ fired'[n][p] = None
    OBVIOUS
  <2>4. ASSUME NEW c \in Channel, syncs'[n][p][c] # {} PROVE up'[n][p] /\ c \in has'[n]
    <3>1. CASE Called(n, p, c)
      BY <3>1 DEF Called
    <3>2. CASE Same(n, p, c)
      BY <2>1, <2>2, <2>4, <3>2 DEF Same
    <3> QED
      BY <3>1, <3>2
  <2> QED
    BY <2>1, <2>2, <2>3, <2>4
<1>3. Carried'
  BY <1>1 DEF Carried, Grows
<1>4. PendingRuns'
  <2> SUFFICES ASSUME NEW n \in Node, NEW p \in Node, NEW c \in Channel, agent'[n][p][c] = "pending"
               PROVE  syncs'[n][p][c] # {}
    BY DEF PendingRuns
  <2>1. CASE Same(n, p, c)
    BY <2>1 DEF PendingRuns, Same
  <2>2. CASE Called(n, p, c)
    <3>1. agent[n][p][c] \in State /\ syncs[n][p][c] \in SUBSET Call
      BY DEF TypeOK, State, Call
    <3> QED
      BY <2>2, <3>1, CallEffect DEF Called, PendingRuns
  <2> QED
    BY <2>1, <2>2
<1>5. OneEnd'
  <2> SUFFICES ASSUME NEW n \in Node, NEW p \in Node, NEW c \in Channel, up'[n][p], ~up'[p][n]
               PROVE  /\ \A s \in syncs'[n][p][c] : s.phase = "asking"
                      /\ c \in has'[n] \ saving'[n] => syncs'[n][p][c] # {}
    BY DEF OneEnd
  <2>1. ~up[p][n]
    OBVIOUS
  <2>2. \A s \in syncs[n][p][c] : s.phase = "asking"
    <3>1. CASE up[n][p]
      BY <2>1, <3>1 DEF OneEnd
    <3>2. CASE ~up[n][p]
      BY <3>2 DEF Peered
    <3> QED
      BY <3>1, <3>2
  <2>3. \A s \in syncs'[n][p][c] : s.phase = "asking"
    BY <1>1, <2>2 DEF Grows
  <2>4. ASSUME c \in has'[n] \ saving'[n] PROVE syncs'[n][p][c] # {}
    <3>1. CASE up[n][p] /\ c \in has[n] \ saving[n]
      BY <1>1, <2>1, <3>1 DEF OneEnd, Grows
    <3>2. CASE Called(n, p, c)
      <4>1. agent[n][p][c] \in State /\ syncs[n][p][c] \in SUBSET Call
        BY DEF TypeOK, State, Call
      <4> QED
        BY <3>2, <4>1, CallEffect DEF Called, PendingRuns
    <3> QED
      BY <2>4, <3>1, <3>2
  <2> QED
    BY <2>3, <2>4
<1> QED
  BY <1>1, <1>2, <1>3, <1>4, <1>5

(* What is explained stays so, unless it arrives. *)
LEMMA StaysExplained ==
  ASSUME NEW n \in Node, NEW p \in Node, NEW c \in Channel, NEW m \in Msg,
         Explained(n, p, c, m), Grows(p, n, c),
         \A q \in Node \ {p} : Grows(n, q, c),
         c \in posted[n] => c \in posted'[n] \/ notices'[p][n][c] > 0,
         notices[p][n][c] > 0 => notices'[p][n][c] > 0 \/ Called(p, n, c),
         \A q \in Node \ {p} : fired[n][q] = c => fired'[n][q] = c \/ notices'[p][n][c] > 0,
         m \in untold[n][p] => m \in untold'[n][p] \/ notices'[p][n][c] > 0
  PROVE  Explained(n, p, c, m)'
<1> USE DEF Explained
<1>1. CASE c \in posted[n]
  BY <1>1 DEF UnderWay
<1>2. CASE notices[p][n][c] > 0
  BY <1>2 DEF UnderWay, ByCall, Grows
<1>3. CASE ByCall(n, p, c, m)
  <2>1. ByCall(n, p, c, m)'
    BY <1>3 DEF ByCall, Grows
  <2> QED
    BY <2>1 DEF UnderWay
<1>4. CASE ByOther(n, p, c, m)
  <2>1. ByOther(n, p, c, m)' \/ notices'[p][n][c] > 0
    BY <1>4 DEF ByOther, Grows
  <2> QED
    BY <2>1 DEF UnderWay
<1>5. CASE m \in untold[n][p]
  BY <1>5 DEF UnderWay
<1> QED
  BY <1>1, <1>2, <1>3, <1>4, <1>5 DEF UnderWay

LEMMA NotifyEffect ==
  ASSUME TypeOK, NEW n \in Node, NEW c \in Channel, NEW source, Notify(n, c, source)
  PROVE  /\ notices' \in [Node -> [Node -> [Channel -> Nat]]]
         /\ untold' \in [Node -> [Node -> SUBSET Msg]]
         /\ \A x, y \in Node, d \in Channel : notices[x][y][d] > 0 => notices'[x][y][d] > 0
         /\ \A p \in Node : up[n][p] /\ p # source => notices'[p][n][c] > 0
         /\ \A x, y \in Node : \A m \in untold[x][y] :
              m \in untold'[x][y] \/ notices'[y][x][ChannelOf[m]] > 0
<1> DEFINE told(p) == [notices[p] EXCEPT ![n][c] = @ + 1]
           row == [p \in Node |-> IF p \in Notified(n, source) THEN untold[n][p] \ InChannel(c)
                                  ELSE untold[n][p]]
<1>1. notices' = [p \in Node |-> IF p \in Notified(n, source) THEN told(p) ELSE notices[p]]
  BY DEF Notify
<1>2. \A p \in Node : notices[p] \in [Node -> [Channel -> Nat]]
  BY DEF TypeOK
<1>3. ASSUME NEW p \in Node
      PROVE  /\ told(p) \in [Node -> [Channel -> Nat]]
             /\ told(p)[n][c] > 0
             /\ \A y \in Node, d \in Channel : notices[p][y][d] > 0 => told(p)[y][d] > 0
  BY <1>2
<1> HIDE DEF told
<1>4. notices' \in [Node -> [Node -> [Channel -> Nat]]]
  BY <1>1, <1>2, <1>3
<1>5. \A x, y \in Node, d \in Channel : notices[x][y][d] > 0 => notices'[x][y][d] > 0
  BY <1>1, <1>3
<1>6. \A p \in Notified(n, source) : notices'[p][n][c] > 0
  BY <1>1, <1>3 DEF Notified
<1>7. untold' = [untold EXCEPT ![n] = row] /\ untold \in [Node -> [Node -> SUBSET Msg]]
  BY DEF Notify, TypeOK
<1>8. /\ row \in [Node -> SUBSET Msg]
      /\ \A p \in Node : row[p] = IF p \in Notified(n, source) THEN untold[n][p] \ InChannel(c)
                                  ELSE untold[n][p]
  BY <1>7
<1> HIDE DEF row
<1>9. untold' \in [Node -> [Node -> SUBSET Msg]]
  BY <1>7, <1>8
<1>10. ASSUME NEW x \in Node, NEW y \in Node, NEW m \in untold[x][y]
       PROVE  m \in untold'[x][y] \/ notices'[y][x][ChannelOf[m]] > 0
  <2>1. CASE x = n /\ y \in Notified(n, source) /\ m \in InChannel(c)
    BY <1>6, <2>1 DEF InChannel
  <2>2. CASE ~(x = n /\ y \in Notified(n, source) /\ m \in InChannel(c))
    BY <1>7, <1>8, <2>2
  <2> QED
    BY <2>1, <2>2
<1> QED
  BY <1>4, <1>5, <1>6, <1>9, <1>10 DEF Notified

(* The messages that are left out of the notifications. *)
LEMMA UntoldEffect ==
  ASSUME TypeOK, NEW n \in Node, NEW new \in SUBSET Msg, NEW source
  PROVE  /\ Untold(n, new, source) \in [Node -> SUBSET Msg]
         /\ \A p \in Node : untold[n][p] \subseteq Untold(n, new, source)[p]
         /\ \A p \in Node : up[n][p] /\ p # source => new \subseteq Untold(n, new, source)[p]
<1>1. \A p \in Node : untold[n][p] \subseteq Msg
  BY DEF TypeOK
<1> QED
  BY <1>1 DEF Untold, Notified

-----------------------------------------------------------------------------
(* Initially *)

LEMMA GossipInit == Init => GossipInv /\ Spread
<1> SUFFICES ASSUME Init PROVE GossipInv /\ Spread
  OBVIOUS
<1>1. TypeOK
  BY Constants DEF Init, TypeOK
<1>2. Peered /\ Owned /\ Carried /\ PendingRuns /\ OneEnd
  BY Constants DEF Init, Peered, Owned, Carried, PendingRuns, OneEnd
<1>3. Spread
  BY DEF Init, Spread, Lacks, Lacking
<1> QED
  BY <1>1, <1>2, <1>3 DEF GossipInv

-----------------------------------------------------------------------------
(* Posts and announcements *)

LEMMA PostStep ==
  ASSUME GossipInv, NEW n \in Node, NEW m \in Msg, Post(n, m)
  PROVE  GossipInv' /\ (Spread => Spread')
<1> USE DEF GossipInv
<1>1. /\ UNCHANGED <<has, saving, up, drops, agent, syncs, notices, fired>>
      /\ ChannelOf[m] \in has[n] /\ ChannelOf[m] \in Channel
      /\ store' = [store EXCEPT ![n] = @ \cup {m}]
  BY Constants DEF Post, peers, agents
<1>2. /\ posted' \in [Node -> SUBSET Channel] /\ untold' \in [Node -> [Node -> SUBSET Msg]]
      /\ \A x \in Node : posted[x] \subseteq posted'[x]
      /\ \A x, p \in Node : untold[x][p] \subseteq untold'[x][p]
      /\ ChannelOf[m] \in posted'[n] \/ \A p \in Node : up[n][p] => m \in untold'[n][p]
  <2>1. CASE ChannelOf[m] \in saving[n]
    <3>1. posted' = posted /\ untold' = [untold EXCEPT ![n] = Untold(n, {m}, None)]
      BY <2>1 DEF Post
    <3>2. /\ Untold(n, {m}, None) \in [Node -> SUBSET Msg]
          /\ \A p \in Node : untold[n][p] \subseteq Untold(n, {m}, None)[p]
          /\ \A p \in Node : up[n][p] => m \in Untold(n, {m}, None)[p]
      <4>1. {m} \in SUBSET Msg /\ \A p \in Node : p # None
        BY Constants
      <4>2. /\ Untold(n, {m}, None) \in [Node -> SUBSET Msg]
            /\ \A p \in Node : untold[n][p] \subseteq Untold(n, {m}, None)[p]
            /\ \A p \in Node : up[n][p] /\ p # None => {m} \subseteq Untold(n, {m}, None)[p]
        BY <4>1, UntoldEffect
      <4> QED
        BY <4>1, <4>2
    <3> QED
      BY <3>1, <3>2 DEF TypeOK
  <2>2. CASE ChannelOf[m] \notin saving[n]
    <3>1. posted' = [posted EXCEPT ![n] = @ \cup {ChannelOf[m]}] /\ untold' = untold
      BY <2>2 DEF Post
    <3> QED
      BY <1>1, <3>1 DEF TypeOK
  <2> QED
    BY <2>1, <2>2
<1>3. TypeOK'
  BY <1>1, <1>2 DEF TypeOK
<1>4. /\ \A x \in Node : store[x] \subseteq store'[x]
      /\ \A x \in Node : \A k \in store'[x] : k \in store[x] \/ (x = n /\ k = m)
  BY <1>1 DEF TypeOK
<1>5. \A x, p \in Node, c \in Channel : Same(x, p, c)
  BY <1>1 DEF Same
<1>6. Peered' /\ Carried' /\ PendingRuns' /\ OneEnd' /\ \A x, p \in Node, c \in Channel : Grows(x, p, c)
  <2>1. \A x \in Node : has[x] \subseteq has'[x] /\ store[x] \subseteq store'[x]
    BY <1>1, <1>4
  <2> QED
    BY <1>1, <1>5, <2>1, CallsKeep
<1>7. Owned'
  BY <1>1, <1>4 DEF Owned
<1>8. ASSUME Spread PROVE Spread'
  <2> SUFFICES ASSUME NEW x \in Node, NEW p \in Node, NEW k \in Msg, Lacks(x, p, k)'
               PROVE  Explained(x, p, ChannelOf[k], k)'
    BY DEF Spread
  <2>0. k \in store'[x] /\ k \notin store'[p] /\ ChannelOf[k] \in has[p] \ saving[p] /\ up[x][p] /\ up[p][x]
    BY <1>1 DEF Lacks, Lacking
  <2>1. CASE x = n /\ k = m
    BY <1>2, <2>0, <2>1 DEF Explained, UnderWay
  <2>2. CASE k \in store[x]
    <3>1. Explained(x, p, ChannelOf[k], k) /\ ChannelOf[k] \in Channel
      BY <1>4, <1>8, <2>0, <2>2, Constants DEF Spread, Lacks, Lacking
    <3>2. /\ ChannelOf[k] \in posted[x] => ChannelOf[k] \in posted'[x]
          /\ k \in untold[x][p] => k \in untold'[x][p]
      BY <1>2
    <3> QED
      BY <1>1, <1>6, <3>1, <3>2, StaysExplained
  <2> QED
    BY <1>4, <2>0, <2>1, <2>2
<1> QED
  BY <1>3, <1>6, <1>7, <1>8

LEMMA AnnounceStep ==
  ASSUME GossipInv, NEW n \in Node, NEW c \in Channel, Announce(n, c)
  PROVE  GossipInv' /\ (Spread => Spread')
<1> USE DEF GossipInv
<1>1. /\ UNCHANGED <<has, saving, store, up, drops, agent, syncs, fired>>
      /\ Notify(n, c, None)
      /\ posted' = [posted EXCEPT ![n] = @ \ {c}]
  BY DEF Announce, content, peers, agents
<1>2. /\ notices' \in [Node -> [Node -> [Channel -> Nat]]] /\ untold' \in [Node -> [Node -> SUBSET Msg]]
      /\ \A x, y \in Node, d \in Channel : notices[x][y][d] > 0 => notices'[x][y][d] > 0
      /\ \A p \in Node : up[n][p] => notices'[p][n][c] > 0
      /\ \A x, y \in Node : \A m \in untold[x][y] :
           m \in untold'[x][y] \/ notices'[y][x][ChannelOf[m]] > 0
  BY <1>1, NotifyEffect, Constants
<1>3. TypeOK'
  BY <1>1, <1>2 DEF TypeOK
<1>4. \A x, p \in Node, d \in Channel : Same(x, p, d)
  BY <1>1 DEF Same
<1>5. Peered' /\ Carried' /\ PendingRuns' /\ OneEnd' /\ \A x, p \in Node, d \in Channel : Grows(x, p, d)
  BY <1>1, <1>4, CallsKeep
<1>6. Owned'
  BY <1>1 DEF Owned
<1>7. ASSUME Spread PROVE Spread'
  <2> SUFFICES ASSUME NEW x \in Node, NEW p \in Node, NEW k \in Msg, Lacks(x, p, k)'
               PROVE  Explained(x, p, ChannelOf[k], k)'
    BY DEF Spread
  <2>1. Explained(x, p, ChannelOf[k], k) /\ up[x][p]
    BY <1>1, <1>7 DEF Spread, Lacks, Lacking
  <2>4. k \in untold[x][p] => k \in untold'[x][p] \/ notices'[p][x][ChannelOf[k]] > 0
    BY <1>2
  <2>2. ChannelOf[k] \in Channel
    BY Constants
  <2>3. ChannelOf[k] \in posted[x] => ChannelOf[k] \in posted'[x] \/ notices'[p][x][ChannelOf[k]] > 0
    BY <1>1, <1>2, <2>1 DEF TypeOK
  <2> QED
    BY <1>1, <1>2, <1>5, <2>1, <2>2, <2>3, <2>4, StaysExplained
<1> QED
  BY <1>3, <1>5, <1>6, <1>7

LEMMA RedistributeStep ==
  ASSUME GossipInv, NEW n \in Node, NEW p \in Node, Redistribute(n, p)
  PROVE  GossipInv' /\ (Spread => Spread')
<1> USE DEF GossipInv
<1>1. /\ UNCHANGED <<has, saving, store, posted, up, drops, agent, syncs>>
      /\ fired[n][p] \in Channel /\ Notify(n, fired[n][p], p)
      /\ fired' = [fired EXCEPT ![n][p] = None]
  BY DEF Redistribute, content, peers, agents, TypeOK
<1>2. /\ notices' \in [Node -> [Node -> [Channel -> Nat]]] /\ untold' \in [Node -> [Node -> SUBSET Msg]]
      /\ \A x, y \in Node, d \in Channel : notices[x][y][d] > 0 => notices'[x][y][d] > 0
      /\ \A q \in Node : up[n][q] /\ q # p => notices'[q][n][fired[n][p]] > 0
      /\ \A x, y \in Node : \A m \in untold[x][y] :
           m \in untold'[x][y] \/ notices'[y][x][ChannelOf[m]] > 0
  BY <1>1, NotifyEffect
<1>3. /\ TypeOK'
      /\ \A x, q \in Node : fired'[x][q] = fired[x][q] \/ (x = n /\ q = p /\ fired'[x][q] = None)
  BY <1>1, <1>2 DEF TypeOK
<1>4. \A x, q \in Node, d \in Channel : Same(x, q, d)
  BY <1>1 DEF Same
<1>5. Peered' /\ Carried' /\ PendingRuns' /\ OneEnd' /\ \A x, q \in Node, d \in Channel : Grows(x, q, d)
  BY <1>1, <1>3, <1>4, CallsKeep
<1>6. Owned'
  BY <1>1 DEF Owned
<1>7. ASSUME Spread PROVE Spread'
  <2> SUFFICES ASSUME NEW x \in Node, NEW q \in Node, NEW k \in Msg, Lacks(x, q, k)'
               PROVE  Explained(x, q, ChannelOf[k], k)'
    BY DEF Spread
  <2>1. Explained(x, q, ChannelOf[k], k) /\ up[x][q]
    BY <1>1, <1>7 DEF Spread, Lacks, Lacking
  <2>4. k \in untold[x][q] => k \in untold'[x][q] \/ notices'[q][x][ChannelOf[k]] > 0
    BY <1>2
  <2>2. ChannelOf[k] \in Channel
    BY Constants
  <2>3. \A r \in Node \ {q} : fired[x][r] = ChannelOf[k] =>
          fired'[x][r] = ChannelOf[k] \/ notices'[q][x][ChannelOf[k]] > 0
    BY <1>2, <1>3, <2>1
  <2> QED
    BY <1>1, <1>2, <1>5, <2>1, <2>2, <2>3, <2>4, StaysExplained
<1> QED
  BY <1>3, <1>5, <1>6, <1>7

-----------------------------------------------------------------------------
(* Calls of synchronize() *)

LEMMA AgentTypes ==
  ASSUME TypeOK, NEW n \in Node, NEW p \in Node, NEW c \in Channel
  PROVE  agent[n][p][c] \in State /\ syncs[n][p][c] \in SUBSET Call
BY DEF TypeOK, State, Call

LEMMA CallTypes ==
  ASSUME TypeOK, NEW n \in Node, NEW p \in Node, NEW c \in Channel, FreeSlots(syncs[n][p][c]) # {}
  PROVE  /\ StateAfterCall(agent[n][p][c]) \in State
         /\ SyncsAfterCall(agent[n][p][c], syncs[n][p][c]) \in SUBSET Call
<1>1. agent[n][p][c] \in State /\ syncs[n][p][c] \in SUBSET Call
  BY AgentTypes
<1> QED
  BY <1>1, CallEffect

(* A call of one agent, where it has room for one more sync. *)
LEMMA OneCall ==
  ASSUME TypeOK, NEW n \in Node, NEW p \in Node, NEW c \in Channel,
         up'[n][p], c \in has'[n], FreeSlots(syncs[n][p][c]) # {},
         agent' = [agent EXCEPT ![n][p][c] = StateAfterCall(@)],
         syncs' = [syncs EXCEPT ![n][p][c] = SyncsAfterCall(agent[n][p][c], @)]
  PROVE  /\ agent' \in [Node -> [Node -> [Channel -> State]]]
         /\ syncs' \in [Node -> [Node -> [Channel -> SUBSET Call]]]
         /\ Called(n, p, c)
         /\ \A x, y \in Node, d \in Channel : (x = n /\ y = p /\ d = c) \/ Same(x, y, d)
<1>1. /\ agent \in [Node -> [Node -> [Channel -> State]]]
      /\ syncs \in [Node -> [Node -> [Channel -> SUBSET Call]]]
  BY DEF TypeOK, State, Call
<1>2. /\ StateAfterCall(agent[n][p][c]) \in State
      /\ SyncsAfterCall(agent[n][p][c], syncs[n][p][c]) \in SUBSET Call
  BY CallTypes
<1>3. agent' \in [Node -> [Node -> [Channel -> State]]]
  BY <1>1, <1>2
<1>4. syncs' \in [Node -> [Node -> [Channel -> SUBSET Call]]]
  BY <1>1, <1>2
<1>5. Called(n, p, c)
  BY <1>1 DEF Called
<1>6. \A x, y \in Node, d \in Channel : (x = n /\ y = p /\ d = c) \/ Same(x, y, d)
  BY <1>1 DEF Same
<1> QED
  BY <1>3, <1>4, <1>5, <1>6

LEMMA AddChannelStep ==
  ASSUME GossipInv, NEW n \in Node, NEW c \in Channel, AddChannel(n, c)
  PROVE  GossipInv' /\ (Spread => Spread')
<1> USE DEF GossipInv
<1>1. /\ UNCHANGED <<store, posted, up, drops, agent, syncs, notices, fired, untold>>
      /\ c \notin has[n] /\ has' = [has EXCEPT ![n] = @ \cup {c}]
      /\ saving' = [saving EXCEPT ![n] = @ \cup {c}]
  BY DEF AddChannel, peers, agents
<1>2. /\ TypeOK' /\ Owned'
      /\ \A x \in Node : has[x] \subseteq has'[x] /\ saving[x] \subseteq saving'[x]
      /\ \A x \in Node : \A d \in has'[x] : d \in has[x] \/ d \in saving'[x]
  BY <1>1 DEF TypeOK, Owned
<1>3. \A x, y \in Node, d \in Channel : Same(x, y, d)
  BY <1>1 DEF Same
<1>4. Peered' /\ Carried' /\ PendingRuns' /\ OneEnd' /\ \A x, y \in Node, d \in Channel : Grows(x, y, d)
  BY <1>1, <1>2, <1>3, CallsKeep
<1>5. ASSUME Spread PROVE Spread'
  <2> SUFFICES ASSUME NEW x \in Node, NEW y \in Node, NEW k \in Msg, Lacks(x, y, k)'
               PROVE  Explained(x, y, ChannelOf[k], k)'
    BY DEF Spread
  <2>1. Explained(x, y, ChannelOf[k], k) /\ ChannelOf[k] \in Channel
    BY <1>1, <1>2, <1>5, Constants DEF Spread, Lacks, Lacking
  <2> QED
    BY <1>1, <1>4, <2>1, StaysExplained
<1> QED
  BY <1>2, <1>4, <1>5

LEMMA ChannelSavedStep ==
  ASSUME GossipInv, NEW n \in Node, NEW c \in Channel, ChannelSaved(n, c)
  PROVE  GossipInv' /\ (Spread => Spread')
<1> USE DEF GossipInv
<1>1. /\ UNCHANGED <<has, store, posted, up, drops, notices, fired, untold>>
      /\ c \in saving[n] /\ saving' = [saving EXCEPT ![n] = @ \ {c}]
  BY DEF ChannelSaved, peers
<1>2. \A p \in Node : up[n][p] => FreeSlots(syncs[n][p][c]) # {}
  BY DEF ChannelSaved
<1>3. /\ saving' \in [Node -> SUBSET Channel] /\ c \in has'[n]
      /\ \A x \in Node : saving'[x] \subseteq saving[x]
      /\ \A x \in Node : \A d \in saving[x] : d \in saving'[x] \/ (x = n /\ d = c)
  BY <1>1 DEF TypeOK, Owned
<1>4. /\ agent \in [Node -> [Node -> [Channel -> State]]]
      /\ syncs \in [Node -> [Node -> [Channel -> SUBSET Call]]]
  BY DEF TypeOK, State, Call
<1>5. ASSUME NEW p \in Node, up[n][p]
      PROVE  /\ StateAfterCall(agent[n][p][c]) \in State
             /\ SyncsAfterCall(agent[n][p][c], syncs[n][p][c]) \in SUBSET Call
  <2>1. FreeSlots(syncs[n][p][c]) # {}
    BY <1>2, <1>5
  <2> QED
    BY <2>1, CallTypes
<1>6. agent' \in [Node -> [Node -> [Channel -> State]]]
      /\ \A x, y \in Node, d \in Channel :
           agent'[x][y][d] = IF x = n /\ d = c /\ up[n][y] THEN StateAfterCall(agent[n][y][c])
                             ELSE agent[x][y][d]
  <2> DEFINE row == [p \in Node |-> [d \in Channel |->
               IF d = c /\ up[n][p] THEN StateAfterCall(agent[n][p][d]) ELSE agent[n][p][d]]]
  <2>1. agent' = [agent EXCEPT ![n] = row]
    BY <1>4 DEF ChannelSaved
  <2>2. row \in [Node -> [Channel -> State]]
    BY <1>4, <1>5
  <2>3. \A y \in Node, d \in Channel :
          row[y][d] = IF d = c /\ up[n][y] THEN StateAfterCall(agent[n][y][c]) ELSE agent[n][y][d]
    OBVIOUS
  <2> HIDE DEF row
  <2> QED
    BY <1>4, <2>1, <2>2, <2>3
<1>7. syncs' \in [Node -> [Node -> [Channel -> SUBSET Call]]]
      /\ \A x, y \in Node, d \in Channel :
           syncs'[x][y][d] = IF x = n /\ d = c /\ up[n][y]
                             THEN SyncsAfterCall(agent[n][y][c], syncs[n][y][c]) ELSE syncs[x][y][d]
  <2> DEFINE row == [p \in Node |-> [d \in Channel |->
               IF d = c /\ up[n][p] THEN SyncsAfterCall(agent[n][p][d], syncs[n][p][d])
               ELSE syncs[n][p][d]]]
  <2>1. syncs' = [syncs EXCEPT ![n] = row]
    BY <1>4 DEF ChannelSaved
  <2>2. row \in [Node -> [Channel -> SUBSET Call]]
    BY <1>4, <1>5
  <2>3. \A y \in Node, d \in Channel :
          row[y][d] = IF d = c /\ up[n][y] THEN SyncsAfterCall(agent[n][y][c], syncs[n][y][c])
                      ELSE syncs[n][y][d]
    OBVIOUS
  <2> HIDE DEF row
  <2> QED
    BY <1>4, <2>1, <2>2, <2>3
<1>8. TypeOK'
  BY <1>1, <1>3, <1>6, <1>7 DEF TypeOK, State, Call
<1>9. \A x, y \in Node, d \in Channel :
        IF x = n /\ d = c /\ up[n][y] THEN Called(x, y, d) ELSE Same(x, y, d)
  <2> SUFFICES ASSUME NEW x \in Node, NEW y \in Node, NEW d \in Channel
               PROVE  IF x = n /\ d = c /\ up[n][y] THEN Called(x, y, d) ELSE Same(x, y, d)
    OBVIOUS
  <2>1. CASE x = n /\ d = c /\ up[n][y]
    <3>1. FreeSlots(syncs[x][y][d]) # {} /\ up'[x][y] /\ d \in has'[x]
      BY <1>1, <1>2, <1>3, <2>1
    <3> QED
      BY <1>6, <1>7, <2>1, <3>1 DEF Called
  <2>2. CASE ~(x = n /\ d = c /\ up[n][y])
    BY <1>6, <1>7, <2>2 DEF Same
  <2> QED
    BY <2>1, <2>2
<1>10. Peered' /\ Carried' /\ PendingRuns' /\ OneEnd' /\ \A x, y \in Node, d \in Channel : Grows(x, y, d)
  <2>1. \A x, y \in Node, d \in Channel :
          up'[x][y] /\ ~up'[y][x] =>
            /\ ~up[y][x]
            /\ d \in has'[x] \ saving'[x] => (up[x][y] /\ d \in has[x] \ saving[x]) \/ Called(x, y, d)
    BY <1>1, <1>3, <1>9
  <2> QED
    BY <1>1, <1>3, <1>9, <2>1, CallsKeep
<1>11. Owned'
  BY <1>1, <1>3 DEF Owned
<1>12. ASSUME Spread PROVE Spread'
  <2> SUFFICES ASSUME NEW x \in Node, NEW y \in Node, NEW k \in Msg, Lacks(x, y, k)'
               PROVE  Explained(x, y, ChannelOf[k], k)'
    BY DEF Spread
  <2>1. ChannelOf[k] \in Channel /\ up[y][x] /\ ChannelOf[k] \in has[y] \ saving'[y]
    BY <1>1, Constants DEF Lacks, Lacking
  <2>2. CASE ChannelOf[k] \notin saving[y]
    <3>1. Explained(x, y, ChannelOf[k], k)
      BY <1>1, <1>12, <2>2 DEF Spread, Lacks, Lacking
    <3> QED
      BY <1>1, <1>10, <2>1, <3>1, StaysExplained
  <2>3. CASE y = n /\ ChannelOf[k] = c
    <3>1. Called(y, x, c) /\ Grows(y, x, c)
      BY <1>9, <1>10, <2>1, <2>3
    <3> QED
      BY <2>3, <3>1 DEF Grows, Explained, UnderWay, ByCall
  <2> QED
    BY <1>3, <2>1, <2>2, <2>3
<1> QED
  BY <1>8, <1>10, <1>11, <1>12

LEMMA ConnectStep ==
  ASSUME GossipInv, NEW n \in Node, NEW p \in Node, Connect(n, p)
  PROVE  GossipInv' /\ (Spread => Spread')
<1> USE DEF GossipInv
<1>1. /\ UNCHANGED <<has, saving, store, posted, drops, notices, fired, untold>>
      /\ <<n, p>> \in Link /\ n # p /\ ~up[n][p] /\ up' = [up EXCEPT ![n][p] = TRUE]
  BY Constants DEF Connect, content
<1>2. \A c \in Channel : syncs[n][p][c] = {} /\ FreeSlots(syncs[n][p][c]) # {}
  BY <1>1, AllFree DEF Peered
<1>3. up' \in [Node -> [Node -> BOOLEAN]] /\ up'[n][p]
      /\ \A x, y \in Node : (x = n /\ y = p) \/ up'[x][y] = up[x][y]
  BY <1>1 DEF TypeOK
<1>4. /\ agent \in [Node -> [Node -> [Channel -> State]]]
      /\ syncs \in [Node -> [Node -> [Channel -> SUBSET Call]]]
  BY DEF TypeOK, State, Call
<1>5. ASSUME NEW c \in Channel
      PROVE  /\ StateAfterCall(agent[n][p][c]) \in State
             /\ SyncsAfterCall(agent[n][p][c], syncs[n][p][c]) \in SUBSET Call
  <2>1. FreeSlots(syncs[n][p][c]) # {}
    BY <1>2
  <2> QED
    BY <2>1, CallTypes
<1>6. agent' \in [Node -> [Node -> [Channel -> State]]]
      /\ \A x, y \in Node, d \in Channel :
           agent'[x][y][d] = IF x = n /\ y = p /\ d \in has[n] THEN StateAfterCall(agent[n][p][d])
                             ELSE agent[x][y][d]
  <2> DEFINE row == [d \in Channel |-> IF d \in has[n] THEN StateAfterCall(agent[n][p][d]) ELSE agent[n][p][d]]
  <2>1. agent' = [agent EXCEPT ![n][p] = row]
    BY <1>4 DEF Connect
  <2>2. row \in [Channel -> State]
    BY <1>4, <1>5
  <2>3. \A d \in Channel : row[d] = IF d \in has[n] THEN StateAfterCall(agent[n][p][d]) ELSE agent[n][p][d]
    OBVIOUS
  <2> HIDE DEF row
  <2> QED
    BY <1>4, <2>1, <2>2, <2>3
<1>7. syncs' \in [Node -> [Node -> [Channel -> SUBSET Call]]]
      /\ \A x, y \in Node, d \in Channel :
           syncs'[x][y][d] = IF x = n /\ y = p /\ d \in has[n]
                             THEN SyncsAfterCall(agent[n][p][d], syncs[n][p][d]) ELSE syncs[x][y][d]
  <2> DEFINE row == [d \in Channel |->
               IF d \in has[n] THEN SyncsAfterCall(agent[n][p][d], syncs[n][p][d]) ELSE syncs[n][p][d]]
  <2>1. syncs' = [syncs EXCEPT ![n][p] = row]
    BY <1>4 DEF Connect
  <2>2. row \in [Channel -> SUBSET Call]
    BY <1>4, <1>5
  <2>3. \A d \in Channel : row[d] = IF d \in has[n] THEN SyncsAfterCall(agent[n][p][d], syncs[n][p][d])
                                     ELSE syncs[n][p][d]
    OBVIOUS
  <2> HIDE DEF row
  <2> QED
    BY <1>4, <2>1, <2>2, <2>3
<1>8. TypeOK'
  BY <1>1, <1>3, <1>6, <1>7 DEF TypeOK, State, Call
<1>9. \A x, y \in Node, d \in Channel :
        IF x = n /\ y = p /\ d \in has[n] THEN Called(x, y, d) ELSE Same(x, y, d)
  <2> SUFFICES ASSUME NEW x \in Node, NEW y \in Node, NEW d \in Channel
               PROVE  IF x = n /\ y = p /\ d \in has[n] THEN Called(x, y, d) ELSE Same(x, y, d)
    OBVIOUS
  <2>1. CASE x = n /\ y = p /\ d \in has[n]
    <3>1. FreeSlots(syncs[x][y][d]) # {} /\ up'[x][y] /\ d \in has'[x]
      BY <1>1, <1>2, <1>3, <2>1
    <3> QED
      BY <1>6, <1>7, <2>1, <3>1 DEF Called
  <2>2. CASE ~(x = n /\ y = p /\ d \in has[n])
    BY <1>6, <1>7, <2>2 DEF Same
  <2> QED
    BY <2>1, <2>2
<1>10. Peered' /\ Carried' /\ PendingRuns' /\ OneEnd' /\ \A x, y \in Node, d \in Channel : Grows(x, y, d)
  <2>1. \A x, y \in Node : (up[x][y] => up'[x][y]) /\ (up'[x][y] => up[x][y] \/ <<x, y>> \in Link)
    BY <1>1, <1>3
  <2>2. \A x, y \in Node, d \in Channel :
          up'[x][y] /\ ~up'[y][x] =>
            /\ ~up[y][x]
            /\ d \in has'[x] \ saving'[x] => (up[x][y] /\ d \in has[x] \ saving[x]) \/ Called(x, y, d)
    BY <1>1, <1>3, <1>9
  <2> QED
    BY <1>1, <1>9, <2>1, <2>2, CallsKeep
<1>11. Owned'
  BY <1>1 DEF Owned
<1>12. ASSUME Spread PROVE Spread'
  <2> SUFFICES ASSUME NEW x \in Node, NEW y \in Node, NEW k \in Msg, Lacks(x, y, k)'
               PROVE  Explained(x, y, ChannelOf[k], k)'
    BY DEF Spread
  <2>1. ChannelOf[k] \in Channel /\ k \in store[x] \ store[y] /\ ChannelOf[k] \in has[y] \ saving[y]
    BY <1>1, Constants DEF Lacks, Lacking
  <2>2. CASE x = n /\ y = p
    <3>1. up[y][x] /\ ~up[x][y]
      BY <1>1, <1>3, <2>2 DEF Lacks
    <3>2. PICK s \in syncs[y][x][ChannelOf[k]] : s.phase = "asking"
      BY <2>1, <3>1 DEF OneEnd
    <3>3. s \in syncs'[y][x][ChannelOf[k]]
      BY <1>10, <2>1, <3>2 DEF Grows
    <3> QED
      BY <3>2, <3>3 DEF Explained, UnderWay, ByCall
  <2>3. CASE y = n /\ x = p
    <3>1. Called(y, x, ChannelOf[k]) /\ Grows(y, x, ChannelOf[k])
      BY <1>9, <1>10, <2>1, <2>3
    <3> QED
      BY <3>1 DEF Grows, Explained, UnderWay, ByCall
  <2>4. CASE ~(x = n /\ y = p) /\ ~(y = n /\ x = p)
    <3>1. up[x][y] /\ up[y][x]
      BY <1>3, <2>4 DEF Lacks
    <3>2. Explained(x, y, ChannelOf[k], k)
      BY <1>12, <2>1, <3>1 DEF Spread, Lacks, Lacking
    <3> QED
      BY <1>1, <1>10, <2>1, <3>2, StaysExplained
  <2> QED
    BY <2>2, <2>3, <2>4
<1> QED
  BY <1>8, <1>10, <1>11, <1>12

LEMMA OnNotificationStep ==
  ASSUME GossipInv, NEW n \in Node, NEW p \in Node, NEW c \in Channel, OnNotification(n, p, c)
  PROVE  GossipInv' /\ (Spread => Spread')
<1> USE DEF GossipInv
<1>1. /\ UNCHANGED <<has, saving, store, posted, up, drops, fired, untold>>
      /\ up[n][p] /\ notices[n][p][c] > 0 /\ FreeSlots(syncs[n][p][c]) # {}
      /\ notices' = [notices EXCEPT ![n][p][c] = @ - 1]
  BY DEF OnNotification, content, peers, Taken
<1>2. /\ notices' \in [Node -> [Node -> [Channel -> Nat]]]
      /\ \A x, y \in Node, d \in Channel : (x = n /\ y = p /\ d = c) \/ notices'[x][y][d] = notices[x][y][d]
  BY <1>1 DEF TypeOK
<1>3. /\ agent' \in [Node -> [Node -> [Channel -> State]]]
      /\ syncs' \in [Node -> [Node -> [Channel -> SUBSET Call]]]
      /\ c \in has[n] => Called(n, p, c)
      /\ \A x, y \in Node, d \in Channel : (x = n /\ y = p /\ d = c /\ c \in has[n]) \/ Same(x, y, d)
  <2>1. CASE c \in has[n]
    <3>1. /\ agent' = [agent EXCEPT ![n][p][c] = StateAfterCall(@)]
          /\ syncs' = [syncs EXCEPT ![n][p][c] = SyncsAfterCall(agent[n][p][c], @)]
      BY <2>1 DEF OnNotification
    <3>2. up'[n][p] /\ c \in has'[n]
      BY <1>1, <2>1
    <3> QED
      BY <1>1, <2>1, <3>1, <3>2, OneCall
  <2>2. CASE c \notin has[n]
    <3>1. UNCHANGED <<agent, syncs>>
      BY <2>2 DEF OnNotification, agents
    <3> QED
      BY <2>2, <3>1 DEF TypeOK, Same, State, Call
  <2> QED
    BY <2>1, <2>2
<1>4. TypeOK'
  BY <1>1, <1>2, <1>3 DEF TypeOK, State, Call
<1>5. Peered' /\ Carried' /\ PendingRuns' /\ OneEnd' /\ \A x, y \in Node, d \in Channel : Grows(x, y, d)
  <2>1. \A x, y \in Node, d \in Channel : Same(x, y, d) \/ Called(x, y, d)
    BY <1>3
  <2> QED
    BY <1>1, <2>1, CallsKeep
<1>6. Owned'
  BY <1>1 DEF Owned
<1>7. ASSUME Spread PROVE Spread'
  <2> SUFFICES ASSUME NEW x \in Node, NEW y \in Node, NEW k \in Msg, Lacks(x, y, k)'
               PROVE  Explained(x, y, ChannelOf[k], k)'
    BY DEF Spread
  <2>1. Explained(x, y, ChannelOf[k], k) /\ ChannelOf[k] \in has[y] /\ ChannelOf[k] \in Channel
    BY <1>1, <1>7, Constants DEF Spread, Lacks, Lacking
  <2>2. notices[y][x][ChannelOf[k]] > 0 => notices'[y][x][ChannelOf[k]] > 0 \/ Called(y, x, ChannelOf[k])
    BY <1>2, <1>3, <2>1
  <2> QED
    BY <1>1, <1>5, <2>1, <2>2, StaysExplained
<1> QED
  BY <1>4, <1>5, <1>6, <1>7

-----------------------------------------------------------------------------
(* Steps of a running sync *)

(* Of one sync: it goes on as the syncs in more, of which there is at most one. *)
Moves(n, p, c, s, more) ==
  /\ syncs' \in [Node -> [Node -> [Channel -> SUBSET Call]]]
  /\ syncs'[n][p][c] = (syncs[n][p][c] \ {s}) \cup more
  /\ \A x, y \in Node, d \in Channel : (x = n /\ y = p /\ d = c) \/ syncs'[x][y][d] = syncs[x][y][d]

LEMMA SyncMoves ==
  ASSUME GossipInv, NEW n \in Node, NEW p \in Node, NEW c \in Channel,
         NEW s \in syncs[n][p][c], NEW more \in SUBSET Call,
         Moves(n, p, c, s, more), UNCHANGED <<has, saving, up>>,
         \A x \in Node : store[x] \subseteq store'[x],
         \A t \in more : t.got \subseteq store[p] \cap InChannel(c) /\ (t.phase # "received" => t.got = {}),
         \A x, y \in Node : fired'[x][y] = fired[x][y] \/ (x = n /\ y = p),
         s.phase # "asking" \/ up[p][n]
  PROVE  /\ Peered' /\ Carried' /\ OneEnd'
         /\ more \subseteq syncs'[n][p][c]
         /\ \A x, y \in Node, d \in Channel : \A t \in syncs[x][y][d] :
              t \in syncs'[x][y][d] \/ (x = n /\ y = p /\ d = c /\ t = s)
<1> USE DEF GossipInv
<1>1. /\ syncs'[n][p][c] = (syncs[n][p][c] \ {s}) \cup more
      /\ \A x, y \in Node, d \in Channel : (x = n /\ y = p /\ d = c) \/ syncs'[x][y][d] = syncs[x][y][d]
  BY DEF Moves
<1>2. /\ more \subseteq syncs'[n][p][c]
      /\ \A x, y \in Node, d \in Channel : \A t \in syncs[x][y][d] :
           t \in syncs'[x][y][d] \/ (x = n /\ y = p /\ d = c /\ t = s)
  BY <1>1
<1>3. Peered'
  <2>1. up[n][p] /\ c \in has[n]
    BY DEF Peered
  <2> SUFFICES ASSUME NEW x \in Node, NEW y \in Node
               PROVE  /\ up'[x][y] => <<x, y>> \in Link
                      /\ fired'[x][y] # None => up'[x][y]
                      /\ \A d \in Channel : syncs'[x][y][d] # {} => up'[x][y] /\ d \in has'[x]
    BY DEF Peered
  <2>2. /\ up[x][y] => <<x, y>> \in Link
        /\ fired[x][y] # None => up[x][y]
        /\ \A d \in Channel : syncs[x][y][d] # {} => up[x][y] /\ d \in has[x]
    BY DEF Peered
  <2>3. fired'[x][y] # None => up[x][y]
    BY <2>1, <2>2
  <2>4. \A d \in Channel : syncs'[x][y][d] # {} => up[x][y] /\ d \in has[x]
    BY <1>1, <2>1, <2>2
  <2> QED
    BY <2>2, <2>3, <2>4
<1>4. Carried'
  <2> SUFFICES ASSUME NEW x \in Node, NEW y \in Node, NEW d \in Channel, NEW t \in syncs'[x][y][d]
               PROVE  t.got \subseteq store'[y] \cap InChannel(d) /\ (t.phase # "received" => t.got = {})
    BY DEF Carried, InChannel
  <2>1. t \in syncs[x][y][d] \/ (x = n /\ y = p /\ d = c /\ t \in more)
    BY <1>1
  <2>2. t.got \subseteq store[y] \cap InChannel(d) /\ (t.phase # "received" => t.got = {})
    BY <2>1 DEF Carried
  <2> QED
    BY <2>2
<1>5. OneEnd'
  <2>1. up[n][p] /\ up[p][n]
    <3>1. up[n][p]
      BY DEF Peered
    <3>2. s.phase # "asking" => up[p][n]
      BY <3>1 DEF OneEnd
    <3> QED
      BY <3>1, <3>2
  <2> QED
    BY <1>1, <2>1 DEF OneEnd
<1> QED
  BY <1>2, <1>3, <1>4, <1>5

LEMMA AnswerStep ==
  ASSUME GossipInv, NEW n \in Node, NEW p \in Node, NEW c \in Channel,
         NEW s \in syncs[n][p][c], Answer(n, p, c, s)
  PROVE  GossipInv' /\ (Spread => Spread')
<1> USE DEF GossipInv
<1> DEFINE got == IF c \in has[p] THEN store[p] \cap InChannel(c) ELSE {}
           new == [s EXCEPT !.phase = "received", !.got = got]
<1>1. /\ UNCHANGED <<has, saving, store, posted, up, drops, agent, notices, fired, untold>>
      /\ s.phase = "asking" /\ up[p][n]
      /\ syncs' = [syncs EXCEPT ![n][p][c] = (@ \ {s}) \cup {new}]
  BY DEF Answer, Replace, content, peers
<1>2. s \in Call /\ got \in SUBSET Msg /\ got \subseteq store[p] \cap InChannel(c)
  BY DEF TypeOK, Call
<1>3. s.got = {} /\ (c \in has[p] => got = store[p] \cap InChannel(c))
  BY <1>1 DEF Carried
<1>4. new \in Call /\ new.phase = "received" /\ new.got = got /\ new.delta = s.delta
  <2> HIDE DEF got
  <2> QED
    BY <1>2 DEF Call, Phase
<1> HIDE DEF got, new
<1>5. /\ syncs' \in [Node -> [Node -> [Channel -> SUBSET Call]]]
      /\ Peered' /\ Carried' /\ OneEnd'
      /\ new \in syncs'[n][p][c]
      /\ \A x, y \in Node, d \in Channel : \A t \in syncs[x][y][d] :
           t \in syncs'[x][y][d] \/ (x = n /\ y = p /\ d = c /\ t = s)
  <2> DEFINE more == {new}
  <2>0. Moves(n, p, c, s, more)
    BY <1>1, <1>4 DEF Moves, TypeOK, Call
  <2>1. /\ more \in SUBSET Call
        /\ \A t \in more : t.got \subseteq store[p] \cap InChannel(c) /\ (t.phase # "received" => t.got = {})
    BY <1>1, <1>2, <1>4
  <2>2. /\ \A x \in Node : store[x] \subseteq store'[x]
        /\ \A x, y \in Node : fired'[x][y] = fired[x][y] \/ (x = n /\ y = p)
    BY <1>1
  <2>3. /\ Peered' /\ Carried' /\ OneEnd'
        /\ more \subseteq syncs'[n][p][c]
        /\ \A x, y \in Node, d \in Channel : \A t \in syncs[x][y][d] :
             t \in syncs'[x][y][d] \/ (x = n /\ y = p /\ d = c /\ t = s)
    <3> HIDE DEF more
    <3> QED
      BY <1>1, <2>0, <2>1, <2>2, SyncMoves
  <2> QED
    BY <2>0, <2>3 DEF Moves
<1>6. TypeOK'
  BY <1>1, <1>5 DEF TypeOK, Call
<1>7. PendingRuns'
  <2> SUFFICES ASSUME NEW x \in Node, NEW y \in Node, NEW d \in Channel, agent[x][y][d] = "pending"
               PROVE  syncs'[x][y][d] # {}
    BY <1>1 DEF PendingRuns
  <2>1. PICK t \in syncs[x][y][d] : TRUE
    BY DEF PendingRuns
  <2> QED
    BY <1>5, <2>1
<1>8. Owned'
  BY <1>1 DEF Owned
<1>9. ASSUME Spread PROVE Spread'
  <2> SUFFICES ASSUME NEW x \in Node, NEW y \in Node, NEW k \in Msg, Lacks(x, y, k)'
               PROVE  Explained(x, y, ChannelOf[k], k)'
    BY DEF Spread
  <2>1. Explained(x, y, ChannelOf[k], k) /\ k \in store[x] /\ ChannelOf[k] \in Channel
    BY <1>1, <1>9, Constants DEF Spread, Lacks, Lacking
  <2>2. ByCall(x, y, ChannelOf[k], k) => ByCall(x, y, ChannelOf[k], k)'
    <3> SUFFICES ASSUME NEW t \in syncs[y][x][ChannelOf[k]], t.phase = "asking" \/ k \in t.got
                 PROVE  \E u \in syncs'[y][x][ChannelOf[k]] : u.phase = "asking" \/ k \in u.got
      BY <1>1 DEF ByCall
    <3>1. CASE t \in syncs'[y][x][ChannelOf[k]]
      BY <3>1
    <3>2. CASE y = n /\ x = p /\ ChannelOf[k] = c
      <4>1. k \in got
        BY <1>3, <2>1, <3>2 DEF Owned, InChannel
      <4> QED
        BY <1>4, <1>5, <3>2, <4>1
    <3> QED
      BY <1>5, <2>1, <3>1, <3>2
  <2>3. ByOther(x, y, ChannelOf[k], k) => ByOther(x, y, ChannelOf[k], k)'
    BY <1>1, <1>4, <1>5, <2>1 DEF ByOther
  <2> QED
    BY <1>1, <2>1, <2>2, <2>3 DEF Explained, UnderWay
<1> QED
  BY <1>5, <1>6, <1>7, <1>8, <1>9

LEMMA KeepStep ==
  ASSUME GossipInv, NEW n \in Node, NEW p \in Node, NEW c \in Channel,
         NEW s \in syncs[n][p][c], Keep(n, p, c, s)
  PROVE  GossipInv' /\ (Spread => Spread')
<1> USE DEF GossipInv
<1> DEFINE new == [s EXCEPT !.phase = "stored", !.got = {}, !.delta = @ \cup Gained(n, s)]
<1>1. /\ UNCHANGED <<has, saving, posted, up, drops, agent, notices, fired, untold>>
      /\ s.phase = "received"
      /\ store' = [store EXCEPT ![n] = @ \cup s.got]
      /\ syncs' = [syncs EXCEPT ![n][p][c] = (@ \ {s}) \cup {new}]
  BY DEF Keep, Replace, peers
<1>2. s \in Call /\ s.got \subseteq store[p] \cap InChannel(c)
  <2>1. s \in Call
    BY DEF TypeOK, Call
  <2>2. s.got \subseteq store[p] \cap InChannel(c)
    BY DEF Carried
  <2> QED
    BY <2>1, <2>2
<1>3. /\ new \in Call /\ new.phase = "stored" /\ new.got = {}
      /\ s.delta \subseteq new.delta
      /\ s.got \ store[n] \subseteq new.delta
  BY <1>2 DEF Call, Phase, Gained
<1> HIDE DEF new
<1>4. /\ store' \in [Node -> SUBSET Msg]
      /\ \A x \in Node : store[x] \subseteq store'[x]
      /\ \A x \in Node : \A k \in store'[x] : k \in store[x] \/ (x = n /\ k \in s.got)
      /\ s.got \subseteq store'[n]
  BY <1>1, <1>2 DEF TypeOK, Call
<1>5. /\ syncs' \in [Node -> [Node -> [Channel -> SUBSET Call]]]
      /\ Peered' /\ Carried' /\ OneEnd'
      /\ new \in syncs'[n][p][c]
      /\ \A x, y \in Node, d \in Channel : \A t \in syncs[x][y][d] :
           t \in syncs'[x][y][d] \/ (x = n /\ y = p /\ d = c /\ t = s)
  <2> DEFINE more == {new}
  <2>0. Moves(n, p, c, s, more)
    BY <1>1, <1>3 DEF Moves, TypeOK, Call
  <2>1. /\ more \in SUBSET Call
        /\ \A t \in more : t.got \subseteq store[p] \cap InChannel(c) /\ (t.phase # "received" => t.got = {})
    BY <1>1, <1>3
  <2>2. \A x, y \in Node : fired'[x][y] = fired[x][y] \/ (x = n /\ y = p)
    BY <1>1
  <2>3. s.phase # "asking"
    BY <1>1
  <2>4. /\ Peered' /\ Carried' /\ OneEnd'
        /\ more \subseteq syncs'[n][p][c]
        /\ \A x, y \in Node, d \in Channel : \A t \in syncs[x][y][d] :
             t \in syncs'[x][y][d] \/ (x = n /\ y = p /\ d = c /\ t = s)
    <3> HIDE DEF more
    <3> QED
      BY <1>1, <1>4, <2>0, <2>1, <2>2, <2>3, SyncMoves
  <2> QED
    BY <2>0, <2>4 DEF Moves
<1>6. TypeOK'
  BY <1>1, <1>4, <1>5 DEF TypeOK, Call
<1>7. PendingRuns'
  <2> SUFFICES ASSUME NEW x \in Node, NEW y \in Node, NEW d \in Channel, agent[x][y][d] = "pending"
               PROVE  syncs'[x][y][d] # {}
    BY <1>1 DEF PendingRuns
  <2>1. PICK t \in syncs[x][y][d] : TRUE
    BY DEF PendingRuns
  <2> QED
    BY <1>5, <2>1
<1>8. Owned'
  <2>1. c \in has[n]
    BY DEF Peered
  <2> QED
    BY <1>1, <1>2, <1>4, <2>1 DEF Owned, InChannel
<1>9. ASSUME Spread PROVE Spread'
  <2> SUFFICES ASSUME NEW x \in Node, NEW y \in Node, NEW k \in Msg, Lacks(x, y, k)'
               PROVE  Explained(x, y, ChannelOf[k], k)'
    BY DEF Spread
  <2>1. /\ ChannelOf[k] \in Channel /\ k \in store'[x] /\ k \notin store'[y] /\ k \notin store[y]
        /\ up[x][y] /\ up[y][x] /\ ChannelOf[k] \in has[y] \ saving[y]
    BY <1>1, <1>4, Constants DEF Lacks, Lacking
  <2>2. CASE k \in store[x]
    <3>1. Explained(x, y, ChannelOf[k], k)
      BY <1>9, <2>1, <2>2 DEF Spread, Lacks, Lacking
    <3>2. ByCall(x, y, ChannelOf[k], k) => ByCall(x, y, ChannelOf[k], k)'
      BY <1>1, <1>4, <1>5, <2>1 DEF ByCall
    <3>3. ByOther(x, y, ChannelOf[k], k) => ByOther(x, y, ChannelOf[k], k)'
      BY <1>1, <1>3, <1>5, <2>1 DEF ByOther
    <3> QED
      BY <1>1, <3>1, <3>2, <3>3 DEF Explained, UnderWay
  <2>3. CASE k \notin store[x]
    <3>1. x = n /\ k \in s.got
      BY <1>4, <2>1, <2>3
    <3>2. ChannelOf[k] = c /\ p # y /\ k \in new.delta
      BY <1>2, <1>3, <2>1, <2>3, <3>1 DEF InChannel
    <3>3. ByOther(x, y, ChannelOf[k], k)'
      BY <1>3, <1>5, <3>1, <3>2 DEF ByOther
    <3> QED
      BY <3>3 DEF Explained, UnderWay
  <2> QED
    BY <2>2, <2>3
<1> QED
  BY <1>5, <1>6, <1>7, <1>8, <1>9

LEMMA FinishStep ==
  ASSUME GossipInv, NEW n \in Node, NEW p \in Node, NEW c \in Channel,
         NEW s \in syncs[n][p][c], Finish(n, p, c, s)
  PROVE  GossipInv' /\ (Spread => Spread')
<1> USE DEF GossipInv
<1> DEFINE new == [Sync(s.slot) EXCEPT !.delta = s.delta]
           more == IF agent[n][p][c] = "pending" THEN {new} ELSE {}
           state == IF agent[n][p][c] = "pending" THEN "active" ELSE "idle"
<1>1. /\ UNCHANGED <<has, saving, store, posted, up, drops, notices>>
      /\ s.phase = "stored"
      /\ syncs' = [syncs EXCEPT ![n][p][c] = (@ \ {s}) \cup more]
      /\ agent' = [agent EXCEPT ![n][p][c] = state]
  <2>1. s.phase = "stored" /\ UNCHANGED <<has, saving, store, posted, up, drops, notices>>
    BY DEF Finish, content, peers
  <2>2. CASE agent[n][p][c] = "pending"
    BY <2>1, <2>2 DEF Finish, Restarts, StateAfterCall, StateAfterSync, Replace
  <2>3. CASE agent[n][p][c] # "pending"
    <3>1. (syncs[n][p][c] \ {s}) \cup {} = syncs[n][p][c] \ {s}
      OBVIOUS
    <3>2. syncs' = [syncs EXCEPT ![n][p][c] = @ \ {s}]
          /\ agent' = [agent EXCEPT ![n][p][c] = "idle"]
      BY <2>3 DEF Finish, Restarts, StateAfterSync
    <3> QED
      BY <2>1, <2>3, <3>1, <3>2
  <2> QED
    BY <2>2, <2>3
<1>2. s \in Call /\ s.got = {}
  <2>1. s \in Call
    BY DEF TypeOK, Call
  <2>2. s.got = {}
    BY <1>1 DEF Carried
  <2> QED
    BY <2>1, <2>2
<1>3. /\ fired' \in [Node -> [Node -> {None} \cup Channel]]
      /\ \A x, y \in Node : fired[x][y] # None => fired'[x][y] = fired[x][y]
      /\ \A x, y \in Node : fired'[x][y] = fired[x][y] \/ (x = n /\ y = p)
  <2>1. fired \in [Node -> [Node -> {None} \cup Channel]]
    BY DEF TypeOK
  <2>2. fired' = fired \/ (fired[n][p] = None /\ fired' = [fired EXCEPT ![n][p] = c])
    BY DEF Finish
  <2> QED
    BY <2>1, <2>2
<1>4. /\ untold' \in [Node -> [Node -> SUBSET Msg]]
      /\ \A x, y \in Node : untold[x][y] \subseteq untold'[x][y]
      /\ agent[n][p][c] # "pending" =>
           \A k \in s.delta : \/ fired'[n][p] = c
                            \/ \A y \in Node : up[n][y] /\ y # p => k \in untold'[n][y]
  <2>1. CASE agent[n][p][c] # "pending" /\ fired[n][p] \notin {None, c}
    <3>1. untold' = [untold EXCEPT ![n] = Untold(n, s.delta, p)]
      BY <2>1 DEF Finish, Restarts
    <3>2. /\ Untold(n, s.delta, p) \in [Node -> SUBSET Msg]
          /\ \A y \in Node : untold[n][y] \subseteq Untold(n, s.delta, p)[y]
          /\ \A y \in Node : up[n][y] /\ y # p => s.delta \subseteq Untold(n, s.delta, p)[y]
      BY <1>2, UntoldEffect DEF Call
    <3> QED
      BY <3>1, <3>2 DEF TypeOK
  <2>2. CASE ~(agent[n][p][c] # "pending" /\ fired[n][p] \notin {None, c})
    <3>1. untold' = untold
      BY <2>2 DEF Finish, Restarts
    <3>2. ASSUME agent[n][p][c] # "pending", NEW k \in s.delta PROVE fired'[n][p] = c
      BY <2>2, <3>2 DEF Finish, Restarts, TypeOK
    <3> QED
      BY <3>1, <3>2 DEF TypeOK
  <2> QED
    BY <2>1, <2>2
<1>5. new \in Call /\ new.phase = "asking" /\ new.got = {} /\ new.delta = s.delta
  BY <1>2 DEF Call, Phase, Sync
<1> HIDE DEF new
<1>6. /\ more \in SUBSET Call
      /\ \A t \in more : t.got \subseteq store[p] \cap InChannel(c) /\ (t.phase # "received" => t.got = {})
      /\ agent[n][p][c] = "pending" => new \in more
      /\ state \in {"active", "idle"}
  BY <1>5
<1> HIDE DEF more, state
<1>7. Moves(n, p, c, s, more)
  BY <1>1, <1>6 DEF Moves, TypeOK, Call
<1>8. /\ Peered' /\ Carried' /\ OneEnd'
      /\ more \subseteq syncs'[n][p][c]
      /\ \A x, y \in Node, d \in Channel : \A t \in syncs[x][y][d] :
           t \in syncs'[x][y][d] \/ (x = n /\ y = p /\ d = c /\ t = s)
  <2>1. s.phase # "asking" /\ UNCHANGED <<has, saving, up>>
    BY <1>1
  <2>2. /\ \A x \in Node : store[x] \subseteq store'[x]
        /\ \A x, y \in Node : fired'[x][y] = fired[x][y] \/ (x = n /\ y = p)
    BY <1>1, <1>3
  <2> QED
    BY <1>6, <1>7, <2>1, <2>2, SyncMoves
<1>9. /\ agent' \in [Node -> [Node -> [Channel -> State]]]
      /\ agent'[n][p][c] \in {"active", "idle"}
      /\ \A x, y \in Node, d \in Channel : (x = n /\ y = p /\ d = c) \/ agent'[x][y][d] = agent[x][y][d]
  BY <1>1, <1>6 DEF TypeOK, State
<1>10. TypeOK'
  BY <1>1, <1>3, <1>4, <1>7, <1>9 DEF TypeOK, Moves, Call, State
<1>11. PendingRuns'
  <2> SUFFICES ASSUME NEW x \in Node, NEW y \in Node, NEW d \in Channel, agent'[x][y][d] = "pending"
               PROVE  syncs'[x][y][d] # {}
    BY DEF PendingRuns
  <2>1. ~(x = n /\ y = p /\ d = c) /\ agent[x][y][d] = "pending"
    BY <1>9
  <2>2. PICK t \in syncs[x][y][d] : TRUE
    BY <2>1 DEF PendingRuns
  <2> QED
    BY <1>8, <2>1, <2>2
<1>12. Owned'
  BY <1>1 DEF Owned
<1>13. ASSUME Spread PROVE Spread'
  <2> SUFFICES ASSUME NEW x \in Node, NEW y \in Node, NEW k \in Msg, Lacks(x, y, k)'
               PROVE  Explained(x, y, ChannelOf[k], k)'
    BY DEF Spread
  <2> DEFINE d == ChannelOf[k]
  <2>1. Explained(x, y, d, k) /\ d \in Channel /\ up[x][y]
    BY <1>1, <1>13, Constants DEF Spread, Lacks, Lacking
  <2> HIDE DEF d
  <2>2. ByCall(x, y, d, k) => ByCall(x, y, d, k)'
    <3>1. CASE y = n /\ x = p /\ d = c /\ agent[n][p][c] = "pending"
      BY <1>5, <1>6, <1>8, <3>1 DEF ByCall
    <3>2. CASE y = n /\ x = p /\ d = c /\ agent[n][p][c] # "pending"
      BY <1>1, <1>2, <1>8, <3>2 DEF ByCall
    <3>3. CASE ~(y = n /\ x = p /\ d = c)
      BY <1>8, <1>9, <2>1, <3>3 DEF ByCall
    <3> QED
      BY <3>1, <3>2, <3>3
  <2>3. ASSUME ByOther(x, y, d, k) PROVE ByOther(x, y, d, k)' \/ k \in untold'[x][y]
    <3>1. PICK q \in Node \ {y} : fired[x][q] = d \/ \E t \in syncs[x][q][d] : k \in t.delta
      BY <2>3 DEF ByOther
    <3>2. CASE fired[x][q] = d
      <4>1. d # None
        BY <2>1, Constants
      <4> QED
        BY <1>3, <3>1, <3>2, <4>1 DEF ByOther
    <3>3. CASE \E t \in syncs[x][q][d] : k \in t.delta
      <4>1. PICK t \in syncs[x][q][d] : k \in t.delta
        BY <3>3
      <4>2. CASE t \in syncs'[x][q][d]
        BY <3>1, <4>1, <4>2 DEF ByOther
      <4>3. CASE x = n /\ q = p /\ d = c /\ t = s /\ agent[n][p][c] = "pending"
        BY <1>5, <1>6, <1>8, <3>1, <4>1, <4>3 DEF ByOther
      <4>4. CASE x = n /\ q = p /\ d = c /\ t = s /\ agent[n][p][c] # "pending"
        BY <1>4, <2>1, <3>1, <4>1, <4>4 DEF ByOther
      <4> QED
        BY <1>8, <2>1, <3>1, <4>1, <4>2, <4>3, <4>4
    <3> QED
      BY <3>1, <3>2, <3>3
  <2> QED
    BY <1>1, <1>4, <2>1, <2>2, <2>3 DEF Explained, UnderWay, d
<1> QED
  BY <1>8, <1>10, <1>11, <1>12, <1>13

-----------------------------------------------------------------------------
(* A connection drops *)

LEMMA DropStep ==
  ASSUME GossipInv, NEW n \in Node, NEW p \in Node, Drop(n, p)
  PROVE  GossipInv' /\ (Spread => Spread')
<1> USE DEF GossipInv
<1> DEFINE cut(x, y) == (x = n /\ y = p) \/ (x = p /\ y = n)
<1>1. /\ UNCHANGED <<has, saving, store, posted, fired>>
      /\ drops < MaxDrops /\ drops' = drops + 1
      /\ fired[n][p] = None /\ fired[p][n] = None /\ n # p
  BY Constants DEF Drop, content, Peered
<1>2. /\ up' \in [Node -> [Node -> BOOLEAN]]
      /\ agent' \in [Node -> [Node -> [Channel -> State]]]
      /\ syncs' \in [Node -> [Node -> [Channel -> SUBSET Call]]]
      /\ notices' \in [Node -> [Node -> [Channel -> Nat]]]
  BY <1>1 DEF Drop, TypeOK, State, Call
<1>3. \A x, y \in Node : up'[x][y] = IF cut(x, y) THEN FALSE ELSE up[x][y]
  BY <1>1 DEF Drop, TypeOK
<1>4. \A x, y \in Node, c \in Channel : agent'[x][y][c] = IF cut(x, y) THEN "idle" ELSE agent[x][y][c]
  BY <1>1 DEF Drop, TypeOK
<1>5. \A x, y \in Node, c \in Channel : syncs'[x][y][c] = IF cut(x, y) THEN {} ELSE syncs[x][y][c]
  BY <1>1 DEF Drop, TypeOK
<1>11. /\ untold' \in [Node -> [Node -> SUBSET Msg]]
       /\ \A x, y \in Node : ~cut(x, y) => untold[x][y] \subseteq untold'[x][y]
       /\ \A x, q, y \in Node : cut(x, q) /\ ~cut(x, y) /\ up[x][y] => Stored(x, q) \subseteq untold'[x][y]
  <2>1. Stored(n, p) \in SUBSET Msg /\ Stored(p, n) \in SUBSET Msg
    BY DEF Stored, TypeOK
  <2> DEFINE one == [Untold(n, Stored(n, p), p) EXCEPT ![p] = {}]
             other == [Untold(p, Stored(p, n), n) EXCEPT ![n] = {}]
  <2>2. /\ one \in [Node -> SUBSET Msg]
        /\ \A y \in Node \ {p} : untold[n][y] \subseteq one[y] /\ (up[n][y] => Stored(n, p) \subseteq one[y])
    <3> DEFINE all == Untold(n, Stored(n, p), p)
    <3>1. /\ all \in [Node -> SUBSET Msg]
          /\ \A y \in Node : untold[n][y] \subseteq all[y]
          /\ \A y \in Node : up[n][y] /\ y # p => Stored(n, p) \subseteq all[y]
      BY <2>1, UntoldEffect
    <3> HIDE DEF all
    <3>2. one = [all EXCEPT ![p] = {}]
      BY DEF all
    <3> HIDE DEF one
    <3> QED
      BY <3>1, <3>2
  <2>3. /\ other \in [Node -> SUBSET Msg]
        /\ \A y \in Node \ {n} : untold[p][y] \subseteq other[y] /\ (up[p][y] => Stored(p, n) \subseteq other[y])
    <3> DEFINE all == Untold(p, Stored(p, n), n)
    <3>1. /\ all \in [Node -> SUBSET Msg]
          /\ \A y \in Node : untold[p][y] \subseteq all[y]
          /\ \A y \in Node : up[p][y] /\ y # n => Stored(p, n) \subseteq all[y]
      BY <2>1, UntoldEffect
    <3> HIDE DEF all
    <3>2. other = [all EXCEPT ![n] = {}]
      BY DEF all
    <3> HIDE DEF other
    <3> QED
      BY <3>1, <3>2
  <2>4. untold' = [untold EXCEPT ![n] = one, ![p] = other]
    BY DEF Drop
  <2> HIDE DEF one, other
  <2>5. untold \in [Node -> [Node -> SUBSET Msg]]
    BY DEF TypeOK
  <2>6. /\ untold' \in [Node -> [Node -> SUBSET Msg]]
        /\ \A x \in Node : untold'[x] = IF x = p THEN other ELSE IF x = n THEN one ELSE untold[x]
    BY <2>2, <2>3, <2>4, <2>5
  <2> QED
    BY <1>1, <2>2, <2>3, <2>6
<1>12. \A x, y \in Node, c \in Channel : notices'[x][y][c] = IF cut(x, y) THEN 0 ELSE notices[x][y][c]
  BY <1>1 DEF Drop, TypeOK
<1>6. TypeOK'
  <2>1. drops' \in 0..MaxDrops
    BY <1>1, Constants DEF TypeOK
  <2> QED
    BY <1>1, <1>2, <1>11, <2>1 DEF TypeOK, State, Call
<1>7. Peered'
  <2> SUFFICES ASSUME NEW x \in Node, NEW y \in Node
               PROVE  /\ up'[x][y] => <<x, y>> \in Link
                      /\ fired'[x][y] # None => up'[x][y]
                      /\ \A c \in Channel : syncs'[x][y][c] # {} => up'[x][y] /\ c \in has'[x]
    BY DEF Peered
  <2>1. CASE cut(x, y)
    BY <1>1, <1>3, <1>5, <2>1
  <2>2. CASE ~cut(x, y)
    <3>1. /\ up[x][y] => <<x, y>> \in Link
          /\ fired[x][y] # None => up[x][y]
          /\ \A c \in Channel : syncs[x][y][c] # {} => up[x][y] /\ c \in has[x]
      BY DEF Peered
    <3>2. /\ up'[x][y] = up[x][y]
          /\ \A c \in Channel : syncs'[x][y][c] = syncs[x][y][c]
      BY <1>3, <1>5, <2>2
    <3> QED
      BY <1>1, <3>1, <3>2
  <2> QED
    BY <2>1, <2>2
<1>8. Owned' /\ Carried' /\ PendingRuns'
  BY <1>1, <1>4, <1>5 DEF Owned, Carried, PendingRuns
<1>9. OneEnd'
  <2> SUFFICES ASSUME NEW x \in Node, NEW y \in Node, NEW c \in Channel, up'[x][y], ~up'[y][x]
               PROVE  /\ \A s \in syncs'[x][y][c] : s.phase = "asking"
                      /\ c \in has[x] \ saving[x] => syncs'[x][y][c] # {}
    BY <1>1 DEF OneEnd
  <2>1. ~cut(x, y) /\ ~cut(y, x)
    BY <1>3
  <2>2. up[x][y] /\ ~up[y][x] /\ syncs'[x][y][c] = syncs[x][y][c]
    BY <1>3, <1>5, <2>1
  <2> QED
    BY <2>2 DEF OneEnd
<1>10. ASSUME Spread PROVE Spread'
  <2> SUFFICES ASSUME NEW x \in Node, NEW y \in Node, NEW k \in Msg, Lacks(x, y, k)'
               PROVE  Explained(x, y, ChannelOf[k], k)'
    BY DEF Spread
  <2> DEFINE d == ChannelOf[k]
  <2>1. up'[x][y] /\ up'[y][x] /\ k \in Lacking(x, y) /\ d \in Channel
    BY <1>1, Constants DEF Lacks, Lacking
  <2>2. ~cut(x, y) /\ ~cut(y, x) /\ up[x][y] /\ up[y][x]
    BY <1>3, <2>1
  <2>3. Explained(x, y, d, k)
    BY <1>10, <2>1, <2>2 DEF Spread, Lacks
  <2> HIDE DEF d
  <2>4. notices'[y][x][d] = notices[y][x][d]
    BY <1>12, <2>1, <2>2
  <2>5. ByCall(x, y, d, k) => ByCall(x, y, d, k)'
    BY <1>4, <1>5, <2>1, <2>2 DEF ByCall
  <2>6. ASSUME ByOther(x, y, d, k) PROVE ByOther(x, y, d, k)' \/ k \in untold'[x][y]
    <3>1. PICK q \in Node \ {y} : fired[x][q] = d \/ \E t \in syncs[x][q][d] : k \in t.delta
      BY <2>6 DEF ByOther
    <3>2. CASE cut(x, q) /\ fired[x][q] # d
      <4>1. k \in Stored(x, q)
        BY <2>1, <3>1, <3>2 DEF Stored
      <4> QED
        BY <1>11, <2>2, <3>2, <4>1
    <3>3. CASE ~cut(x, q) \/ fired[x][q] = d
      BY <1>1, <1>5, <2>1, <3>1, <3>3 DEF ByOther
    <3> QED
      BY <3>2, <3>3
  <2>7. k \in untold[x][y] => k \in untold'[x][y]
    BY <1>11, <2>2
  <2> QED
    BY <1>1, <2>3, <2>4, <2>5, <2>6, <2>7 DEF Explained, UnderWay, d
<1> QED
  BY <1>6, <1>7, <1>8, <1>9, <1>10

-----------------------------------------------------------------------------
(* Theorems *)

LEMMA GossipStep ==
  ASSUME GossipInv, [Next]_vars
  PROVE  GossipInv' /\ (Spread => Spread')
<1>1. CASE UNCHANGED vars
  <2>1. UNCHANGED <<has, saving, store, posted, up, drops, agent, syncs, notices, fired, untold>>
    BY <1>1 DEF vars, content, peers, agents
  <2>2. GossipInv'
    BY <2>1 DEF GossipInv, TypeOK, Peered, Owned, Carried, PendingRuns, OneEnd
  <2>3. Spread => Spread'
    BY <2>1 DEF Spread, Lacks, Lacking, Explained, UnderWay, ByCall, ByOther
  <2> QED
    BY <2>2, <2>3
<1>2. ASSUME NEW n \in Node, NEW m \in Msg, Post(n, m)
      PROVE  GossipInv' /\ (Spread => Spread')
  BY <1>2, PostStep
<1>3. ASSUME NEW n \in Node, NEW c \in Channel, Announce(n, c) \/ AddChannel(n, c) \/ ChannelSaved(n, c)
      PROVE  GossipInv' /\ (Spread => Spread')
  BY <1>3, AnnounceStep, AddChannelStep, ChannelSavedStep
<1>4. ASSUME NEW n \in Node, NEW p \in Node, Connect(n, p) \/ Drop(n, p) \/ Redistribute(n, p)
      PROVE  GossipInv' /\ (Spread => Spread')
  BY <1>4, ConnectStep, DropStep, RedistributeStep
<1>5. ASSUME NEW n \in Node, NEW p \in Node, NEW c \in Channel, OnNotification(n, p, c)
      PROVE  GossipInv' /\ (Spread => Spread')
  BY <1>5, OnNotificationStep
<1>6. ASSUME NEW n \in Node, NEW p \in Node, NEW c \in Channel, SyncStep(n, p, c)
      PROVE  GossipInv' /\ (Spread => Spread')
  <2>1. PICK s \in syncs[n][p][c] : Answer(n, p, c, s) \/ Keep(n, p, c, s) \/ Finish(n, p, c, s)
    BY <1>6 DEF SyncStep
  <2> QED
    BY <2>1, AnswerStep, KeepStep, FinishStep
<1> QED
  BY <1>1, <1>2, <1>3, <1>4, <1>5, <1>6 DEF Next

(* Whatever happens, syncs and waiters belong to a connection, carry only messages *)
(* that the remote has, and a call of synchronize() that found a sync running is   *)
(* not forgotten: that sync will repeat.                                           *)
THEOREM GossipInvariant == Spec => []GossipInv
<1>1. Init => GossipInv
  BY GossipInit
<1>2. GossipInv /\ [Next]_vars => GossipInv'
  BY GossipStep
<1> QED
  BY <1>1, <1>2, PTL DEF Spec

(* The state of all protocols has its type; in particular the count of unread *)
(* notifications does not go below zero.                                      *)
THEOREM GossipTyped == Spec => []TypeOK
<1>1. GossipInv => TypeOK
  BY DEF GossipInv
<1> QED
  BY <1>1, GossipInvariant, PTL

(* A message that a connected peer lacks, on a channel it has added, is on its way *)
(* there or was never announced to it: to be announced, announced, or to be fetched *)
(* by a sync, for any nodes, channels, drops and saves.                            *)
THEOREM SpreadInvariant == Spec => []Spread
<1>1. Init => Spread
  BY GossipInit
<1>2. GossipInv /\ Spread /\ [Next]_vars => Spread'
  BY GossipStep
<1> QED
  BY <1>1, <1>2, GossipInvariant, PTL DEF Spec

(* Connected protocols with nothing in flight agree on every channel they share, *)
(* but for the messages that a node has not announced to a peer: posted while the *)
(* channel was being saved, stored by a sync that failed, or by one that ended    *)
(* when the 'sync' waiter was taken.  It holds for any number of protocols and    *)
(* channels, after any posts, drops and new channels.                             *)
THEOREM QuietMeansAgreement == Spec => []QuietAgreement
<1>1. GossipInv /\ Spread => QuietAgreement
  <2> SUFFICES ASSUME GossipInv, Spread, Quiet, NEW n \in Node, NEW p \in Node, up[n][p], up[p][n],
                      NEW k \in Lacking(n, p)
               PROVE  k \in untold[n][p]
    BY DEF QuietAgreement
  <2> DEFINE c == ChannelOf[k]
  <2>1. k \in Msg /\ c \in Channel
    BY Constants DEF Lacking, GossipInv, TypeOK
  <2>2. Explained(n, p, c, k)
    BY <2>1 DEF Spread, Lacks
  <2> HIDE DEF c
  <2>3. agent[p][n][c] # "pending" /\ syncs[p][n][c] = {}
    BY <2>1 DEF Quiet, GossipInv, PendingRuns
  <2>4. ~ByCall(n, p, c, k)
    BY <2>3 DEF ByCall
  <2>5. ~ByOther(n, p, c, k)
    BY <2>1, Constants DEF Quiet, ByOther
  <2> QED
    BY <2>1, <2>2, <2>4, <2>5 DEF Quiet, Explained, UnderWay
<1> QED
  BY <1>1, GossipInvariant, SpreadInvariant, PTL

=============================================================================
