------------------------------- MODULE Gossip -------------------------------
(***************************************************************************)
(* How a message spreads over connected protocols: the notifications of    *)
(* lib/protocol.js and lib/peer.js and the idle/active/pending state of    *)
(* lib/sync-agent.js.                                                      *)
(*                                                                         *)
(* Every node runs one Protocol; n's Peer object for p exists while        *)
(* up[n][p].  One sync of a channel, a walk over pages in ChannelSync.tla, *)
(* is three steps here: the remote is asked, its messages are stored, the  *)
(* sync returns.  A connection that drops cuts it anywhere.                *)
(***************************************************************************)
EXTENDS Integers, FiniteSetsExt

CONSTANTS
  Node,        \* running protocols
  Link,        \* pairs of nodes that may be connected, a symmetric relation
  Channel,     \* channels
  Msg,         \* messages that may be posted
  ChannelOf,   \* ChannelOf[m]: the channel of message m
  Loaded,      \* channels that the nodes may have loaded at the start
  Joined,      \* pairs connected at the start, with nothing to tell each other
  MaxSyncs,    \* bound on the concurrent syncs of one agent
  MaxDrops,    \* bound on the dropped connections
  None         \* JavaScript's null

ASSUME GossipAssumption ==
  /\ Link \in SUBSET (Node \X Node)
  /\ Joined \in SUBSET Link
  /\ \A n, p \in Node :
       /\ <<n, p>> \in Link => n # p /\ <<p, n>> \in Link
       /\ <<n, p>> \in Joined => <<p, n>> \in Joined
  /\ ChannelOf \in [Msg -> Channel]
  /\ Loaded \subseteq [Node -> SUBSET Channel]
  /\ MaxSyncs \in Nat \ {0} /\ MaxDrops \in Nat /\ None \notin Channel \cup Node

VARIABLES
  has,      \* has[n]: Protocol.channels
  saving,   \* saving[n]: channels whose addChannel() has not come back from saveChannel()
  store,    \* store[n]: the messages of all channels of n
  posted,   \* posted[n]: channels whose 'outgoing' waiter has fired
  up,       \* up[n][p]: p is in Protocol.peers of n
  agent,    \* agent[n][p][c]: SyncAgent.state
  syncs,    \* syncs[n][p][c]: the calls of Channel.sync in flight
  notices,  \* notices[n][p][c]: notifications from p that n has yet to read
  fired,    \* fired[n][p]: channel the 'sync' waiter of syncLoop fired for
  untold,   \* history: new messages of n that its connected peer p was not notified of
  drops     \* connections dropped so far

content == <<has, saving, store>>
peers == <<up, drops>>
agents == <<agent, syncs>>
vars == <<content, posted, peers, agents, notices, fired, untold>>

-----------------------------------------------------------------------------
Slot == 1..MaxSyncs

(* asking -> received -> stored; delta: the new messages that were stored *)
Sync(slot) == [slot |-> slot, phase |-> "asking", got |-> {}, delta |-> {}]

FreeSlots(running) == Slot \ {s.slot : s \in running}

InChannel(c) == {m \in Msg : ChannelOf[m] = c}

(* SyncAgent.synchronize(): the state and the running calls after a call.  *)
CanStart(state) == state \in {"idle", "active"}

StateAfterCall(state) == IF state = "idle" THEN "active" ELSE "pending"

SyncsAfterCall(state, running) ==
  IF CanStart(state) THEN running \cup {Sync(Min(FreeSlots(running)))}
  ELSE running

StateAfterSync(state) == "idle"

(* Mutant: the pending state is not looked at when a sync completes. *)
NeverRestart(state) == FALSE

Restarts(state) == state = "pending"

(* Mutant: only the source of the messages is notified. *)
SourceOnly(n, source) == {p \in Node : up[n][p] /\ p = source}

Notified(n, source) == {p \in Node : up[n][p] /\ p # source}

Taken(count) == count - 1

(* Protocol.onNewMessage(c, source) on n.  Whoever is notified will ask    *)
(* for all of the channel.                                                 *)
Notify(n, c, source) ==
  /\ notices' = [p \in Node |->
       IF p \in Notified(n, source) THEN [notices[p] EXCEPT ![n][c] = @ + 1]
       ELSE notices[p]]
  /\ untold' = [untold EXCEPT ![n] = [p \in Node |->
       IF p \in Notified(n, source) THEN @[p] \ InChannel(c) ELSE @[p]]]

(* History: n has new messages and leaves out to notify of them. *)
Untold(n, new, source) == [p \in Node |->
  untold[n][p] \cup (IF p \in Notified(n, source) THEN new ELSE {})]

-----------------------------------------------------------------------------
Init ==
  /\ has \in Loaded
  /\ saving = [n \in Node |-> {}]
  /\ store = [n \in Node |-> {}]
  /\ posted = [n \in Node |-> {}]
  /\ up = [n \in Node |-> [p \in Node |-> <<n, p>> \in Joined]]
  /\ agent = [n \in Node |-> [p \in Node |-> [c \in Channel |-> "idle"]]]
  /\ syncs = [n \in Node |-> [p \in Node |-> [c \in Channel |-> {}]]]
  /\ notices = [n \in Node |-> [p \in Node |-> [c \in Channel |-> 0]]]
  /\ fired = [n \in Node |-> [p \in Node |-> None]]
  /\ untold = [n \in Node |-> [p \in Node |-> {}]]
  /\ drops = 0

(* A post, which fires the waiter of waitLoop.  A channel that is still    *)
(* being saved can be found and posted to, but has no waiter yet.          *)
Post(n, m) ==
  /\ ChannelOf[m] \in has[n]
  /\ \A p \in Node : m \notin store[p]
  /\ store' = [store EXCEPT ![n] = @ \cup {m}]
  /\ IF ChannelOf[m] \in saving[n]
     THEN /\ untold' = [untold EXCEPT ![n] = Untold(n, {m}, None)]
          /\ UNCHANGED posted
     ELSE /\ posted' = [posted EXCEPT ![n] = @ \cup {ChannelOf[m]}]
          /\ UNCHANGED untold
  /\ UNCHANGED <<has, saving, peers, agents, notices, fired>>

(* waitLoop of Protocol.addChannel. *)
Announce(n, c) ==
  /\ c \in posted[n]
  /\ Notify(n, c, None)
  /\ posted' = [posted EXCEPT ![n] = @ \ {c}]
  /\ UNCHANGED <<content, peers, agents, fired>>

(* Protocol.addChannel up to the await of saveChannel(): from here on the  *)
(* users and the peer objects find the channel.  A save that fails leaves  *)
(* it at that, as one that never returns.                                  *)
AddChannel(n, c) ==
  /\ c \notin has[n]
  /\ has' = [has EXCEPT ![n] = @ \cup {c}]
  /\ saving' = [saving EXCEPT ![n] = @ \cup {c}]
  /\ UNCHANGED <<store, posted, peers, agents, notices, fired, untold>>

(* The rest of Protocol.addChannel: every peer object syncs the channel,   *)
(* and waitLoop waits for posts.                                           *)
ChannelSaved(n, c) ==
  /\ c \in saving[n]
  /\ \A p \in Node : up[n][p] => FreeSlots(syncs[n][p][c]) # {}
  /\ saving' = [saving EXCEPT ![n] = @ \ {c}]
  /\ agent' = [agent EXCEPT ![n] = [p \in Node |-> [d \in Channel |->
       IF d = c /\ up[n][p] THEN StateAfterCall(@[p][d]) ELSE @[p][d]]]]
  /\ syncs' = [syncs EXCEPT ![n] = [p \in Node |-> [d \in Channel |->
       IF d = c /\ up[n][p] THEN SyncsAfterCall(agent[n][p][d], @[p][d])
       ELSE @[p][d]]]]
  /\ UNCHANGED <<has, store, posted, peers, notices, fired, untold>>

(* Protocol.connect after the handshake: Peer.loop syncs every channel. *)
Connect(n, p) ==
  /\ <<n, p>> \in Link /\ ~up[n][p]
  /\ up' = [up EXCEPT ![n][p] = TRUE]
  /\ agent' = [agent EXCEPT ![n][p] = [c \in Channel |->
       IF c \in has[n] THEN StateAfterCall(@[c]) ELSE @[c]]]
  /\ syncs' = [syncs EXCEPT ![n][p] = [c \in Channel |->
       IF c \in has[n] THEN SyncsAfterCall(agent[n][p][c], @[c]) ELSE @[c]]]
  /\ UNCHANGED <<content, posted, drops, notices, fired, untold>>

(* What the running syncs of n with p have stored. *)
Stored(n, p) == UNION {s.delta : s \in UNION {syncs[n][p][c] : c \in Channel}}

(* The socket closes, or a sync of either end fails; both ends destroy     *)
(* their Peer and its agents, and nobody announces what a sync had stored. *)
(* A waiter that has fired runs first.                                     *)
Drop(n, p) ==
  /\ drops < MaxDrops
  /\ (up[n][p] \/ up[p][n]) /\ fired[n][p] = None /\ fired[p][n] = None
  /\ drops' = drops + 1
  /\ up' = [up EXCEPT ![n][p] = FALSE, ![p][n] = FALSE]
  /\ LET idle == [c \in Channel |-> "idle"]
         zero == [c \in Channel |-> 0]
         none == [c \in Channel |-> {}] IN
     /\ agent' = [agent EXCEPT ![n][p] = idle, ![p][n] = idle]
     /\ syncs' = [syncs EXCEPT ![n][p] = none, ![p][n] = none]
     /\ notices' = [notices EXCEPT ![n][p] = zero, ![p][n] = zero]
  /\ untold' = [untold EXCEPT ![n] = [Untold(n, Stored(n, p), p) EXCEPT ![p] = {}],
                              ![p] = [Untold(p, Stored(p, n), n) EXCEPT ![n] = {}]]
  /\ UNCHANGED <<content, posted, fired>>

(* Peer.onNotification: unknown channels are ignored. *)
OnNotification(n, p, c) ==
  /\ up[n][p] /\ notices[n][p][c] > 0
  /\ FreeSlots(syncs[n][p][c]) # {}
  /\ notices' = [notices EXCEPT ![n][p][c] = Taken(@)]
  /\ IF c \in has[n]
     THEN /\ agent' = [agent EXCEPT ![n][p][c] = StateAfterCall(@)]
          /\ syncs' = [syncs EXCEPT ![n][p][c] =
                         SyncsAfterCall(agent[n][p][c], @)]
     ELSE UNCHANGED agents
  /\ UNCHANGED <<content, posted, peers, fired, untold>>

-----------------------------------------------------------------------------
(* One call of Channel.sync *)

Replace(n, p, c, old, new) ==
  syncs' = [syncs EXCEPT ![n][p][c] = (@ \ {old}) \cup {new}]

(* The remote's loop answers; it sends nothing for an unknown channel. *)
Answer(n, p, c, s) ==
  /\ s.phase = "asking" /\ up[p][n]
  /\ Replace(n, p, c, s, [s EXCEPT !.phase = "received",
       !.got = IF c \in has[p] THEN store[p] \cap InChannel(c) ELSE {}])
  /\ UNCHANGED <<content, posted, peers, agent, notices, fired, untold>>

Gained(n, s) == s.got \ store[n]

Keep(n, p, c, s) ==
  /\ s.phase = "received"
  /\ store' = [store EXCEPT ![n] = @ \cup s.got]
  /\ Replace(n, p, c, s, [s EXCEPT !.phase = "stored", !.got = {},
       !.delta = @ \cup Gained(n, s)])
  /\ UNCHANGED <<has, saving, posted, peers, agent, notices, fired, untold>>

(* The rest of synchronize(): a pending call repeats the sync, and         *)
(* otherwise the 'sync' waiter is fired if anything was stored.  When it   *)
(* has fired for another channel, this one is not announced.               *)
Finish(n, p, c, s) ==
  /\ s.phase = "stored"
  /\ LET state == agent[n][p][c] IN
     IF Restarts(state)
     THEN /\ agent' = [agent EXCEPT ![n][p][c] =
                         StateAfterCall(StateAfterSync(state))]
          /\ Replace(n, p, c, s, [Sync(s.slot) EXCEPT !.delta = s.delta])
          /\ UNCHANGED <<fired, untold>>
     ELSE /\ agent' = [agent EXCEPT ![n][p][c] = StateAfterSync(state)]
          /\ syncs' = [syncs EXCEPT ![n][p][c] = @ \ {s}]
          /\ fired' = IF s.delta # {} /\ fired[n][p] = None
                      THEN [fired EXCEPT ![n][p] = c] ELSE fired
          /\ untold' = IF fired[n][p] \in {None, c} THEN untold
                       ELSE [untold EXCEPT ![n] = Untold(n, s.delta, p)]
  /\ UNCHANGED <<content, posted, peers, notices>>

(* syncLoop of Protocol.connect: notify the others and wait again. *)
Redistribute(n, p) ==
  /\ fired[n][p] # None
  /\ Notify(n, fired[n][p], p)
  /\ fired' = [fired EXCEPT ![n][p] = None]
  /\ UNCHANGED <<content, posted, peers, agents>>

SyncStep(n, p, c) ==
  \E s \in syncs[n][p][c] : Answer(n, p, c, s) \/ Keep(n, p, c, s) \/ Finish(n, p, c, s)

Next ==
  \/ \E n \in Node, m \in Msg : Post(n, m)
  \/ \E n \in Node, c \in Channel :
       Announce(n, c) \/ AddChannel(n, c) \/ ChannelSaved(n, c)
  \/ \E n, p \in Node :
       \/ Connect(n, p) \/ Drop(n, p) \/ Redistribute(n, p)
       \/ \E c \in Channel : OnNotification(n, p, c) \/ SyncStep(n, p, c)

Spec == Init /\ [][Next]_vars

(* Timers and sockets make progress on every node; users need not post,    *)
(* and a save may fail.                                                    *)
FairSpec ==
  /\ Spec
  /\ \A n \in Node, c \in Channel : WF_vars(Announce(n, c))
  /\ \A n, p \in Node :
       /\ WF_vars(Connect(n, p)) /\ WF_vars(Redistribute(n, p))
       /\ \A c \in Channel : WF_vars(OnNotification(n, p, c)) /\ WF_vars(SyncStep(n, p, c))

-----------------------------------------------------------------------------
(* Properties *)

Phase == {"asking", "received", "stored"}

TypeOK ==
  /\ has \in [Node -> SUBSET Channel]
  /\ saving \in [Node -> SUBSET Channel]
  /\ store \in [Node -> SUBSET Msg]
  /\ posted \in [Node -> SUBSET Channel]
  /\ up \in [Node -> [Node -> BOOLEAN]]
  /\ agent \in [Node -> [Node -> [Channel -> {"idle", "active", "pending"}]]]
  /\ syncs \in [Node -> [Node -> [Channel ->
        SUBSET [slot : Slot, phase : Phase, got : SUBSET Msg, delta : SUBSET Msg]]]]
  /\ notices \in [Node -> [Node -> [Channel -> Nat]]]
  /\ fired \in [Node -> [Node -> {None} \cup Channel]]
  /\ untold \in [Node -> [Node -> SUBSET Msg]]
  /\ drops \in 0..MaxDrops

(* What p lacks of the messages of n, on channels that p has added. *)
Lacking(n, p) ==
  {m \in store[n] \ store[p] : ChannelOf[m] \in has[p] \ saving[p]}

(* Nothing under way on channel c between n and p, or towards them. *)
Quiet ==
  /\ \A n \in Node : posted[n] = {}
  /\ \A n, p \in Node :
       /\ fired[n][p] = None
       /\ \A c \in Channel : notices[n][p][c] = 0 /\ syncs[n][p][c] = {}

(* When nothing is in flight, a connected peer lacks only what was never    *)
(* announced to it: a message posted while addChannel() was saving the     *)
(* channel, or stored by a sync that failed, or ended as another channel's *)
(* was being announced.  Every other message that was received or posted   *)
(* was, and no notification was dropped that a running sync did not make   *)
(* up for.                                                                 *)
QuietAgreement ==
  Quiet => \A n, p \in Node :
    up[n][p] /\ up[p][n] => Lacking(n, p) \subseteq untold[n][p]

(* All messages spread: whenever nodes connect, post and add channels, in   *)
(* the end a linked node lacks nothing but what was never announced to it. *)
Converges ==
  <>[](\A n, p \in Node : <<n, p>> \in Link => Lacking(n, p) \subseteq untold[n][p])

(* What protocol.md demands: "on either received or posted message the     *)
(* peer MUST [...] notify ALL connected peers", so that peers agree when   *)
(* nothing is in flight and every channel is saved.                        *)
AllNotified ==
  Quiet /\ (\A n \in Node : saving[n] = {}) =>
    \A n, p \in Node : up[n][p] /\ up[p][n] => Lacking(n, p) = {}
=============================================================================
