------------------------------- MODULE Presence -------------------------------
(***************************************************************************)
(* Who is there: sync requests carry a chain that shows who asks, each     *)
(* Peer remembers the chain of its remote (lib/peer.js, onSyncRequest and  *)
(* getSyncRequestKey; lib/sync-agent.js, findIdentityAndChain), and        *)
(* Protocol tells a user who waits for it that the chains of the connected *)
(* peers have changed (lib/protocol.js, computeChainMap and                *)
(* waitForChainMapUpdate; lib/utils.js, isSameChainMap).                   *)
(*                                                                         *)
(* Extends Trust, which says who holds which chain and what the clocks     *)
(* show.  The handshake, which Connections.tla models, is one step here.   *)
(* <<n, p>> is the Peer that n has for p.                                  *)
(***************************************************************************)
EXTENDS Trust

CONSTANT Watcher   \* nodes with a user who waits for changes of the chain map

ASSUME PresenceAssumption == Watcher \in SUBSET Node

VARIABLES
  peers,       \* peers[n]: the remotes of Protocol.peers
  broken,      \* Peers whose socket is closed
  destroyed,   \* Peers in peers that a failed sync has destroyed
  leaving,     \* Peers that connect() has deleted and destroys
  request,     \* request[n][p]: the sync request on its way from n to p, or None
  remembered,  \* remembered[n][p]: Peer.chains of n for p, or None
  refused,     \* history: the ages of the requests that led to a ban
  waiter,      \* waiter[w]: "none", "waiting", or "woken" before it has run
  cached,      \* cached[w]: Protocol.cachedChainMap
  before,      \* history: the chain map when the wait started
  silent       \* history: users waiting while a Peer left without 'peer leave'

sockets == <<peers, broken, destroyed, leaving>>
traffic == <<request, remembered, refused>>
watch == <<waiter, cached, before, silent>>
vars == <<trustVars, sockets, traffic, watch>>

-----------------------------------------------------------------------------
(* What two lists of chains are compared by: the length and the last key of each chain. *)
CompareKey(chain) == <<Len(chain), IF chain = << >> THEN None ELSE Leaf(chain)>>

(* Protocol.computeChainMap() for the channel; an identity is on one node, so that no two *)
(* peers have chains that compare equal.                                                *)
ChainMap(n) ==
  {CompareKey(remembered[n][p]) : p \in {q \in peers[n] : remembered[n][q] # None}}

Wake(w) == waiter' = [waiter EXCEPT ![w] = IF @ = "waiting" THEN "woken" ELSE @]

(* Identities of n with a chain that is valid. *)
Candidates(n) == {i \in Identity : Home[i] = n /\ GetChain(i, Clock(n)) # None}

(* SyncAgent.findIdentityAndChain(): the owner if it is one of them; the comparison says *)
(* nothing about the others.                                                            *)
Chosen(n) == IF Owner \in Candidates(n) THEN {Owner} ELSE Candidates(n)

(* onSyncRequest() replaces the remembered chain when the key is another one. *)
IsNewKey(n, p, i) == remembered[n][p] = None \/ LeafKey(remembered[n][p], Clock(n)) # i

(* The old chain is asked for its key as of now.  If it has expired, there is none, and   *)
(* the comparison throws a TypeError.                                                   *)
OldExpired(n, p) == remembered[n][p] # None /\ ~Verify(remembered[n][p], Clock(n))

Ends(n, p) == {<<n, p>>, <<p, n>>}

(* connect() deletes the peer; its chains go with it. *)
Delete(n, p) ==
  /\ peers' = [peers EXCEPT ![n] = @ \ {p}]
  /\ remembered' = [remembered EXCEPT ![n][p] = None]

(* Mutant: nobody is told of a peer that leaves. *)
TellNobody(n) == UNCHANGED waiter

TellOfLeave(n) == Wake(n)

-----------------------------------------------------------------------------
Init ==
  /\ TrustInit
  /\ peers = [n \in Node |-> {}]
  /\ broken = {} /\ destroyed = {} /\ leaving = {}
  /\ request = [n \in Node |-> [p \in Node |-> None]]
  /\ remembered = [n \in Node |-> [p \in Node |-> None]]
  /\ refused = {}
  /\ waiter = [w \in Watcher |-> "none"]
  /\ cached = [w \in Watcher |-> {}]
  /\ before = [w \in Watcher |-> {}]
  /\ silent = {}

(* Protocol.connect() on both sides, up to the loops. *)
Meet(n, p) ==
  /\ n # p /\ p \notin peers[n] /\ n \notin peers[p]
  /\ peers' = [peers EXCEPT ![n] = @ \cup {p}, ![p] = @ \cup {n}]
  /\ UNCHANGED <<trustVars, broken, destroyed, leaving, traffic, watch>>

(* SyncAgent.sendAndWait() of a sync; without a valid chain nothing is sent. *)
SendRequest(n, p) ==
  /\ p \in peers[n] /\ <<n, p>> \notin broken /\ request[n][p] = None
  /\ \E i \in Chosen(n) :
       request' = [request EXCEPT ![n][p] =
                     [by |-> i, chain |-> GetChain(i, Clock(n)), at |-> Clock(n)]]
  /\ UNCHANGED <<trustVars, sockets, remembered, refused, watch>>

(* Peer.onSyncRequest() throws, out of loop() into the catch of connect(). *)
Throw(n, p) ==
  /\ Delete(n, p)
  /\ leaving' = leaving \cup {<<n, p>>}
  /\ broken' = (broken \cup {<<p, n>>}) \ {<<n, p>>}
  /\ request' = [request EXCEPT ![n][p] = None, ![p][n] = None]
  /\ UNCHANGED <<destroyed, watch>>

Take(n, p) == request' = [request EXCEPT ![p][n] = None]

(* The chain does not verify: a BanError. *)
Refuse(n, p) ==
  LET r == request[p][n]
  IN  /\ r # None /\ LeafKey(r.chain, Clock(n)) # r.by
      /\ refused' = refused \cup {Clock(n) - r.at}
      /\ Throw(n, p)
      /\ UNCHANGED trustVars

Stumble(n, p) ==
  LET r == request[p][n]
  IN  /\ r # None /\ LeafKey(r.chain, Clock(n)) = r.by
      /\ OldExpired(n, p)
      /\ Throw(n, p)
      /\ UNCHANGED <<trustVars, refused>>

OnSyncRequest(n, p) ==
  LET r == request[p][n]
  IN  /\ r # None /\ LeafKey(r.chain, Clock(n)) = r.by
      /\ ~OldExpired(n, p)
      /\ Take(n, p)
      /\ IF IsNewKey(n, p, r.by)
         THEN /\ remembered' = [remembered EXCEPT ![n][p] = r.chain]
              /\ IF n \in Watcher THEN Wake(n) ELSE UNCHANGED waiter
         ELSE UNCHANGED <<remembered, waiter>>
      /\ UNCHANGED <<trustVars, sockets, refused, cached, before, silent>>

(* The network closes the socket. *)
Cut(n, p) ==
  /\ p \in peers[n] /\ n \in peers[p] /\ Ends(n, p) \cap broken = {}
  /\ broken' = broken \cup Ends(n, p)
  /\ request' = [request EXCEPT ![n][p] = None, ![p][n] = None]
  /\ UNCHANGED <<trustVars, peers, destroyed, leaving, remembered, refused, watch>>

(* The catch of Peer.synchronize() destroys the Peer, which closes the socket. *)
SyncFails(n, p) ==
  /\ p \in peers[n] /\ <<n, p>> \notin broken
  /\ destroyed' = destroyed \cup {<<n, p>>}
  /\ broken' = broken \cup {<<n, p>>} \cup (IF n \in peers[p] THEN {<<p, n>>} ELSE {})
  /\ request' = [request EXCEPT ![n][p] = None, ![p][n] = None]
  /\ UNCHANGED <<trustVars, peers, leaving, remembered, refused, watch>>

(* loop() ends with the socket.  For a Peer that is destroyed already, destroy() throws in *)
(* the catch of connect(), before 'peer leave' is resolved.                              *)
LoopEnds(n, p) ==
  /\ p \in peers[n] /\ <<n, p>> \in broken
  /\ Delete(n, p)
  /\ broken' = broken \ {<<n, p>>}
  /\ destroyed' = destroyed \ {<<n, p>>}
  /\ IF <<n, p>> \in destroyed
     THEN /\ UNCHANGED leaving
          /\ silent' = silent \cup ({n} \cap {w \in Watcher : waiter[w] = "waiting"})
     ELSE /\ leaving' = leaving \cup {<<n, p>>}
          /\ UNCHANGED silent
  /\ UNCHANGED <<trustVars, request, refused, waiter, cached, before>>

(* destroy() is done, and connect() resolves 'peer leave'. *)
Leave(n, p) ==
  /\ <<n, p>> \in leaving
  /\ leaving' = leaving \ {<<n, p>>}
  /\ IF n \in Watcher THEN TellOfLeave(n) ELSE UNCHANGED waiter
  /\ UNCHANGED <<trustVars, peers, broken, destroyed, traffic, cached, before, silent>>

(* Protocol.waitForChainMapUpdate() *)
Wait(w) ==
  /\ waiter[w] = "none"
  /\ waiter' = [waiter EXCEPT ![w] = "waiting"]
  /\ before' = [before EXCEPT ![w] = ChainMap(w)]
  /\ silent' = silent \ {w}
  /\ UNCHANGED <<trustVars, sockets, traffic, cached>>

(* The race is over: computeChainMap() keeps the cached map if nothing changed. *)
Tell(w) ==
  /\ waiter[w] = "woken"
  /\ waiter' = [waiter EXCEPT ![w] = "none"]
  /\ cached' = [cached EXCEPT ![w] = ChainMap(w)]
  /\ before' = [before EXCEPT ![w] = {}]
  /\ silent' = silent \ {w}
  /\ UNCHANGED <<trustVars, sockets, traffic>>

Next ==
  \/ TrustNext /\ UNCHANGED <<sockets, traffic, watch>>
  \/ \E n, p \in Node :
       \/ Meet(n, p) \/ SendRequest(n, p)
       \/ Refuse(n, p) \/ Stumble(n, p) \/ OnSyncRequest(n, p)
       \/ Cut(n, p) \/ SyncFails(n, p) \/ LoopEnds(n, p) \/ Leave(n, p)
  \/ \E w \in Watcher : Wait(w) \/ Tell(w)

Spec == Init /\ [][Next]_vars

-----------------------------------------------------------------------------
(* Properties *)

IsRequest(r) == r = [by |-> r.by, chain |-> r.chain, at |-> r.at] /\ IsChain(r.chain)

TypeOK ==
  /\ TrustTypeOK
  /\ peers \in [Node -> SUBSET Node]
  /\ broken \subseteq {np \in Node \X Node : np[2] \in peers[np[1]]}
  /\ leaving \in SUBSET (Node \X Node)
  /\ destroyed \in SUBSET broken
  /\ \A n, p \in Node : request[n][p] # None => IsRequest(request[n][p])
  /\ \A n, p \in Node : remembered[n][p] # None => p \in peers[n] /\ IsChain(remembered[n][p])
  /\ waiter \in [Watcher -> {"none", "waiting", "woken"}]
  /\ silent \in SUBSET Watcher

(* No request of an honest member leads to a ban unless it was under way for longer than the *)
(* leeway: a chain that is given out stays valid for any receiver's clock that long, and     *)
(* identity and chain of a request fit.                                                      *)
HonestAccepted == \A age \in refused : age > Leeway

(* While a user waits for a change, the chain map stays what it was, whatever peers come,    *)
(* sync, change their identity or leave: every change wakes the user. Peers that are just leaving will *)
(* do so, and a Peer that a failed sync destroyed leaves without an event.                   *)
ChangesAreTold ==
  \A w \in Watcher :
    waiter[w] = "waiting" /\ w \notin silent /\ (\A p \in Node : <<w, p>> \notin leaving)
    => ChainMap(w) = before[w]
===============================================================================
