---------------------------- MODULE PresenceProofs ----------------------------
(***************************************************************************)
(* Proofs about Trust and Presence, for any nodes, identities, clocks      *)
(* within the leeway, lifetimes and chain lengths.                         *)
(*                                                                         *)
(* TrustInv, the conjunction of the invariants of Trust, is inductive: an  *)
(* issued chain extends a chain of the issuer, and links are dated back by *)
(* the leeway that clocks may differ by.  InFlight says of every request   *)
(* that its chain was given out with the leeway to spare and fits its      *)
(* identity; with NeverTooEarly this is why no honest request is refused.  *)
(***************************************************************************)
EXTENDS Presence, TLAPS

Sound(chain) ==
  /\ IsChain(chain) /\ LeadsFromOwner(chain)
  /\ \A k \in DOMAIN chain, n \in Node : chain[k].from <= Clock(n)

TrustInv == TrustTypeOK /\ ChainsFit /\ NeverTooEarly

AllSound ==
  /\ time \in 0..MaxTime /\ issued \in 0..MaxInvites /\ DOMAIN chains = Identity
  /\ \A i \in Identity : chains[i] # None => Sound(chains[i]) /\ Leaf(chains[i]) = i
  /\ \A chain \in invites : Sound(chain) /\ chain # << >>

-----------------------------------------------------------------------------
(* Chains *)

\* Skews and times are integers.
LEMMA ClockType ==
  ASSUME time \in Nat, NEW n \in Node
  PROVE  Clock(n) \in Int
BY TrustAssumption DEF Clock

\* The constructor of Chain takes what append() builds, and it leads one link further.
LEMMA AppendSound ==
  ASSUME NEW chain, Sound(chain), Len(chain) < MaxLength,
         NEW link \in Link, link.by = Leaf(chain),
         \A n \in Node : link.from <= Clock(n)
  PROVE  Sound(AppendLink(chain, link)) /\ AppendLink(chain, link) # << >>
<1> DEFINE longer == AppendLink(chain, link)
<1>1. chain \in Seq(Link) /\ Len(chain) \in Nat /\ MaxLength \in Nat
  BY TrustAssumption DEF Sound, IsChain
<1>2. longer \in Seq(Link) /\ Len(longer) = Len(chain) + 1
  BY <1>1 DEF AppendLink
<1>3. \A k \in DOMAIN chain : longer[k] = chain[k]
  BY <1>1 DEF AppendLink
<1>4. longer[Len(chain) + 1] = link
  BY <1>1 DEF AppendLink
<1>5. DOMAIN longer = DOMAIN chain \cup {Len(chain) + 1}
  BY <1>1, <1>2
<1>6. IsChain(longer)
  BY <1>1, <1>2 DEF IsChain
<1>7. LeadsFromOwner(longer)
  <2> SUFFICES ASSUME NEW k \in DOMAIN longer
               PROVE  longer[k].by = Signer(longer, k)
    BY DEF LeadsFromOwner
  <2>1. CASE k \in DOMAIN chain
    <3>1. chain[k].by = Signer(chain, k)
      BY <2>1 DEF Sound, LeadsFromOwner
    <3>2. CASE k = 1
      BY <3>1, <3>2, <2>1, <1>3 DEF Signer
    <3>3. CASE k # 1
      <4>1. k - 1 \in DOMAIN chain
        BY <3>3, <2>1, <1>1
      <4> QED BY <4>1, <3>1, <3>3, <2>1, <1>3 DEF Signer
    <3> QED BY <3>2, <3>3
  <2>2. CASE k = Len(chain) + 1
    <3>1. CASE chain = << >>
      BY <3>1, <2>2, <1>4 DEF Signer, Leaf
    <3>2. CASE chain # << >>
      <4>1. Len(chain) \in DOMAIN chain /\ k # 1 /\ k - 1 = Len(chain)
        BY <3>2, <2>2, <1>1
      <4> QED BY <4>1, <3>2, <2>2, <1>3, <1>4 DEF Signer, Leaf
    <3> QED BY <3>1, <3>2
  <2> QED BY <2>1, <2>2, <1>5
<1>8. \A k \in DOMAIN longer, n \in Node : longer[k].from <= Clock(n)
  BY <1>3, <1>4, <1>5 DEF Sound
<1>9. longer # << >>
  BY <1>1, <1>2
<1> QED BY <1>6, <1>7, <1>8, <1>9 DEF Sound

\* What is held or offered is sound, and what is held ends at its holder.
LEMMA HeldSound ==
  ASSUME TrustInv
  PROVE  /\ \A i \in Identity : chains[i] # None => Sound(chains[i]) /\ Leaf(chains[i]) = i
         /\ \A chain \in invites : Sound(chain) /\ chain # << >>
<1>1. \A i \in Identity : chains[i] # None => chains[i] \in Held
  BY DEF Held
<1> QED BY <1>1 DEF TrustInv, TrustTypeOK, ChainsFit, NeverTooEarly, Sound

\* Soundness of everything held and offered is the invariant.
LEMMA SoundHeld == AllSound => TrustInv
BY DEF AllSound, TrustInv, TrustTypeOK, ChainsFit, NeverTooEarly, Sound, Held

\* The same after a step.
LEMMA SoundHeldNext == AllSound' => TrustInv'
BY SoundHeld, PTL

\* Identity.getChain() gives a chain that it holds and that stays valid for the leeway.
LEMMA Given ==
  ASSUME TrustInv, NEW i \in Identity, NEW t \in Int, GetChain(i, t) # None
  PROVE  /\ GetChain(i, t) = chains[i] /\ chains[i] # None
         /\ Sound(GetChain(i, t)) /\ Leaf(GetChain(i, t)) = i
         /\ IsValid(GetChain(i, t), t + Leeway)
<1>1. GetChain(i, t) = chains[i] /\ chains[i] # None /\ IsValid(chains[i], t + Leeway)
  BY DEF GetChain
<1> QED BY <1>1, HeldSound

-----------------------------------------------------------------------------
(* Trust *)

\* At first only the owner has a chain, the empty one.
LEMMA TrustInitInv == TrustInit => TrustInv
<1> SUFFICES ASSUME TrustInit PROVE TrustInv
  OBVIOUS
<1>1. time \in 0..MaxTime /\ issued \in 0..MaxInvites /\ DOMAIN chains = Identity
  BY TrustAssumption DEF TrustInit
<1>2. Sound(<< >>) /\ Leaf(<< >>) = Owner
  BY TrustAssumption DEF Sound, IsChain, LeadsFromOwner, Leaf
<1>3. \A i \in Identity : chains[i] # None => Sound(chains[i]) /\ Leaf(chains[i]) = i
  BY <1>2 DEF TrustInit
<1>4. invites = {}
  BY DEF TrustInit
<1> QED BY <1>1, <1>3, <1>4, SoundHeld DEF AllSound

\* A chain that is sound stays sound while time passes.
LEMMA SoundLater ==
  ASSUME time \in Nat, time' \in Nat, time' >= time, NEW chain, Sound(chain)
  PROVE  Sound(chain)'
<1>1. \A n \in Node : Clock(n) \in Int /\ Clock(n)' \in Int /\ Clock(n) <= Clock(n)'
  BY TrustAssumption DEF Clock
<1>2. \A k \in DOMAIN chain : chain[k].from \in Int
  <2>1. chain \in Seq(Link)
    BY DEF Sound, IsChain
  <2>2. \A k \in DOMAIN chain : chain[k] \in Link
    BY <2>1
  <2> QED BY <2>2 DEF Link
<1>3. \A k \in DOMAIN chain, n \in Node : chain[k].from <= Clock(n)'
  BY <1>1, <1>2 DEF Sound
<1> QED BY <1>3 DEF Sound, IsChain, LeadsFromOwner, Signer

\* Every step of Trust keeps its invariants.
LEMMA TrustStep ==
  ASSUME TrustInv, TrustNext
  PROVE  TrustInv'
<1>1. time \in 0..MaxTime /\ issued \in 0..MaxInvites /\ DOMAIN chains = Identity /\ time \in Nat
      /\ MaxTime \in Nat /\ MaxInvites \in Nat
  BY TrustAssumption DEF TrustInv, TrustTypeOK
<1>2. CASE Tick
  <2>1. time' \in 0..MaxTime /\ time' >= time /\ time' \in Nat
    BY <1>1, <1>2 DEF Tick
  <2>2. \A chain : Sound(chain) => Sound(chain)'
    BY <2>1, <1>1, SoundLater
  <2>3. chains' = chains /\ invites' = invites /\ issued' = issued
    BY <1>2 DEF Tick
  <2>4. (\A i \in Identity : chains[i] # None => Sound(chains[i]) /\ Leaf(chains[i]) = i)'
    BY <2>2, <2>3, HeldSound DEF Leaf
  <2>5. (\A chain \in invites : Sound(chain) /\ chain # << >>)'
    BY <2>2, <2>3, HeldSound
  <2> QED BY <1>1, <2>1, <2>3, <2>4, <2>5, SoundHeldNext DEF AllSound
<1>3. ASSUME NEW i \in Identity, NEW to \in Identity, IssueInvite(i, to)
      PROVE  TrustInv'
  <2> DEFINE c == GetChain(i, Now(i))
             l == IssueLink(i, to)
  <2>1. Now(i) \in Int /\ Home[i] \in Node
    BY <1>1, TrustAssumption, ClockType DEF Now
  <2>2. c # None /\ Len(c) < MaxLength
    BY <1>3 DEF IssueInvite, CanInvite, CanPost, CanAppend
  <2>3. Sound(c) /\ Leaf(c) = i
    BY <2>1, <2>2, Given
  <2>4. l \in Link /\ l.by = i
    BY <2>1, TrustAssumption DEF IssueLink, Link
  <2>5. \A n \in Node : l.from <= Clock(n)
    BY <2>1, <1>1, TrustAssumption, ClockAssumption DEF IssueLink, Now, Clock
  <2>6. Sound(AppendLink(c, l)) /\ AppendLink(c, l) # << >>
    BY <2>2, <2>3, <2>4, <2>5, AppendSound
  <2>7. /\ time' = time /\ chains' = chains /\ issued' = issued + 1 /\ issued < MaxInvites
        /\ invites' = invites \cup {AppendLink(c, l)}
    BY <1>3 DEF IssueInvite
  <2>8. \A chain : Sound(chain) => Sound(chain)'
    BY <2>7, <1>1, SoundLater
  <2>9. (\A j \in Identity : chains[j] # None => Sound(chains[j]) /\ Leaf(chains[j]) = j)'
    BY <2>7, <2>8, HeldSound DEF Leaf
  <2>10. (\A chain \in invites : Sound(chain) /\ chain # << >>)'
    BY <2>6, <2>7, <2>8, HeldSound
  <2> QED BY <1>1, <2>7, <2>9, <2>10, SoundHeldNext DEF AllSound
<1>4. ASSUME NEW chain \in invites, AcceptInvite(chain)
      PROVE  TrustInv'
  <2> DEFINE i == Leaf(chain)
  <2>1. time' = time /\ issued' = issued /\ invites' \subseteq invites
    BY <1>4 DEF AcceptInvite
  <2>2. \/ chains' = chains
        \/ Takes(i, chain) /\ chains' = [chains EXCEPT ![i] = chain]
    BY <1>4 DEF AcceptInvite, AddChain
  <2>3. \A c : Sound(c) => Sound(c)'
    BY <2>1, <1>1, SoundLater
  <2>4. Sound(chain)
    BY HeldSound
  <2>5. DOMAIN chains' = Identity
    BY <2>2, <1>1
  <2>6. (\A j \in Identity : chains[j] # None => Sound(chains[j]) /\ Leaf(chains[j]) = j)'
    BY <2>2, <2>3, <2>4, <1>1, HeldSound DEF Leaf
  <2>7. (\A c \in invites : Sound(c) /\ c # << >>)'
    BY <2>1, <2>3, HeldSound
  <2> QED BY <1>1, <2>1, <2>5, <2>6, <2>7, SoundHeldNext DEF AllSound
<1> QED BY <1>2, <1>3, <1>4 DEF TrustNext

\* The owner's chain is better than any that an invite brings.
LEMMA OwnerStep ==
  ASSUME TrustInv, TrustNext, chains[Owner] = << >>
  PROVE  chains'[Owner] = << >>
<1>1. CASE Tick
  BY <1>1 DEF Tick
<1>2. ASSUME NEW i \in Identity, NEW to \in Identity, IssueInvite(i, to)
      PROVE  chains'[Owner] = << >>
  BY <1>2 DEF IssueInvite
<1>3. ASSUME NEW chain \in invites, AcceptInvite(chain)
      PROVE  chains'[Owner] = << >>
  <2>1. chain # << >>
    BY HeldSound
  <2>2. CASE Leaf(chain) = Owner
    BY <1>3, <2>1, <2>2, TrustAssumption DEF AcceptInvite, AddChain, IsBetterThan
  <2>3. CASE Leaf(chain) # Owner
    BY <1>3, <2>3 DEF AcceptInvite, AddChain
  <2> QED BY <2>2, <2>3
<1> QED BY <1>1, <1>2, <1>3 DEF TrustNext

-----------------------------------------------------------------------------
(* Presence steps as steps of Trust *)

\* What peers and users do leaves chains and invites alone.
LEMMA PresenceStep == [Next]_vars => [TrustNext]_trustVars
<1>1. CASE UNCHANGED vars
  BY <1>1 DEF vars
<1>2. CASE TrustNext
  BY <1>2
<1>3. ASSUME NEW n \in Node, NEW p \in Node,
             \/ Meet(n, p) \/ SendRequest(n, p) \/ Cut(n, p) \/ SyncFails(n, p)
      PROVE  UNCHANGED trustVars
  BY <1>3 DEF Meet, SendRequest, Cut, SyncFails
<1>4. ASSUME NEW n \in Node, NEW p \in Node,
             Refuse(n, p) \/ Stumble(n, p) \/ OnSyncRequest(n, p)
      PROVE  UNCHANGED trustVars
  BY <1>4 DEF Refuse, Stumble, OnSyncRequest
<1>5. ASSUME NEW n \in Node, NEW p \in Node, LoopEnds(n, p) \/ Leave(n, p)
      PROVE  UNCHANGED trustVars
  BY <1>5 DEF LoopEnds, Leave
<1>6. ASSUME NEW w \in Watcher, Wait(w) \/ Tell(w)
      PROVE  UNCHANGED trustVars
  BY <1>6 DEF Wait, Tell
<1> QED BY <1>1, <1>2, <1>3, <1>4, <1>5, <1>6 DEF Next

\* Whatever the peers do, the chains move as Trust says.
THEOREM PresenceTrust == Spec => TrustSpec
<1>1. Init => TrustInit
  BY DEF Init
<1> QED BY <1>1, PresenceStep, PTL DEF Spec, TrustSpec

\* Steps of Trust and stuttering keep its invariants.
LEMMA TrustKept ==
  ASSUME TrustInv, [TrustNext]_trustVars
  PROVE  TrustInv'
<1>1. CASE UNCHANGED trustVars
  BY <1>1 DEF trustVars, TrustInv, TrustTypeOK, ChainsFit, NeverTooEarly, Held, IsChain,
              LeadsFromOwner, Signer, Leaf, Clock
<1> QED BY <1>1, TrustStep

\* The invariants of Trust hold.
THEOREM TrustCorrect == TrustSpec => []TrustInv
<1>1. TrustInv /\ [TrustNext]_trustVars => TrustInv'
  BY TrustKept
<1> QED BY <1>1, TrustInitInv, PTL DEF TrustSpec

\* Stored chains lead from the owner to their holder.
THEOREM ChainsAlwaysFit == Spec => []ChainsFit
<1>1. TrustInv => ChainsFit
  BY DEF TrustInv
<1> QED BY <1>1, PresenceTrust, TrustCorrect, PTL

\* No link is from the future by the clock of anybody.
THEOREM LinksNeverTooEarly == Spec => []NeverTooEarly
<1>1. TrustInv => NeverTooEarly
  BY DEF TrustInv
<1> QED BY <1>1, PresenceTrust, TrustCorrect, PTL

\* The owner's chain is never replaced.
THEOREM OwnerAlwaysStays == Spec => OwnerStays
<1>1. TrustInv /\ [TrustNext]_trustVars
      => [chains[Owner] = << >> => chains'[Owner] = << >>]_trustVars
  BY OwnerStep
<1> QED BY <1>1, PresenceTrust, TrustCorrect, PTL DEF TrustSpec, OwnerStays

-----------------------------------------------------------------------------
(* Requests of honest members *)

\* What is on its way was given out with the leeway to spare.
Honest(r) ==
  r # None =>
    /\ IsRequest(r) /\ Sound(r.chain) /\ Leaf(r.chain) = r.by
    /\ r.at \in Int /\ IsValid(r.chain, r.at + Leeway)

InFlight ==
  /\ DOMAIN request = Node /\ \A n \in Node : DOMAIN request[n] = Node
  /\ \A n, p \in Node : Honest(request[n][p])
  /\ HonestAccepted

\* A request is not refused within the leeway.
LEMMA NotRefused ==
  ASSUME time \in Nat, NEW n \in Node, NEW r, r # None, Honest(r), Clock(n) - r.at <= Leeway
  PROVE  LeafKey(r.chain, Clock(n)) = r.by
<1> DEFINE c == r.chain
<1>1. Clock(n) \in Int /\ Leeway \in Nat
  BY TrustAssumption DEF Clock
<1>2. Sound(c) /\ Leaf(c) = r.by /\ r.at \in Int /\ IsValid(c, r.at + Leeway)
  BY DEF Honest
<1>3. \A k \in DOMAIN c : c[k] \in Link
  BY <1>2 DEF Sound, IsChain
<1>4. ASSUME NEW k \in DOMAIN c
      PROVE  LinkIsValid(c[k], Clock(n))
  <2>1. c[k].until \in Int /\ r.at + Leeway < c[k].until
    BY <1>2, <1>3 DEF Link, IsValid, LinkIsValid
  <2>2. c[k].from <= Clock(n)
    BY <1>2 DEF Sound
  <2> QED BY <1>1, <1>2, <2>1, <2>2 DEF LinkIsValid
<1> QED BY <1>2, <1>4 DEF LeafKey, IsValid, Sound

\* Honesty lasts while time passes.
LEMMA HonestLater ==
  ASSUME TrustInv, TrustInv', [TrustNext]_trustVars, NEW r, Honest(r)
  PROVE  Honest(r)'
<1>1. time \in Nat /\ time' \in Nat /\ time' >= time
  BY TrustAssumption
     DEF TrustInv, TrustTypeOK, TrustNext, trustVars, Tick, IssueInvite, AcceptInvite
<1>2. r # None => Sound(r.chain)'
  BY <1>1, SoundLater DEF Honest
<1> QED BY <1>2 DEF Honest, IsRequest, IsChain, IsValid, LinkIsValid, Leaf

\* Most steps only take requests away.
LEMMA FewerRequests ==
  ASSUME TrustInv, TrustInv', [TrustNext]_trustVars, InFlight, refused' = refused,
         DOMAIN request' = Node, \A n \in Node : DOMAIN request'[n] = Node,
         \A n, p \in Node : request'[n][p] \in {request[n][p], None}
  PROVE  InFlight'
<1>1. \A r : Honest(r) => Honest(r)'
  BY HonestLater
<1>2. Honest(None)'
  BY DEF Honest
<1>3. (\A n, p \in Node : Honest(request[n][p]))'
  BY <1>1, <1>2 DEF InFlight
<1> QED BY <1>3 DEF InFlight, HonestAccepted

\* Requests on their way stay honest, and only late ones are refused.
LEMMA InFlightStep ==
  ASSUME TrustInv, TrustInv', InFlight, [Next]_vars
  PROVE  InFlight'
<1>1. [TrustNext]_trustVars
  BY PresenceStep
<1>2. DOMAIN request = Node /\ \A n \in Node : DOMAIN request[n] = Node
  BY DEF InFlight
<1>3. time \in Nat
  BY TrustAssumption DEF TrustInv, TrustTypeOK
<1>4. ASSUME UNCHANGED <<request, refused>>
      PROVE  InFlight'
  BY <1>1, <1>2, <1>4, FewerRequests
<1>5. CASE UNCHANGED vars
  BY <1>4, <1>5 DEF vars, traffic
<1>6. CASE TrustNext /\ UNCHANGED <<sockets, traffic, watch>>
  BY <1>4, <1>6 DEF traffic
<1>7. ASSUME NEW n \in Node, NEW p \in Node, Meet(n, p) \/ LoopEnds(n, p) \/ Leave(n, p)
      PROVE  InFlight'
  BY <1>4, <1>7 DEF Meet, LoopEnds, Leave, traffic
<1>8. ASSUME NEW w \in Watcher, Wait(w) \/ Tell(w)
      PROVE  InFlight'
  BY <1>4, <1>8 DEF Wait, Tell, traffic
<1>9. ASSUME NEW n \in Node, NEW p \in Node,
             request' = [request EXCEPT ![n][p] = None, ![p][n] = None], refused' = refused
      PROVE  InFlight'
  BY <1>1, <1>2, <1>9, FewerRequests
<1>10. ASSUME NEW n \in Node, NEW p \in Node, Stumble(n, p) \/ Cut(n, p) \/ SyncFails(n, p)
       PROVE  InFlight'
  BY <1>9, <1>10 DEF Stumble, Throw, Cut, SyncFails
<1>11. ASSUME NEW n \in Node, NEW p \in Node, OnSyncRequest(n, p)
       PROVE  InFlight'
  BY <1>1, <1>2, <1>11, FewerRequests DEF OnSyncRequest, Take
<1>12. ASSUME NEW n \in Node, NEW p \in Node, SendRequest(n, p)
       PROVE  InFlight'
  <2>1. PICK r : Honest(r) /\ request' = [request EXCEPT ![n][p] = r]
    <3>1. PICK i \in Chosen(n) :
            request' = [request EXCEPT ![n][p] =
                          [by |-> i, chain |-> GetChain(i, Clock(n)), at |-> Clock(n)]]
      BY <1>12 DEF SendRequest
    <3>2. Clock(n) \in Int
      BY <1>3, ClockType
    <3>3. i \in Identity /\ GetChain(i, Clock(n)) # None
      BY TrustAssumption DEF Chosen, Candidates
    <3>4. Honest([by |-> i, chain |-> GetChain(i, Clock(n)), at |-> Clock(n)])
      BY <3>2, <3>3, Given DEF Honest, IsRequest, Sound
    <3> QED BY <3>1, <3>4
  <2>2. \A x : Honest(x) => Honest(x)'
    BY <1>1, HonestLater
  <2>3. refused' = refused
    BY <1>12 DEF SendRequest
  <2>4. DOMAIN request' = Node /\ \A a \in Node : DOMAIN request'[a] = Node
    BY <1>2, <2>1
  <2>5. \A a, b \in Node : request'[a][b] \in {request[a][b], r}
    BY <1>2, <2>1
  <2>6. (\A a, b \in Node : Honest(request[a][b]))'
    BY <2>1, <2>2, <2>5 DEF InFlight
  <2> QED BY <2>3, <2>4, <2>6 DEF InFlight, HonestAccepted
<1>13. ASSUME NEW n \in Node, NEW p \in Node, Refuse(n, p)
       PROVE  InFlight'
  <2> DEFINE r == request[p][n]
  <2>1. r # None /\ Honest(r) /\ LeafKey(r.chain, Clock(n)) # r.by
    BY <1>13 DEF Refuse, InFlight
  <2>2. Clock(n) \in Int /\ r.at \in Int /\ Leeway \in Nat
    BY <1>3, <2>1, ClockType, TrustAssumption DEF Honest
  <2>3. Clock(n) - r.at > Leeway
    BY <1>3, <2>1, <2>2, NotRefused
  <2>4. refused' = refused \cup {Clock(n) - r.at}
    BY <1>13 DEF Refuse
  <2>5. HonestAccepted'
    BY <2>3, <2>4 DEF InFlight, HonestAccepted
  <2>6. request' = [request EXCEPT ![n][p] = None, ![p][n] = None]
    BY <1>13 DEF Refuse, Throw
  <2>7. DOMAIN request' = Node /\ \A a \in Node : DOMAIN request'[a] = Node
    BY <1>2, <2>6
  <2>8. \A a, b \in Node : request'[a][b] \in {request[a][b], None}
    BY <1>2, <2>6
  <2>9. \A x : Honest(x) => Honest(x)'
    BY <1>1, HonestLater
  <2>10. Honest(None)'
    BY DEF Honest
  <2>11. (\A a, b \in Node : Honest(request[a][b]))'
    BY <2>8, <2>9, <2>10 DEF InFlight
  <2> QED BY <2>5, <2>7, <2>11 DEF InFlight
<1> QED BY <1>5, <1>6, <1>7, <1>8, <1>10, <1>11, <1>12, <1>13 DEF Next

\* No honest member's request is refused, and the peer banned, within the leeway.
THEOREM HonestAlwaysAccepted == Spec => []HonestAccepted
<1>1. Init => InFlight
  BY DEF Init, InFlight, Honest, HonestAccepted
<1>2. TrustInv /\ TrustInv' /\ InFlight /\ [Next]_vars => InFlight'
  BY InFlightStep
<1>3. InFlight => HonestAccepted
  BY DEF InFlight
<1> QED BY <1>1, <1>2, <1>3, PresenceTrust, TrustCorrect, PTL DEF Spec

-----------------------------------------------------------------------------
(* Sockets, remembered chains and events *)

\* A socket is open at both ends or at none.
Open(n, p) == p \in peers[n] /\ <<n, p>> \notin broken

Sockets ==
  /\ peers \in [Node -> SUBSET Node]
  /\ broken \subseteq {np \in Node \X Node : np[2] \in peers[np[1]]}
  /\ leaving \in SUBSET (Node \X Node)
  /\ destroyed \in SUBSET broken
  /\ \A n, p \in Node : Open(n, p) => Open(p, n)
  /\ \A n, p \in Node : request[n][p] # None => Open(n, p)

Remembers ==
  /\ DOMAIN remembered = Node /\ \A n \in Node : DOMAIN remembered[n] = Node
  /\ \A n, p \in Node : remembered[n][p] # None => p \in peers[n] /\ IsChain(remembered[n][p])

Watching ==
  /\ waiter \in [Watcher -> {"none", "waiting", "woken"}]
  /\ silent \in SUBSET Watcher
  /\ DOMAIN before = Watcher

PeerInv == TrustInv /\ InFlight /\ Sockets /\ Remembers /\ Watching /\ ChangesAreTold

\* The invariant has the type invariant as a part.
LEMMA PeerInvTypes == PeerInv => TypeOK
BY DEF PeerInv, TrustInv, InFlight, Honest, Sockets, Remembers, Watching, TypeOK

\* Nobody is connected at first, and nobody waits.
LEMMA PeerInvInit == Init => PeerInv
<1> SUFFICES ASSUME Init PROVE PeerInv
  OBVIOUS
<1>1. TrustInv
  BY TrustInitInv DEF Init
<1>2. InFlight
  BY DEF Init, InFlight, Honest, HonestAccepted
<1>3. Sockets
  BY DEF Init, Sockets, Open
<1>4. Remembers
  BY DEF Init, Remembers
<1>5. Watching /\ ChangesAreTold
  BY DEF Init, Watching, ChangesAreTold
<1> QED BY <1>1, <1>2, <1>3, <1>4, <1>5 DEF PeerInv

\* The sockets after a step that leaves requests, or takes both ends' away.
LEMMA SocketsStep ==
  ASSUME PeerInv, [Next]_vars
  PROVE  Sockets'
<1> USE DEF Sockets, Open
<1>1. DOMAIN request = Node /\ \A n \in Node : DOMAIN request[n] = Node
  BY DEF PeerInv, InFlight
<1>2. Sockets
  BY DEF PeerInv
<1>3. ASSUME UNCHANGED <<sockets, request>>
      PROVE  Sockets'
  BY <1>2, <1>3 DEF sockets
<1>4. CASE UNCHANGED vars
  BY <1>3, <1>4 DEF vars, traffic
<1>5. CASE TrustNext /\ UNCHANGED <<sockets, traffic, watch>>
  BY <1>3, <1>5 DEF traffic
<1>6. ASSUME NEW w \in Watcher, Wait(w) \/ Tell(w)
      PROVE  Sockets'
  BY <1>3, <1>6 DEF Wait, Tell, traffic
<1>7. ASSUME NEW n \in Node, NEW p \in Node, Meet(n, p)
      PROVE  Sockets'
  BY <1>2, <1>7 DEF Meet, traffic
<1>8. ASSUME NEW n \in Node, NEW p \in Node, SendRequest(n, p)
      PROVE  Sockets'
  BY <1>1, <1>2, <1>8 DEF SendRequest, sockets
<1>9. ASSUME NEW n \in Node, NEW p \in Node, OnSyncRequest(n, p)
      PROVE  Sockets'
  BY <1>1, <1>2, <1>9 DEF OnSyncRequest, Take, sockets
<1>10. ASSUME NEW n \in Node, NEW p \in Node, request[p][n] # None, Throw(n, p)
       PROVE  Sockets'
  <2>1. Open(p, n) /\ Open(n, p)
    BY <1>2, <1>10
  <2>2. /\ peers' = [peers EXCEPT ![n] = @ \ {p}]
        /\ leaving' = leaving \cup {<<n, p>>}
        /\ broken' = (broken \cup {<<p, n>>}) \ {<<n, p>>}
        /\ request' = [request EXCEPT ![n][p] = None, ![p][n] = None]
        /\ destroyed' = destroyed
    BY <1>10 DEF Throw, Delete
  <2>3. peers' \in [Node -> SUBSET Node] /\ leaving' \in SUBSET (Node \X Node)
    BY <1>2, <2>2
  <2>4. broken' \subseteq {np \in Node \X Node : np[2] \in peers'[np[1]]}
    <3> SUFFICES ASSUME NEW np \in broken'
                 PROVE  np \in Node \X Node /\ np[2] \in peers'[np[1]]
      OBVIOUS
    <3>1. CASE np = <<p, n>>
      BY <1>2, <2>1, <2>2, <3>1
    <3>2. CASE np \in broken /\ np # <<n, p>>
      BY <1>2, <2>2, <3>2
    <3> QED BY <2>2, <3>1, <3>2
  <2>5. destroyed' \in SUBSET broken'
    BY <1>2, <2>1, <2>2
  <2>6. ASSUME NEW a \in Node, NEW b \in Node, Open(a, b)'
        PROVE  Open(a, b) /\ <<a, b>> # <<n, p>> /\ <<a, b>> # <<p, n>>
    BY <1>2, <2>2, <2>6
  <2>7. ASSUME NEW a \in Node, NEW b \in Node,
               Open(a, b), <<a, b>> # <<n, p>>, <<a, b>> # <<p, n>>
        PROVE  Open(a, b)'
    BY <1>2, <2>2, <2>7
  <2>8. \A a, b \in Node : Open(a, b)' => Open(b, a)'
    BY <1>2, <2>6, <2>7
  <2>9. \A a, b \in Node : request'[a][b] # None => Open(a, b)'
    BY <1>1, <1>2, <2>2, <2>7
  <2> QED BY <2>3, <2>4, <2>5, <2>8, <2>9
<1>11. ASSUME NEW n \in Node, NEW p \in Node, Refuse(n, p) \/ Stumble(n, p)
       PROVE  Sockets'
  BY <1>10, <1>11 DEF Refuse, Stumble
<1>12. ASSUME NEW n \in Node, NEW p \in Node, Cut(n, p)
       PROVE  Sockets'
  BY <1>1, <1>2, <1>12 DEF Cut, Ends
<1>13. ASSUME NEW n \in Node, NEW p \in Node, SyncFails(n, p)
       PROVE  Sockets'
  BY <1>1, <1>2, <1>13 DEF SyncFails
<1>14. ASSUME NEW n \in Node, NEW p \in Node, LoopEnds(n, p)
       PROVE  Sockets'
  BY <1>1, <1>2, <1>14 DEF LoopEnds, Delete
<1>15. ASSUME NEW n \in Node, NEW p \in Node, Leave(n, p)
       PROVE  Sockets'
  BY <1>2, <1>15 DEF Leave, traffic
<1> QED BY <1>4, <1>5, <1>6, <1>7, <1>8, <1>9, <1>11, <1>12, <1>13, <1>14, <1>15 DEF Next

\* A chain is remembered only for a Peer that there is.
LEMMA RemembersStep ==
  ASSUME PeerInv, [Next]_vars
  PROVE  Remembers'
<1> USE DEF Remembers, IsChain
<1>1. Remembers /\ peers \in [Node -> SUBSET Node]
  BY DEF PeerInv, Sockets
<1>2. ASSUME UNCHANGED <<peers, remembered>>
      PROVE  Remembers'
  BY <1>1, <1>2
<1>3. ASSUME NEW n \in Node, NEW p \in Node, Delete(n, p)
      PROVE  Remembers'
  BY <1>1, <1>3 DEF Delete
<1>4. CASE UNCHANGED vars
  BY <1>2, <1>4 DEF vars, sockets, traffic
<1>5. CASE TrustNext /\ UNCHANGED <<sockets, traffic, watch>>
  BY <1>2, <1>5 DEF sockets, traffic
<1>6. ASSUME NEW w \in Watcher, Wait(w) \/ Tell(w)
      PROVE  Remembers'
  BY <1>2, <1>6 DEF Wait, Tell, sockets, traffic
<1>7. ASSUME NEW n \in Node, NEW p \in Node, Meet(n, p)
      PROVE  Remembers'
  BY <1>1, <1>7 DEF Meet, traffic
<1>8. ASSUME NEW n \in Node, NEW p \in Node, OnSyncRequest(n, p)
      PROVE  Remembers'
  <2>1. UNCHANGED sockets /\ request[p][n] # None
    BY <1>8 DEF OnSyncRequest
  <2>2. p \in peers[n] /\ IsChain(request[p][n].chain)
    BY <2>1 DEF PeerInv, InFlight, Honest, IsRequest, Sockets, Open
  <2>3. \/ UNCHANGED remembered
        \/ remembered' = [remembered EXCEPT ![n][p] = request[p][n].chain]
    BY <1>8 DEF OnSyncRequest
  <2> QED BY <1>1, <2>1, <2>2, <2>3 DEF sockets
<1>9. ASSUME NEW n \in Node, NEW p \in Node, Refuse(n, p) \/ Stumble(n, p) \/ LoopEnds(n, p)
      PROVE  Remembers'
  BY <1>3, <1>9 DEF Refuse, Stumble, Throw, LoopEnds
<1>10. ASSUME NEW n \in Node, NEW p \in Node,
              SendRequest(n, p) \/ Cut(n, p) \/ SyncFails(n, p) \/ Leave(n, p)
       PROVE  Remembers'
  BY <1>2, <1>10 DEF SendRequest, Cut, SyncFails, Leave, sockets, traffic
<1> QED BY <1>4, <1>5, <1>6, <1>7, <1>8, <1>9, <1>10 DEF Next

\* Users wait, are woken, or do neither.
LEMMA WatchingStep ==
  ASSUME PeerInv, [Next]_vars
  PROVE  Watching'
<1> USE DEF Watching
<1>1. Watching
  BY DEF PeerInv
<1>2. CASE UNCHANGED vars
  BY <1>1, <1>2 DEF vars, watch
<1>3. CASE TrustNext /\ UNCHANGED <<sockets, traffic, watch>>
  BY <1>1, <1>3 DEF watch
<1>4. ASSUME NEW w \in Watcher, Wait(w) \/ Tell(w)
      PROVE  Watching'
  BY <1>1, <1>4 DEF Wait, Tell
<1>5. ASSUME NEW n \in Node, NEW p \in Node, OnSyncRequest(n, p) \/ Leave(n, p)
      PROVE  Watching'
  BY <1>1, <1>5 DEF OnSyncRequest, Leave, TellOfLeave, Wake
<1>6. ASSUME NEW n \in Node, NEW p \in Node, LoopEnds(n, p)
      PROVE  Watching'
  BY <1>1, <1>6 DEF LoopEnds
<1>7. ASSUME NEW n \in Node, NEW p \in Node,
             \/ Meet(n, p) \/ SendRequest(n, p) \/ Refuse(n, p) \/ Stumble(n, p)
             \/ Cut(n, p) \/ SyncFails(n, p)
      PROVE  Watching'
  BY <1>1, <1>7 DEF Meet, SendRequest, Refuse, Stumble, Throw, Cut, SyncFails, watch
<1> QED BY <1>2, <1>3, <1>4, <1>5, <1>6, <1>7 DEF Next

\* What a waiting user w may rely on.
Told(w) ==
  waiter[w] = "waiting" /\ w \notin silent /\ (\A p \in Node : <<w, p>> \notin leaving)
  => ChainMap(w) = before[w]

\* Whatever changes the chain map of a waiting user wakes that user.
LEMMA ToldStep ==
  ASSUME PeerInv, [Next]_vars
  PROVE  ChangesAreTold'
<1>1. Watcher \subseteq Node /\ \A w \in Watcher : Told(w)
  BY PresenceAssumption DEF PeerInv, ChangesAreTold, Told
<1>2. Watching /\ Remembers /\ peers \in [Node -> SUBSET Node]
  BY DEF PeerInv, Sockets
<1> SUFFICES ASSUME NEW w \in Watcher
             PROVE  Told(w)'
  BY DEF ChangesAreTold, Told
<1>3. ASSUME UNCHANGED <<waiter, silent, leaving, peers, remembered, before>>
      PROVE  Told(w)'
  BY <1>1, <1>3 DEF Told, ChainMap, CompareKey, Leaf
<1>4. CASE UNCHANGED vars
  BY <1>3, <1>4 DEF vars, sockets, traffic, watch
<1>5. CASE TrustNext /\ UNCHANGED <<sockets, traffic, watch>>
  BY <1>3, <1>5 DEF sockets, traffic, watch
<1>6. ASSUME NEW n \in Node, NEW p \in Node,
             SendRequest(n, p) \/ Cut(n, p) \/ SyncFails(n, p)
      PROVE  Told(w)'
  BY <1>3, <1>6 DEF SendRequest, Cut, SyncFails, sockets, traffic, watch
\* While a deleted Peer of w is still leaving, nothing is promised.
<1>7. ASSUME NEW n \in Node, NEW p \in Node, Delete(n, p),
             UNCHANGED <<waiter, before>>,
             \/ UNCHANGED silent /\ leaving' = leaving \cup {<<n, p>>}
             \/ /\ UNCHANGED leaving
                /\ silent' = silent \cup ({n} \cap {v \in Watcher : waiter[v] = "waiting"})
      PROVE  Told(w)'
  <2>1. CASE n = w
    BY <1>2, <1>7, <2>1 DEF Told
  <2>2. CASE n # w
    <3>1. peers'[w] = peers[w] /\ remembered'[w] = remembered[w]
      BY <1>1, <1>2, <1>7, <2>2 DEF Delete, Remembers
    <3>2. ChainMap(w)' = ChainMap(w)
      BY <3>1 DEF ChainMap, CompareKey, Leaf
    <3>3. (\A q \in Node : <<w, q>> \notin leaving') => (\A q \in Node : <<w, q>> \notin leaving)
      BY <1>7
    <3>4. w \notin silent' => w \notin silent
      BY <1>7
    <3> QED BY <1>1, <1>7, <3>2, <3>3, <3>4 DEF Told
  <2> QED BY <2>1, <2>2
<1>8. ASSUME NEW n \in Node, NEW p \in Node, Refuse(n, p) \/ Stumble(n, p) \/ LoopEnds(n, p)
      PROVE  Told(w)'
  BY <1>7, <1>8 DEF Refuse, Stumble, Throw, LoopEnds, watch
\* A new Peer has no chains yet.
<1>9. ASSUME NEW n \in Node, NEW p \in Node, Meet(n, p)
      PROVE  Told(w)'
  <2>1. remembered' = remembered /\ leaving' = leaving /\ UNCHANGED watch
    BY <1>9 DEF Meet, traffic
  <2>2. \A q \in Node : remembered[w][q] # None => q \in peers[w]
    BY <1>1, <1>2 DEF Remembers
  <2>3. peers[w] \subseteq peers'[w] /\ peers'[w] \subseteq Node
    BY <1>1, <1>2, <1>9 DEF Meet
  <2>4. {q \in peers'[w] : remembered'[w][q] # None} = {q \in peers[w] : remembered[w][q] # None}
    BY <2>1, <2>2, <2>3
  <2>5. ChainMap(w)' = ChainMap(w)
    BY <2>1, <2>4 DEF ChainMap, CompareKey, Leaf
  <2> QED BY <1>1, <2>1, <2>5 DEF Told, watch
\* A chain that is replaced wakes w.
<1>10. ASSUME NEW n \in Node, NEW p \in Node, OnSyncRequest(n, p)
       PROVE  Told(w)'
  <2>1. UNCHANGED <<sockets, before, silent>>
    BY <1>10 DEF OnSyncRequest
  <2>2. CASE UNCHANGED <<remembered, waiter>>
    BY <1>3, <2>1, <2>2 DEF sockets
  <2>3. CASE /\ remembered' = [remembered EXCEPT ![n][p] = request[p][n].chain]
             /\ IF n \in Watcher THEN Wake(n) ELSE UNCHANGED waiter
    <3>1. CASE n = w
      BY <1>2, <2>3, <3>1 DEF Told, Wake, Watching
    <3>2. CASE n # w
      <4>1. remembered'[w] = remembered[w] /\ peers'[w] = peers[w] /\ waiter'[w] = waiter[w]
        BY <1>1, <1>2, <2>1, <2>3, <3>2 DEF Wake, Watching, Remembers, sockets
      <4>2. ChainMap(w)' = ChainMap(w)
        BY <4>1 DEF ChainMap, CompareKey, Leaf
      <4> QED BY <1>1, <2>1, <4>1, <4>2 DEF Told, sockets
    <3> QED BY <3>1, <3>2
  <2> QED BY <1>10, <2>2, <2>3 DEF OnSyncRequest
\* 'peer leave' wakes w.
<1>11. ASSUME NEW n \in Node, NEW p \in Node, Leave(n, p)
       PROVE  Told(w)'
  <2>1. UNCHANGED <<peers, remembered, before, silent>> /\ leaving' = leaving \ {<<n, p>>}
    BY <1>11 DEF Leave, traffic
  <2>2. IF n \in Watcher THEN Wake(n) ELSE UNCHANGED waiter
    BY <1>11 DEF Leave, TellOfLeave
  <2>3. CASE n = w
    BY <1>2, <2>2, <2>3 DEF Told, Wake, Watching
  <2>4. CASE n # w
    <3>1. waiter'[w] = waiter[w]
      BY <1>2, <2>2, <2>4 DEF Wake, Watching
    <3>2. ChainMap(w)' = ChainMap(w)
      BY <2>1 DEF ChainMap, CompareKey, Leaf
    <3>3. (\A q \in Node : <<w, q>> \notin leaving') => (\A q \in Node : <<w, q>> \notin leaving)
      BY <2>1, <2>4
    <3> QED BY <1>1, <2>1, <3>1, <3>2, <3>3 DEF Told
  <2> QED BY <2>3, <2>4
<1>12. ASSUME NEW v \in Watcher, Wait(v) \/ Tell(v)
       PROVE  Told(w)'
  <2>1. UNCHANGED <<peers, remembered, leaving>> /\ silent' = silent \ {v}
    BY <1>12 DEF Wait, Tell, sockets, traffic
  <2>2. ChainMap(w)' = ChainMap(w)
    BY <2>1 DEF ChainMap, CompareKey, Leaf
  <2>3. CASE v = w
    BY <1>2, <1>12, <2>2, <2>3 DEF Told, Wait, Tell, Watching
  <2>4. CASE v # w
    <3>1. waiter'[w] = waiter[w] /\ before'[w] = before[w]
      BY <1>2, <1>12, <2>4 DEF Wait, Tell, Watching
    <3> QED BY <1>1, <2>1, <2>2, <2>4, <3>1 DEF Told
  <2> QED BY <2>3, <2>4
<1> QED BY <1>4, <1>5, <1>6, <1>8, <1>9, <1>10, <1>11, <1>12 DEF Next

-----------------------------------------------------------------------------
\* The strengthened invariant of Presence holds.
THEOREM PeerInvariant == Spec => []PeerInv
<1>1. PeerInv /\ TrustInv' /\ [Next]_vars => PeerInv'
  BY InFlightStep, SocketsStep, RemembersStep, WatchingStep, ToldStep DEF PeerInv
<1> QED BY <1>1, PeerInvInit, PresenceTrust, TrustCorrect, PTL DEF Spec

\* Every variable stays what the code expects, and sockets have two ends.
THEOREM PresenceTyped == Spec => []TypeOK
BY PeerInvariant, PeerInvTypes, PTL

\* While a user waits, no change of the chain map goes unannounced.
THEOREM ChangesAlwaysTold == Spec => []ChangesAreTold
<1>1. PeerInv => ChangesAreTold
  BY DEF PeerInv
<1> QED BY <1>1, PeerInvariant, PTL

=============================================================================
