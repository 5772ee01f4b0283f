-------------------------------- MODULE Trust --------------------------------
(***************************************************************************)
(* Who may write to a channel, and for how long: the chains of links of    *)
(* lib/protocol/link.js and chain.js, the identities of identity.js that   *)
(* hold them, and the invites that carry them (Channel.fromInvite).        *)
(*                                                                         *)
(* There is one channel; its key is the key of Owner.  A key is the        *)
(* identity that has the secret half, so a signature on a link is the      *)
(* identity that made it, and verifies with that key only.  Every instance *)
(* has its own clock.  A chain that is no longer valid stays stored; the   *)
(* reads of it treat it as missing.                                        *)
(***************************************************************************)
EXTENDS Integers, Sequences, FiniteSets

CONSTANTS
  Node,        \* running Protocols
  Identity,    \* identities of all of them
  Owner,       \* the identity that made the channel
  Home,        \* Home[i]: the node that has identity i
  Skew,        \* Skew[n]: how far the clock of n is off
  Leeway,      \* LINK_EXPIRATION_LEEWAY
  Delta,       \* LINK_EXPIRATION_DELTA
  MaxLength,   \* MAX_LENGTH of a chain, 3
  MaxTime,     \* bound on the time
  MaxInvites,  \* bound on the invites that are issued
  None         \* JavaScript's undefined

ASSUME TrustAssumption ==
  /\ Owner \in Identity /\ None \notin Identity /\ None # << >>
  /\ Home \in [Identity -> Node] /\ Skew \in [Node -> Int]
  /\ Leeway \in Nat /\ Delta \in Nat /\ MaxLength \in Nat
  /\ MaxTime \in Nat /\ MaxInvites \in Nat

\* Clocks differ by less than the leeway that links are issued with.
ASSUME ClockAssumption == \A n, p \in Node : Skew[n] - Skew[p] <= Leeway

VARIABLES
  time,     \* the time that passes for everybody
  chains,   \* chains[i]: Identity.chains of i for the channel, or None
  invites,  \* invites issued and not yet used
  issued    \* how many were issued

trustVars == <<time, chains, invites, issued>>

-----------------------------------------------------------------------------
(* Links and chains *)

Clock(n) == time + Skew[n]
Now(i) == Clock(Home[i])

Link == [by : Identity, to : Identity, from : Int, until : Int]

LinkIsValid(link, t) == link.from <= t /\ t < link.until

IsValid(chain, t) == \A k \in DOMAIN chain : LinkIsValid(chain[k], t)

\* The key that has to have signed link k.
Signer(chain, k) == IF k = 1 THEN Owner ELSE chain[k - 1].to

Leaf(chain) == IF chain = << >> THEN Owner ELSE chain[Len(chain)].to

LeadsFromOwner(chain) == \A k \in DOMAIN chain : chain[k].by = Signer(chain, k)

\* Chain.getLeafKey(): None if a link fails.
LeafKey(chain, t) ==
  IF LeadsFromOwner(chain) /\ IsValid(chain, t) THEN Leaf(chain) ELSE None

Verify(chain, t) == LeafKey(chain, t) # None

\* Mutant: the links before the last are left out.
LastOnly(chain, link) == <<link>>

\* Chain.append()
AppendLink(chain, link) == Append(chain, link)

CanAppend(chain) == Len(chain) < MaxLength

\* Mutant: no chain is better than another.
NeverBetter(chain, other) == FALSE

\* Chain.isBetterThan(): only the owner's empty chain is kept.
IsBetterThan(chain, other) == other # << >> /\ chain = << >>

-----------------------------------------------------------------------------
(* Identities *)

\* Mutant: a chain is given out until the moment it expires.
UntilTheEnd(i, t) == IF chains[i] = None \/ ~IsValid(chains[i], t) THEN None ELSE chains[i]

\* Identity.getChain(): a chain that expires within the leeway is not given out.
GetChain(i, t) ==
  IF chains[i] = None \/ ~IsValid(chains[i], t + Leeway) THEN None ELSE chains[i]

CanPost(i, t) == GetChain(i, t) # None /\ Verify(GetChain(i, t), t)

CanInvite(i, t) == CanPost(i, t) /\ CanAppend(GetChain(i, t))

\* Mutant: links are valid from the issuer's present on.
IssuePresent(i, to) == [by |-> i, to |-> to, from |-> Now(i), until |-> Now(i) + Delta]

\* Identity.issueLink() with the defaults.
IssueLink(i, to) ==
  [by |-> i, to |-> to, from |-> Now(i) - Leeway, until |-> Now(i) + Delta]

\* What addChain() demands of a chain.
Takes(i, chain) == Verify(chain, Now(i)) /\ LeafKey(chain, Now(i)) = i

\* Identity.addChain(): the last chain wins over all but the owner's.
AddChain(i, chain) ==
  IF chains[i] # None /\ IsBetterThan(chains[i], chain)
  THEN chains
  ELSE [chains EXCEPT ![i] = chain]

-----------------------------------------------------------------------------
TrustInit ==
  /\ time = 0
  /\ chains = [i \in Identity |-> IF i = Owner THEN << >> ELSE None]
  /\ invites = {}
  /\ issued = 0

Tick ==
  /\ time < MaxTime
  /\ time' = time + 1
  /\ UNCHANGED <<chains, invites, issued>>

\* Identity.issueInvite(): anybody may have asked, also a member or the owner.
IssueInvite(i, to) ==
  /\ issued < MaxInvites
  /\ CanInvite(i, Now(i))
  /\ invites' = invites \cup {AppendLink(GetChain(i, Now(i)), IssueLink(i, to))}
  /\ issued' = issued + 1
  /\ UNCHANGED <<time, chains>>

\* Protocol.channelFromInvite() up to addChain(), for the identity that asked and can
\* decrypt the invite.
AcceptInvite(chain) ==
  /\ chain \in invites
  /\ invites' = invites \ {chain}
  /\ LET i == Leaf(chain)
     IN  chains' = IF Takes(i, chain) THEN AddChain(i, chain) ELSE chains
  /\ UNCHANGED <<time, issued>>

TrustNext ==
  \/ Tick
  \/ \E i, to \in Identity : IssueInvite(i, to)
  \/ \E chain \in invites : AcceptInvite(chain)

TrustSpec == TrustInit /\ [][TrustNext]_trustVars

-----------------------------------------------------------------------------
(* Properties *)

IsChain(chain) == chain \in Seq(Link) /\ Len(chain) <= MaxLength

TrustTypeOK ==
  /\ time \in 0..MaxTime
  /\ DOMAIN chains = Identity /\ \A i \in Identity : chains[i] # None => IsChain(chains[i])
  /\ \A chain \in invites : IsChain(chain)
  /\ issued \in 0..MaxInvites

Held == {chains[i] : i \in {j \in Identity : chains[j] # None}}

\* A stored chain leads from the owner to the identity that holds it, over links that
\* each were signed by the one before; only the owner's is empty. findIdentityAndChain()
\* sends identity and chain as a pair, and receivers ban when they do not fit.
ChainsFit ==
  /\ \A i \in Identity : chains[i] # None => LeadsFromOwner(chains[i]) /\ Leaf(chains[i]) = i
  /\ \A chain \in invites : LeadsFromOwner(chain) /\ chain # << >>

\* No link is ever from the future, by anybody's clock: addChain() at the invited
\* identity and getSyncRequestKey() at any peer refuse links that are not valid yet.
NeverTooEarly ==
  \A chain \in invites \cup Held : \A k \in DOMAIN chain : \A n \in Node :
    chain[k].from <= Clock(n)

\* The owner's chain, which never expires, is never replaced by one that does, also when
\* the owner accepts an invite to the own channel ("Root chain should not be replaced", chain.js:57).
OwnerStays == [][chains[Owner] = << >> => chains'[Owner] = << >>]_trustVars
=============================================================================
