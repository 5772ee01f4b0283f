------------------------------ MODULE Channel ------------------------------
(***************************************************************************)
(* One channel (lib/protocol/channel.js) on several replicas, each with    *)
(* its StorageCache (lib/protocol/cache.js) over a storage backend         *)
(* (lib/storage/memory.js).                                                *)
(*                                                                         *)
(* The methods are async: a call runs from one `await` to the next and     *)
(* other calls on the same Channel run in between.  One action is the code *)
(* between two awaits of one call, or one backend operation.  call[c].pc   *)
(* names what call c waits for:                                            *)
(*   leafHashes    backend.getLeafHashes()                                 *)
(*   leafMessages  backend.getMessages() of those hashes                   *)
(*   leaves        the caller of getLeaves()                               *)
(*   countRead     backend.getMessageCount()                               *)
(*   countFill     the rest of cache.getMessageCount()                     *)
(*   counted       the caller of getMessageCount()                         *)
(*   parents       getMessages() of a received message's parents           *)
(*   store         backend.addMessage()                                    *)
(*   invalidate    the rest of cache.addMessage()                          *)
(*   page          backend.query()                                         *)
(* and the remaining values are errors the call rejects with.              *)
(*                                                                         *)
(* Signatures, chains and bodies are left out: every message here is       *)
(* signed by an honest author.  The LRU of cache.js only ever holds        *)
(* messages of the backend, which never deletes one while the channel is   *)
(* open, so hasMessage() and getMessages() are reads of the backend.       *)
(***************************************************************************)
EXTENDS Naturals, FiniteSetsExt

CONSTANTS
  Replica,      \* the peers that store the channel
  Owner,        \* the peer that runs Channel.fromIdentity
  Call,         \* slots for async calls in flight
  Kind,         \* the methods callers use, a subset of Op
  Home,         \* Home[c]: the replica whose Channel call c is made on
  Hash,         \* the pool of message hashes (bounds the messages)
  Root,         \* the hash of the root message
  Skew,         \* Skew[r]: how far ahead replica r's clock is
  ParentDelta,  \* MAX_PARENT_DELTA
  Future,       \* FUTURE, the clock leeway
  MaxLeaves,    \* MAX_LEAVES_COUNT
  MaxClock,     \* bound on the clock
  None          \* JavaScript's null

ASSUME ConstantsAssumption ==
  /\ Owner \in Replica
  /\ Home \in [Call -> Replica]
  /\ IsFiniteSet(Hash) /\ Root \in Hash
  /\ Skew \in [Replica -> Nat]
  /\ ParentDelta \in Nat /\ Future \in Nat
  /\ MaxLeaves \in Nat \ {0} /\ MaxClock \in Nat
  /\ None \notin Hash /\ None \notin Nat /\ \A S \in SUBSET Hash : S # None

(* Honest clocks differ by no more than the leeway receivers grant.        *)
ASSUME SkewAssumption == \A r, q \in Replica : Skew[r] <= Skew[q] + Future

VARIABLES
  created,       \* hashes of the signed messages
  parents,       \* parents[h]: message.parents
  height,        \* height[h]: message.height
  time,          \* time[h]: message.timestamp
  clock,         \* real time
  store,         \* store[r]: messageByHash of the backend
  leaves,        \* leaves[r]: the leaf set of the backend
  cachedLeaves,  \* cachedLeaves[r]: StorageCache.leaves
  cachedCount,   \* cachedCount[r]: StorageCache.lastCount
  call,          \* call[c]: the state of call c
  settled,       \* settled[r]: messages whose add on r has returned
  announced      \* announced[r][h]: 'incoming' events for h on r

message == <<created, parents, height, time>>
backend == <<store, leaves>>
cache == <<cachedLeaves, cachedCount>>
history == <<settled, announced>>
vars == <<message, clock, backend, cache, call, history>>

-----------------------------------------------------------------------------
(* Calls *)

Op == {"none", "post", "receive", "query", "count"}
Rejection == {"notReady", "internalError", "missingParent", "banned"}
Pc == {"idle", "leafHashes", "leafMessages", "leaves", "countRead", "countFill",
       "counted", "parents", "store", "invalidate", "page"} \cup Rejection

(* arg: the message being added; seen: the leaves read; value: the         *)
(* timestamp of a post, the cursor height of a query or the count; due:    *)
(* the messages whose add had returned on this replica when the call began *)
Idle == [op |-> "none", pc |-> "idle", arg |-> None, seen |-> {},
         value |-> 0, due |-> {}]

Begin(r, op, value) ==
  [op |-> op, pc |-> "idle", arg |-> None, seen |-> {}, value |-> value,
   due |-> settled[r]]

At(c, pc) == call[c].pc = pc
CanBegin(c, op) == At(c, "idle") /\ op \in Kind
Goto(c, pc) == call' = [call EXCEPT ![c].pc = pc]

Now(r) == clock + Skew[r]

-----------------------------------------------------------------------------
(* channel.js: computeHeight, adjustTimestamp, computeMaxTimestamp,        *)
(* filterParents                                                           *)

ComputeHeight(S) == Max({0} \cup {height[h] + 1 : h \in S})

ComputeMaxTimestamp(S) == Max({0} \cup {time[h] : h \in S})

(* Mutant: the author's clock is used as it is. *)
KeepTimestamp(S, t) == t

AdjustTimestamp(S, t) == Max({t} \cup {time[h] : h \in S})

FilterParents(S) ==
  {h \in S : time[h] + ParentDelta >= ComputeMaxTimestamp(S)}

(* leaves.slice(0, MAX_LEAVES_COUNT): which leaves come first is the       *)
(* backend's choice.                                                       *)
Truncated(S) ==
  IF Cardinality(S) <= MaxLeaves THEN {S}
  ELSE {T \in SUBSET S : Cardinality(T) = MaxLeaves}

(* Mutant: the query starts at the highest leaf. *)
MaxLeafHeight(S) == Max({0} \cup {height[h] : h \in S})

MinLeafHeight(S) == IF S = {} THEN 0 ELSE Min({height[h] : h \in S})

-----------------------------------------------------------------------------
(* memory.js: addMessage; cache.js: invalidation                           *)

(* Mutant: the parents stay in the leaf set. *)
KeepParentLeaves(r, h) == leaves[r] \cup {h}

NewLeaves(r, h) == (leaves[r] \ parents[h]) \cup {h}

(* Mutant: cache.addMessage forgets to reset `leaves`. *)
KeepCached(r) == cachedLeaves[r]

InvalidatedLeaves(r) == None

(* Mutant: cache.addMessage forgets to reset `lastCount`. *)
KeepCount(r) == cachedCount[r]

InvalidatedCount(r) == None

-----------------------------------------------------------------------------
(* channel.js: the checks of receive()                                     *)

(* Mutant: the duplicate check is dropped. *)
NeverDuplicate(r, h) == FALSE

IsDuplicate(r, h) == h \in store[r]

(* Mutant: missing parents are not noticed. *)
ParentsIgnored(r, h) == TRUE

ParentsFound(r, h) == parents[h] \subseteq store[r]

ParentCountOK(h) == Cardinality(parents[h]) <= MaxLeaves
ParentDeltaOK(h) == FilterParents(parents[h]) = parents[h]
HeightOK(h) == height[h] = ComputeHeight(parents[h])
NotFuture(r, h) == time[h] <= Now(r) + Future
NotPast(h) == time[h] >= ComputeMaxTimestamp(parents[h])
RootOK(h) == (parents[h] = {}) <=> (h = Root)

Acceptable(r, h) ==
  /\ ParentCountOK(h) /\ ParentDeltaOK(h) /\ HeightOK(h)
  /\ NotFuture(r, h) /\ NotPast(h) /\ RootOK(h)

-----------------------------------------------------------------------------
(* Channel.fromIdentity: the owner's channel starts with the root message, *)
(* every other replica starts empty (Channel.fromInvite).                  *)
Init ==
  /\ created = {Root}
  /\ parents = [h \in Hash |-> {}]
  /\ height = [h \in Hash |-> 0]
  /\ time = [h \in Hash |-> IF h = Root THEN Skew[Owner] ELSE 0]
  /\ clock = 0
  /\ store = [r \in Replica |-> IF r = Owner THEN {Root} ELSE {}]
  /\ leaves = store
  /\ cachedLeaves = [r \in Replica |-> None]
  /\ cachedCount = [r \in Replica |-> None]
  /\ call = [c \in Call |-> Idle]
  /\ settled = store
  /\ announced = [r \in Replica |-> [h \in Hash |-> 0]]

(* cache.getLeaves() up to its first await. *)
AskLeaves(r, task) ==
  IF cachedLeaves[r] = None THEN [task EXCEPT !.pc = "leafHashes"]
  ELSE [task EXCEPT !.pc = "leaves", !.seen = cachedLeaves[r]]

ReadLeafHashes(c) ==
  /\ At(c, "leafHashes")
  /\ call' = [call EXCEPT ![c].pc = "leafMessages",
                          ![c].seen = leaves[Home[c]]]
  /\ UNCHANGED <<message, clock, backend, cache, history>>

FillLeaves(c) ==
  /\ At(c, "leafMessages")
  /\ cachedLeaves' = [cachedLeaves EXCEPT ![Home[c]] = call[c].seen]
  /\ Goto(c, "leaves")
  /\ UNCHANGED <<message, clock, backend, cachedCount, history>>

(* cache.getMessageCount() up to its first await. *)
AskCount(r, task) ==
  IF cachedCount[r] = None THEN [task EXCEPT !.pc = "countRead"]
  ELSE [task EXCEPT !.pc = "counted", !.value = cachedCount[r]]

ReadCount(c) ==
  /\ At(c, "countRead")
  /\ call' = [call EXCEPT ![c].pc = "countFill",
                          ![c].value = Cardinality(store[Home[c]])]
  /\ UNCHANGED <<message, clock, backend, cache, history>>

FillCount(c) ==
  /\ At(c, "countFill")
  /\ cachedCount' = [cachedCount EXCEPT ![Home[c]] = call[c].value]
  /\ Goto(c, "counted")
  /\ UNCHANGED <<message, clock, backend, cachedLeaves, history>>

-----------------------------------------------------------------------------
(* post() *)

PostStart(c) ==
  /\ CanBegin(c, "post")
  /\ call' = [call EXCEPT ![c] =
       AskLeaves(Home[c], Begin(Home[c], "post", Now(Home[c])))]
  /\ UNCHANGED <<message, clock, backend, cache, history>>

PostBuild(c, h) ==
  /\ At(c, "leaves") /\ call[c].op = "post"
  /\ h \notin created
  /\ \E recent \in Truncated(call[c].seen) :
       LET chosen == FilterParents(recent) IN
       /\ chosen # {}
       /\ created' = created \cup {h}
       /\ parents' = [parents EXCEPT ![h] = chosen]
       /\ height' = [height EXCEPT ![h] = ComputeHeight(chosen)]
       /\ time' = [time EXCEPT ![h] = AdjustTimestamp(chosen, call[c].value)]
  /\ call' = [call EXCEPT ![c].pc = "store", ![c].arg = h, ![c].seen = {},
                          ![c].value = 0]
  /\ UNCHANGED <<clock, backend, cache, history>>

(* No parents: ask for the count to tell which error to throw. *)
PostNoParents(c) ==
  /\ At(c, "leaves") /\ call[c].op = "post"
  /\ FilterParents(call[c].seen) = {}
  /\ call' = [call EXCEPT ![c] = AskCount(Home[c], call[c])]
  /\ UNCHANGED <<message, clock, backend, cache, history>>

PostFail(c) ==
  /\ At(c, "counted") /\ call[c].op = "post"
  /\ Goto(c, IF call[c].value = 0 THEN "notReady" ELSE "internalError")
  /\ UNCHANGED <<message, clock, backend, cache, history>>

-----------------------------------------------------------------------------
(* query() by height, the only query that looks at leaves, and the count   *)

QueryStart(c, cursor) ==
  /\ CanBegin(c, "query")
  /\ call' = [call EXCEPT ![c] =
       AskLeaves(Home[c], Begin(Home[c], "query", cursor))]
  /\ UNCHANGED <<message, clock, backend, cache, history>>

QueryClamp(c) ==
  /\ At(c, "leaves") /\ call[c].op = "query"
  /\ \E some \in Truncated(call[c].seen) :
       call' = [call EXCEPT ![c].pc = "page", ![c].seen = {},
                  ![c].value = Min({call[c].value, MinLeafHeight(some)})]
  /\ UNCHANGED <<message, clock, backend, cache, history>>

CountStart(c) ==
  /\ CanBegin(c, "count")
  /\ call' = [call EXCEPT ![c] =
       AskCount(Home[c], Begin(Home[c], "count", 0))]
  /\ UNCHANGED <<message, clock, backend, cache, history>>

-----------------------------------------------------------------------------
(* receive() *)

(* Some replica holds h and hands it over: a bulk response. *)
ReceiveStart(c, h) ==
  /\ CanBegin(c, "receive")
  /\ \E r \in Replica : h \in store[r]
  /\ ~IsDuplicate(Home[c], h)
  /\ call' = [call EXCEPT ![c] =
       [Begin(Home[c], "receive", 0) EXCEPT !.pc = "parents", !.arg = h]]
  /\ UNCHANGED <<message, clock, backend, cache, history>>

ReceiveCheck(c) ==
  /\ At(c, "parents")
  /\ LET r == Home[c]
         h == call[c].arg IN
     Goto(c, IF ~ParentsFound(r, h) THEN "missingParent"
             ELSE IF Acceptable(r, h) THEN "store" ELSE "banned")
  /\ UNCHANGED <<message, clock, backend, cache, history>>

-----------------------------------------------------------------------------
(* cache.addMessage(), called by post() and receive() *)

(* backend.addMessage(): a message already there changes nothing. *)
Store(c) ==
  /\ At(c, "store")
  /\ LET r == Home[c]
         h == call[c].arg IN
     IF h \in store[r] THEN UNCHANGED backend
     ELSE /\ store' = [store EXCEPT ![r] = @ \cup {h}]
          /\ leaves' = [leaves EXCEPT ![r] = NewLeaves(r, h)]
  /\ Goto(c, "invalidate")
  /\ UNCHANGED <<message, clock, cache, history>>

(* The caches are reset, then post() or receive() announces and returns. *)
Invalidate(c) ==
  /\ At(c, "invalidate")
  /\ LET r == Home[c]
         h == call[c].arg IN
     /\ cachedLeaves' = [cachedLeaves EXCEPT ![r] = InvalidatedLeaves(r)]
     /\ cachedCount' = [cachedCount EXCEPT ![r] = InvalidatedCount(r)]
     /\ settled' = [settled EXCEPT ![r] = @ \cup {h}]
     /\ announced' = IF call[c].op = "receive"
                     THEN [announced EXCEPT ![r][h] = @ + 1]
                     ELSE announced
  /\ call' = [call EXCEPT ![c] = Idle]
  /\ UNCHANGED <<message, clock, backend>>

(* A query or a count returns, or the call's promise rejects. *)
Return(c) ==
  /\ \/ call[c].pc \in {"page"} \cup Rejection
     \/ At(c, "counted") /\ call[c].op = "count"
  /\ call' = [call EXCEPT ![c] = Idle]
  /\ UNCHANGED <<message, clock, backend, cache, history>>

Tick ==
  /\ clock < MaxClock
  /\ clock' = clock + 1
  /\ UNCHANGED <<message, backend, cache, call, history>>

Step(c) ==
  \/ ReadLeafHashes(c) \/ FillLeaves(c) \/ ReadCount(c) \/ FillCount(c)
  \/ PostStart(c) \/ PostNoParents(c) \/ PostFail(c)
  \/ QueryClamp(c) \/ CountStart(c)
  \/ ReceiveCheck(c) \/ Store(c) \/ Invalidate(c) \/ Return(c)
  \/ \E h \in Hash : PostBuild(c, h) \/ ReceiveStart(c, h)
  \/ \E cursor \in 0..Cardinality(Hash) : QueryStart(c, cursor)

Next == Tick \/ \E c \in Call : Step(c)

Spec == Init /\ [][Next]_vars

-----------------------------------------------------------------------------
(* Properties *)

TypeOK ==
  /\ created \in SUBSET Hash
  /\ parents \in [Hash -> SUBSET Hash]
  /\ height \in [Hash -> 0..(Cardinality(Hash) - 1)]
  /\ time \in [Hash -> Nat]
  /\ clock \in 0..MaxClock
  /\ store \in [Replica -> SUBSET Hash]
  /\ leaves \in [Replica -> SUBSET Hash]
  /\ cachedLeaves \in [Replica -> {None} \cup SUBSET Hash]
  /\ cachedCount \in [Replica -> {None} \cup Nat]
  /\ call \in [Call -> [op : Op, pc : Pc, arg : Hash \cup {None},
                        seen : SUBSET Hash, value : Nat, due : SUBSET Hash]]
  /\ settled \in [Replica -> SUBSET Hash]
  /\ announced \in [Replica -> [Hash -> Nat]]

(* Every replica that has a message has the message's parents, whatever    *)
(* calls overlap: receive() looks its parents up, awaits, and stores later.*)
DagClosed ==
  \A r \in Replica : \A h \in store[r] : parents[h] \subseteq store[r]

(* The leaf set that memory.js maintains message by message is the set of  *)
(* stored messages no stored message names as a parent, in whatever order  *)
(* posts and receives reach the backend.                                   *)
LeavesExact ==
  \A r \in Replica :
    leaves[r] = {h \in store[r] : \A k \in store[r] : h \notin parents[k]}

(* A message signed by post() passes every check of receive() on every     *)
(* replica that has its parents, at any later time: parent count, parent   *)
(* delta, height and timestamp agree between author and receiver, so no    *)
(* honest peer is banned for a message.                                    *)
HonestNotBanned == \A c \in Call : ~At(c, "banned")

(* A post that starts after the add of a message returned on the same      *)
(* channel comes after that message, unless the message is older than the  *)
(* parent delta allows (post() takes all current leaves as its parents).   *)
SequentialPosts ==
  \A c \in Call : At(c, "store") /\ call[c].op = "post" =>
    \A p \in call[c].due :
      time[p] + ParentDelta >= time[call[c].arg] =>
        height[p] < height[call[c].arg]

(* query() by height starts at or below every leaf whose add had returned  *)
(* when the query began: a peer that asks for news is offered them all.    *)
QueryCoversLeaves ==
  \A c \in Call : At(c, "page") =>
    \A h \in leaves[Home[c]] \cap call[c].due : call[c].value <= height[h]

(* 'incoming' is announced at most once for a message. *)
IncomingOnce ==
  \A r \in Replica, h \in Hash : announced[r][h] <= 1

(* post() never reports "Internal error: no leaves": a channel that has a  *)
(* message has a leaf.                                                     *)
NoInternalError == \A c \in Call : ~At(c, "internalError")

(* With no add in its second half, a cached leaf set or message count      *)
(* equals the backend's.                                                   *)
CacheCoherent ==
  \A r \in Replica :
    (\A c \in Call : Home[c] = r => ~At(c, "invalidate")) =>
      /\ cachedLeaves[r] # None => cachedLeaves[r] = leaves[r]
      /\ cachedCount[r] # None => cachedCount[r] = Cardinality(store[r])

Dag == INSTANCE DagReplicas

(* Channel implements DagReplicas: awaits, caches and checks never let a   *)
(* replica take a message before its parents, change one or lose one.      *)
ImplementsDag == Dag!Spec
=============================================================================
