---------------------------- MODULE ChannelSync ----------------------------
(***************************************************************************)
(* Channel.sync (lib/protocol/channel.js): one replica, `local`, pulls a   *)
(* channel from another, `remote`, page by page, while both keep growing.  *)
(*                                                                         *)
(* Messages are numbered in the channel's linear order, by height and then *)
(* by hash, so that the sorted array of memory.js is a set of numbers.     *)
(* The message graph is chosen once, in Init; Insert actions let a replica *)
(* gain a message of it, posted there or synced from a third peer.         *)
(*                                                                         *)
(* pc is what the syncing side waits for or does next:                     *)
(*   start     Channel.sync is called          (await getMinLeafHeight)    *)
(*   clamp     the remote's query() looks at its leaves                    *)
(*   read      the remote's backend.query()                                *)
(*   classify  computePartialDAG, one message of the page at a time        *)
(*   bulk      receiveBulk, at the head of its loop                        *)
(*   receive   receive() of the messages of one bulk response              *)
(*   done, failed, banned   sync() has returned, or rejected               *)
(* Leaf sets are read fresh here; Channel.tla is about how they go stale.  *)
(***************************************************************************)
EXTENDS Naturals, FiniteSetsExt

CONSTANTS
  Msg,            \* the messages, numbered in linear order: 1..n
  Graphs,         \* the parent functions to start from
  Limit,          \* maxQueryLimit
  BulkLimit,      \* maxBulkCount of the remote
  MaxUnresolved,  \* maxUnresolvedCount
  MaxLeaves,      \* MAX_LEAVES_COUNT
  LocalNew,       \* messages `local` may gain meanwhile,
  RemoteNew,      \* and `remote`, posted there or from a third peer
  Env,            \* what else may happen meanwhile, a subset of EnvEvent
  None            \* JavaScript's null

EnvEvent == {"forget", "timeout"}

ASSUME SyncAssumption ==
  /\ IsFiniteSet(Msg) /\ Msg \subseteq Nat /\ None \notin Nat
  /\ Limit \in Nat \ {0} /\ BulkLimit \in Nat \ {0}
  /\ MaxUnresolved \in Nat /\ MaxLeaves \in Nat \ {0}
  /\ LocalNew \subseteq Msg /\ RemoteNew \subseteq Msg /\ Env \subseteq EnvEvent

VARIABLES
  parents,     \* parents[m]: the parents of message m
  height,      \* height[m]
  local,       \* messages of the syncing replica
  remote,      \* messages of the other replica
  gone,        \* the remote has removed the channel
  overtaken,   \* history: it gained a message where a full sync had passed
  snapshot,    \* history: what the remote had when it first looked
  pc,
  isFull,      \* the argument of sync()
  cursor,      \* where the next query starts
  response,    \* the query response being processed
  todo,        \* its messages computePartialDAG has yet to look at
  unknown,     \* its messages with a missing parent
  external,    \* parents outside the page and the storage
  known,       \* messages to request, in order
  batch,       \* messages of a bulk response yet to be received
  unresolved   \* parents to look for in earlier pages

graph == <<parents, height>>
stores == <<local, remote, gone, overtaken>>
dag == <<todo, unknown, external>>
vars == <<graph, stores, snapshot, pc, isFull, cursor, response, dag, known,
          batch, unresolved>>

-----------------------------------------------------------------------------
(* Helpers *)

HeightsOf(p) ==
  LET h[m \in Msg] == Max({0} \cup {h[k] + 1 : k \in p[m]}) IN h

\* Numbers and heights go up from parents to children, and heights with numbers.
ASSUME GraphsAssumption ==
  \A p \in Graphs :
    /\ p \in [Msg -> SUBSET Msg] /\ \A m \in Msg : \A k \in p[m] : k < m
    /\ HeightsOf(p) \in [Msg -> Nat]
    /\ \A k, m \in Msg : k < m => HeightsOf(p)[k] <= HeightsOf(p)[m]

Closed(S) == \A m \in S : parents[m] \subseteq S

LeavesOf(S) == {m \in S : \A k \in S : m \notin parents[k]}

(* channel.getLeaves() keeps MAX_LEAVES_COUNT of them. *)
Truncated(S) ==
  IF Cardinality(S) <= MaxLeaves THEN {S}
  ELSE {T \in SUBSET S : Cardinality(T) = MaxLeaves}

MinLeafHeight(S) == IF S = {} THEN 0 ELSE Min({height[m] : m \in S})

(* The k smallest and the k greatest messages of S. *)
First(k, S) == {m \in S : Cardinality({x \in S : x < m}) < k}
Last(k, S) == {m \in S : Cardinality({x \in S : x > m}) < k}

AtHeight(n) == [hash |-> None, height |-> n]
AtHash(m) == [hash |-> m, height |-> 0]

Empty == [messages |-> {}, forward |-> None, backward |-> None]

(* The first index of a forward query, if there is one. *)
StartOf(S, c) ==
  IF c.hash # None THEN S \cap {c.hash}
  ELSE First(1, {m \in S : height[m] = c.height})

SmallestOrNone(S) == IF S = {} THEN None ELSE Min(S)

Forward(S, c) ==
  LET from == Min(StartOf(S, c))
      page == First(Limit, {m \in S : m >= from}) IN
  [messages |-> page,
   forward |-> SmallestOrNone({m \in S : m >= from} \ page),
   backward |-> IF \E m \in S : m < from THEN from ELSE None]

(* Mutant: only one page back is offered. *)
BackwardOnce(S, c) ==
  [messages |-> Last(Limit, {m \in S : m < c.hash}), forward |-> c.hash,
   backward |-> None]

Backward(S, c) ==
  LET before == {m \in S : m < c.hash}
      page == Last(Limit, before) IN
  [messages |-> page, forward |-> c.hash,
   backward |-> IF page = before THEN None ELSE Min(page)]

(* memory.query(): lenient when the cursor is not found. *)
Page(S, c, isBackward) ==
  IF StartOf(S, c) = {} THEN Empty
  ELSE IF isBackward THEN Backward(S, c) ELSE Forward(S, c)

-----------------------------------------------------------------------------
Init ==
  /\ parents \in Graphs
  /\ height = HeightsOf(parents)
  /\ local \in {S \in SUBSET Msg : Closed(S)}
  /\ remote \in {S \in SUBSET Msg : Closed(S)}
  /\ gone = FALSE /\ overtaken = FALSE
  /\ snapshot = {}
  /\ pc = "start" /\ isFull = FALSE
  /\ cursor = AtHeight(0) /\ response = Empty
  /\ todo = {} /\ unknown = {} /\ external = {}
  /\ known = {} /\ batch = {} /\ unresolved = {}

FirstHeight(full, leaves) == IF full THEN 0 ELSE MinLeafHeight(leaves)

Start ==
  /\ pc = "start"
  /\ \E leaves \in Truncated(LeavesOf(local)) :
       cursor' = AtHeight(FirstHeight(isFull, leaves))
  /\ pc' = "clamp"
  /\ UNCHANGED <<graph, stores, snapshot, isFull, response, dag, known, batch,
                 unresolved>>

(* Mutant: the remote starts at the height it was asked for. *)
AskedHeight(asked, leaves) == asked

StartHeight(asked, leaves) == Min({asked, MinLeafHeight(leaves)})

(* The remote's query() by height first looks at its own leaves. *)
RemoteClamp ==
  /\ pc = "clamp"
  /\ \E leaves \in Truncated(LeavesOf(remote)) :
       cursor' = AtHeight(StartHeight(cursor.height, leaves))
  /\ snapshot' = remote
  /\ pc' = "read"
  /\ UNCHANGED <<graph, stores, isFull, response, dag, known, batch, unresolved>>

RemoteRead ==
  /\ pc = "read"
  /\ response' = Page(remote, cursor, unresolved # {})
  /\ todo' = response'.messages /\ unknown' = {} /\ external' = {} /\ known' = {}
  /\ pc' = "classify"
  /\ UNCHANGED <<graph, stores, snapshot, isFull, cursor, batch, unresolved>>

-----------------------------------------------------------------------------
(* Mutant: a parent in the page counts as known although its own parents   *)
(* are not.                                                                *)
MissingDirect(m) ==
  {p \in parents[m] : p \notin (response.messages \ todo) \cup local}

(* Mutant: the last parent looked up decides. *)
MissingLast(m) ==
  {p \in parents[m] :
     p = Max(parents[m]) /\ (p \in unknown \/ p \notin (response.messages \ todo) \cup local)}

MissingParents(m) ==
  {p \in parents[m] :
     p \in unknown \/ p \notin (response.messages \ todo) \cup local}

(* One turn of the loop of computePartialDAG. *)
Classify ==
  /\ pc = "classify" /\ todo # {}
  /\ LET m == Min(todo)
         missing == MissingParents(m) IN
     /\ todo' = todo \ {m}
     /\ external' = external \cup (missing \ unknown)
     /\ unknown' = IF missing = {} THEN unknown ELSE unknown \cup {m}
     /\ known' = IF missing = {} /\ m \notin local THEN known \cup {m} ELSE known
  /\ UNCHANGED <<graph, stores, snapshot, pc, isFull, cursor, response, batch,
                 unresolved>>

Classified ==
  /\ pc = "classify" /\ todo = {}
  /\ pc' = IF isFull /\ external # {} THEN "banned" ELSE "bulk"
  /\ UNCHANGED <<graph, stores, snapshot, isFull, cursor, response, dag, known,
                 batch, unresolved>>

-----------------------------------------------------------------------------
(* receiveBulk() against the remote's bulk().  A peer that has removed the *)
(* channel answers with an empty packet, whose forwardIndex is 0.          *)
Bulk ==
  /\ pc = "bulk" /\ known # {}
  /\ LET asked == First(BulkLimit, known) IN
     IF gone
     THEN pc' = "banned" /\ UNCHANGED <<known, batch>>
     ELSE /\ batch' = asked \cap remote
          /\ known' = known \ asked
          /\ pc' = "receive"
  /\ UNCHANGED <<graph, stores, snapshot, isFull, cursor, response, dag,
                 unresolved>>

(* receive(): a duplicate is skipped, a missing parent is a BanError. *)
Receive ==
  /\ pc = "receive" /\ batch # {}
  /\ LET m == Min(batch) IN
     /\ batch' = batch \ {m}
     /\ IF m \in local \/ parents[m] \subseteq local
        THEN local' = local \cup {m} /\ pc' = pc
        ELSE local' = local /\ pc' = "banned"
  /\ UNCHANGED <<graph, remote, gone, overtaken, snapshot, isFull, cursor,
                 response, dag, known, unresolved>>

BulkEnd ==
  /\ pc = "receive" /\ batch = {}
  /\ pc' = "bulk"
  /\ UNCHANGED <<graph, stores, snapshot, isFull, cursor, response, dag, known,
                 batch, unresolved>>

-----------------------------------------------------------------------------
StillUnresolved == (unresolved \ response.messages) \cup external

(* Mutant: the direction does not follow from what is unresolved. *)
AlwaysForward(left) == response.forward

NextHash(left) == IF left = {} THEN response.forward ELSE response.backward

(* The end of the loop of sync(). *)
Advance ==
  /\ pc = "bulk" /\ known = {}
  /\ LET left == StillUnresolved
         next == NextHash(left) IN
     IF Cardinality(left) > MaxUnresolved
     THEN \* fall back to full sync: a nested call with its own state
          /\ isFull' = TRUE /\ unresolved' = {} /\ pc' = "start"
          /\ UNCHANGED cursor
     ELSE /\ unresolved' = left
          /\ cursor' = IF next = None THEN cursor ELSE AtHash(next)
          /\ pc' = IF left # {} /\ isFull THEN "failed"
                   ELSE IF next = None THEN "done" ELSE "read"
          /\ UNCHANGED isFull
  /\ UNCHANGED <<graph, stores, snapshot, response, dag, known, batch>>

-----------------------------------------------------------------------------
(* Meanwhile *)

Syncing == pc \notin {"done", "failed", "banned"}

sync == <<snapshot, pc, isFull, cursor, response, dag, known, batch, unresolved>>

(* The message the walk goes on from, once it has read a page. *)
Onward ==
  IF pc = "read" THEN cursor.hash
  ELSE IF pc \in {"classify", "bulk", "receive"} THEN response.forward ELSE None

(* The walk has passed the place of message m, and has more to read. *)
Passed(m) == Onward # None /\ m < Onward

RemoteInsert(m) ==
  /\ Syncing /\ ~gone
  /\ m \in RemoteNew \ remote /\ parents[m] \subseteq remote
  /\ remote' = remote \cup {m}
  /\ overtaken' = (overtaken \/ (isFull /\ Passed(m)))
  /\ UNCHANGED <<graph, local, gone, sync>>

LocalInsert(m) ==
  /\ Syncing
  /\ m \in LocalNew \ local /\ parents[m] \subseteq local
  /\ local' = local \cup {m}
  /\ UNCHANGED <<graph, remote, gone, overtaken, sync>>

(* Protocol.removeChannel on the remote. *)
RemoteForget ==
  /\ "forget" \in Env /\ Syncing /\ ~gone
  /\ gone' = TRUE /\ remote' = {}
  /\ UNCHANGED <<graph, local, overtaken, sync>>

(* SyncAgent.sendAndWait gives up on an answer. *)
Timeout ==
  /\ "timeout" \in Env
  /\ pc \in {"clamp", "read"} \/ (pc = "bulk" /\ known # {})
  /\ pc' = "failed"
  /\ UNCHANGED <<graph, stores, snapshot, isFull, cursor, response, dag, known,
                 batch, unresolved>>

SyncStep ==
  \/ Start \/ RemoteClamp \/ RemoteRead \/ Classify \/ Classified
  \/ Bulk \/ Receive \/ BulkEnd \/ Advance

Next ==
  \/ SyncStep \/ RemoteForget \/ Timeout
  \/ \E m \in Msg : RemoteInsert(m) \/ LocalInsert(m)

Spec == Init /\ [][Next]_vars

(* Each await of the sync completes: the remote answers or the wait times  *)
(* out.                                                                    *)
FairSpec == Spec /\ WF_vars(SyncStep)

-----------------------------------------------------------------------------
(* Properties *)

Ended == pc \in {"done", "failed", "banned"}

TypeOK ==
  /\ parents \in [Msg -> SUBSET Msg]
  /\ height \in [Msg -> Nat]
  /\ local \in SUBSET Msg /\ remote \in SUBSET Msg
  /\ gone \in BOOLEAN /\ overtaken \in BOOLEAN
  /\ snapshot \in SUBSET Msg
  /\ pc \in {"start", "clamp", "read", "classify", "bulk", "receive",
             "done", "failed", "banned"}
  /\ isFull \in BOOLEAN
  /\ cursor \in [hash : {None} \cup Msg, height : Nat]
  /\ response \in [messages : SUBSET Msg, forward : {None} \cup Msg,
                   backward : {None} \cup Msg]
  /\ todo \in SUBSET Msg /\ unknown \in SUBSET Msg /\ external \in SUBSET Msg
  /\ known \in SUBSET Msg /\ batch \in SUBSET Msg /\ unresolved \in SUBSET Msg

(* A sync that returns has fetched every message the remote had when it    *)
(* answered the first query, although pages are cut by Limit, start at a   *)
(* leaf height and shift as either side grows.                             *)
SyncComplete == pc = "done" => snapshot \subseteq local

(* sync() only returns with nothing left to resolve: its loop also ends    *)
(* when a backward page has no predecessor.                                *)
NoSilentGap == pc = "done" => unresolved = {}

(* An honest remote is banned only after it removed the channel, or gained *)
(* a message where a full sync had passed already: but for these, every    *)
(* message requested in bulk arrives after its parents, and a page of a    *)
(* full sync names no unknown parent, however either side grows.           *)
HonestRemoteNotBanned == pc = "banned" => gone \/ overtaken

Ancestors(m) ==
  LET a[k \in Msg] == {k} \cup UNION {a[p] : p \in parents[k]} IN a[m]

(* What computePartialDAG must find out, although the storage grows while  *)
(* it looks parents up: the messages to request bring all of their missing *)
(* ancestry with them, every other new message is kept back by an external *)
(* hash, and no external hash is in the page itself.                       *)
PageClassified ==
  pc = "classify" /\ todo = {} =>
    /\ \A m \in known : Ancestors(m) \ local \subseteq known
    /\ \A m \in response.messages \ (local \cup known) : Ancestors(m) \cap external # {}
    /\ external \cap response.messages = {}

(* The sync ends: the walk back and forth through the pages never cycles.  *)
SyncEnds == <>Ended
=============================================================================
