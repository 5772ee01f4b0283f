----------------------------- MODULE SyncProofs -----------------------------
(***************************************************************************)
(* Theorems about ChannelSync, for every graph of messages, all page sizes *)
(* and limits: the store that is synced into stays closed under parents,   *)
(* an honest remote is banned only when it removed the channel or grew     *)
(* behind the cursor of a full sync; pages are sorted right, nothing is    *)
(* left unresolved, and all that the remote had is fetched.                *)
(***************************************************************************)
EXTENDS ChannelSync, Integers, FiniteSetTheorems, WellFoundedInduction, TLAPS

-----------------------------------------------------------------------------
(* The greatest and the least element of sets of numbers *)

(* A finite nonempty set of integers has a greatest element.  Otherwise    *)
(* take a smallest nonempty subset without one and drop an element.        *)
LEMMA MaximumExists ==
  ASSUME NEW S \in SUBSET Int, IsFiniteSet(S), S # {}
  PROVE  \E m \in S : \A x \in S : x <= m
<1> DEFINE HasMax(A) == \E m \in A : \A x \in A : x <= m
           Bad == {A \in SUBSET S : A # {} /\ ~HasMax(A)}
<1> SUFFICES ASSUME ~HasMax(S) PROVE FALSE
  OBVIOUS
<1>1. IsWellFoundedOn(StrictSubsetOrdering(S), SUBSET S)
  BY FS_StrictSubsetOrderingWellFounded, FS_FiniteSubsetsOfFinite
<1>2. Bad \subseteq SUBSET S /\ Bad # {}
  OBVIOUS
<1>3. PICK A \in Bad : \A B \in Bad : <<B, A>> \notin StrictSubsetOrdering(S)
  <2> HIDE DEF Bad
  <2>1. \E A \in Bad : \A B \in Bad : ~(<<B, A>> \in StrictSubsetOrdering(S))
    BY <1>1, <1>2, WFMin
  <2> QED
    BY <2>1
<1>4. PICK a \in A : TRUE
  OBVIOUS
<1> DEFINE B == A \ {a}
<1>5. B # {}
  <2> SUFFICES ASSUME B = {} PROVE FALSE
    OBVIOUS
  <2>1. A = {a} /\ a \in Int
    BY <1>4
  <2> QED
    BY <2>1
<1>6. <<B, A>> \in StrictSubsetOrdering(S)
  BY <1>4 DEF StrictSubsetOrdering
<1>7. HasMax(B)
  BY <1>3, <1>5, <1>6
<1>8. PICK m \in B : \A x \in B : x <= m
  BY <1>7
<1>9. a \in Int /\ m \in Int /\ A = B \cup {a}
  BY <1>4
<1>10. CASE a <= m
  <2>1. \A x \in A : x <= m
    BY <1>8, <1>9
  <2> QED
    BY <1>8, <1>9, <2>1
<1>11. CASE m <= a
  <2>1. \A x \in A : x <= a
    BY <1>8, <1>9, <1>11
  <2> QED
    BY <1>4, <2>1
<1> QED
  BY <1>9, <1>10, <1>11

(* The greatest element of a finite nonempty set of integers is Max of it. *)
LEMMA MaxProperty ==
  ASSUME NEW S \in SUBSET Int, IsFiniteSet(S), S # {}
  PROVE  Max(S) \in S /\ \A x \in S : x <= Max(S)
<1>1. \E m \in S : \A x \in S : x <= m
  BY MaximumExists
<1>2. \E m \in S : \A x \in S : m >= x
  BY <1>1
<1>3. Max(S) \in S /\ \A x \in S : Max(S) >= x
  BY <1>2, Zenon DEF Max
<1> QED
  BY <1>3

(* Every nonempty set of natural numbers has a least element. *)
LEMMA MinProperty ==
  ASSUME NEW S \in SUBSET Nat, S # {}
  PROVE  Min(S) \in S /\ \A x \in S : Min(S) <= x
<1>1. PICK m \in S : \A x \in S : ~(<<x, m>> \in OpToRel(<, Nat))
  BY NatLessThanWellFounded, WFMin, Zenon
<1>2. \A x \in S : ~(x < m)
  BY <1>1 DEF OpToRel
<1>3. \E k \in S : \A x \in S : k <= x
  BY <1>2
<1> QED
  BY <1>3, Zenon DEF Min

(* A function has finitely many values on a finite set. *)
LEMMA ImageFinite ==
  ASSUME NEW S, IsFiniteSet(S), NEW f
  PROVE  IsFiniteSet({f[h] : h \in S})
<1> DEFINE T == {f[h] : h \in S}
           g == [h \in S |-> f[h]]
<1>1. g \in Surjection(S, T)
  BY DEF Surjection
<1> QED
  BY <1>1, FS_Surjection

(* Induction over the natural numbers, for the set of those that have a property. *)
LEMMA SetInduction ==
  ASSUME NEW G \in SUBSET Nat, 0 \in G, \A n \in G : n + 1 \in G
  PROVE  G = Nat
<1> SUFFICES ASSUME Nat \ G # {} PROVE FALSE
  OBVIOUS
<1>1. PICK m \in Nat \ G : \A x \in Nat \ G : ~(<<x, m>> \in OpToRel(<, Nat))
  <2>1. \E m \in Nat \ G : \A x \in Nat \ G : ~(<<x, m>> \in OpToRel(<, Nat))
    BY NatLessThanWellFounded, WFMin, Zenon
  <2> QED
    BY <2>1
<1>2. m \in Nat /\ m # 0 /\ m - 1 \in Nat /\ m - 1 < m
  OBVIOUS
<1>3. m - 1 \in G
  BY <1>1, <1>2 DEF OpToRel
<1> QED
  BY <1>2, <1>3

-----------------------------------------------------------------------------
(* The parts of the invariants *)

GraphOK ==
  /\ parents \in [Msg -> SUBSET Msg] /\ \A m \in Msg : \A k \in parents[m] : k < m
  /\ height \in [Msg -> Nat] /\ \A k, m \in Msg : k < m => height[k] <= height[m]

(* Both stores are closed under parents, and a remote without the channel is empty. *)
StoresOK == Closed(local) /\ Closed(remote) /\ (gone => remote = {})

(* A page is looked through before anything is requested, and a response is received before *)
(* the next request.                                                                       *)
Stages ==
  /\ todo \subseteq response.messages /\ (todo # {} => pc = "classify")
  /\ batch # {} => pc \in {"receive", "banned"}

(* What computePartialDAG has looked at has a missing parent, is to be requested or is stored. *)
Partial == pc = "classify" => response.messages \ todo \subseteq unknown \cup known \cup local

(* The remote keeps what it has offered, unless it removes the channel. *)
Offered == ~gone => response.messages \cup known \cup batch \subseteq remote

(* What is requested or received has all parents before it, or in the store. *)
Ready == ~gone => \A m \in known \cup batch : parents[m] \subseteq local \cup known \cup batch
InOrder == \A x \in batch, y \in known : x < y

Before(x) == {k \in remote : k < x}

(* A full sync goes through the remote's messages in order, and leaves none behind, as long as *)
(* the remote gains none that it has passed.                                                   *)
Full ==
  isFull /\ ~gone /\ ~overtaken =>
    /\ unresolved = {}
    /\ pc = "clamp" => cursor = AtHeight(0)
    /\ pc = "read" => cursor = AtHeight(0) \/ (cursor.hash \in Msg /\ Before(cursor.hash) \subseteq local)
    /\ pc \in {"classify", "bulk", "receive"} =>
         external = {} /\ (response.forward # None =>
           Before(response.forward) \subseteq local \cup todo \cup known \cup batch)
    /\ pc = "classify" =>
         unknown = {} /\ \A m \in response.messages : parents[m] \subseteq local \cup response.messages

SyncInv ==
  /\ TypeOK /\ GraphOK /\ StoresOK /\ Stages
  /\ Partial /\ Offered /\ Ready /\ InOrder

FullInv == Full /\ HonestRemoteNotBanned

-----------------------------------------------------------------------------
(* Pages *)

LEMMA MsgTypes ==
  /\ IsFiniteSet(Msg) /\ Msg \subseteq Nat /\ None \notin Nat /\ None \notin Msg
  /\ Limit \in Nat \ {0} /\ BulkLimit \in Nat \ {0} /\ MaxUnresolved \in Nat
BY SyncAssumption

LEMMA SubsetsFinite ==
  ASSUME NEW S \in SUBSET Msg
  PROVE  IsFiniteSet(S) /\ Cardinality(S) \in Nat /\ Cardinality(S) <= Cardinality(Msg)
         /\ Cardinality(Msg) \in Nat
BY MsgTypes, FS_Subset, FS_CardinalityType

LEMMA LeastMessage ==
  ASSUME NEW S \in SUBSET Msg, S # {}
  PROVE  Min(S) \in S /\ Min(S) \in Msg /\ \A x \in S : Min(S) <= x
BY MsgTypes, MinProperty

(* The first k messages are below the others. *)
LEMMA FirstBelow ==
  ASSUME NEW S \in SUBSET Msg, NEW k \in Nat
  PROVE  /\ First(k, S) \subseteq S
         /\ \A x \in First(k, S), y \in S \ First(k, S) : x < y
<1>1. First(k, S) \subseteq S
  BY DEF First
<1>2. ASSUME NEW x \in First(k, S), NEW y \in S \ First(k, S), ~(x < y)
      PROVE  FALSE
  <2> DEFINE L(z) == {w \in S : w < z}
  <2>1. x \in S /\ y \in S /\ Cardinality(L(x)) < k /\ ~(Cardinality(L(y)) < k)
    BY <1>2 DEF First
  <2>2. x \in Nat /\ y \in Nat /\ y <= x
    BY <1>2, <2>1, MsgTypes
  <2>3. L(y) \subseteq L(x)
    <3> SUFFICES ASSUME NEW w \in S, w < y PROVE w < x
      OBVIOUS
    <3>1. w \in Nat
      BY MsgTypes
    <3> QED
      BY <2>2, <3>1
  <2>4. L(x) \in SUBSET Msg /\ L(y) \in SUBSET Msg
    OBVIOUS
  <2> HIDE DEF L
  <2>5. IsFiniteSet(L(x)) /\ Cardinality(L(x)) \in Nat /\ Cardinality(L(y)) \in Nat
    BY <2>4, SubsetsFinite
  <2>6. Cardinality(L(y)) <= Cardinality(L(x))
    BY <2>3, <2>5, FS_Subset
  <2> QED
    BY <2>1, <2>5, <2>6
<1> QED
  BY <1>1, <1>2

LEMMA FirstOfOne ==
  ASSUME NEW S \in SUBSET Msg, NEW x \in First(1, S), NEW y \in S
  PROVE  ~(y < x)
<1> SUFFICES ASSUME y < x PROVE FALSE
  OBVIOUS
<1> DEFINE L == {w \in S : w < x}
<1>1. L \in SUBSET Msg /\ L # {}
  OBVIOUS
<1>2. Cardinality(L) < 1
  BY DEF First
<1> HIDE DEF L
<1>3. Cardinality(L) \in Nat /\ IsFiniteSet(L)
  BY <1>1, SubsetsFinite
<1>4. Cardinality(L) = 0
  BY <1>2, <1>3
<1> QED
  BY <1>1, <1>3, <1>4, FS_EmptySet

LEMMA LeafHeightType ==
  ASSUME TypeOK, NEW S \in SUBSET Msg
  PROVE  MinLeafHeight(S) \in Nat
<1>1. CASE S = {}
  BY <1>1 DEF MinLeafHeight
<1>2. CASE S # {}
  <2> DEFINE H == {height[m] : m \in S}
  <2>1. H \in SUBSET Nat /\ H # {}
    BY <1>2 DEF TypeOK
  <2>2. Min(H) \in Nat
    <3> HIDE DEF H
    <3> QED
      BY <2>1, MinProperty
  <2> QED
    BY <1>2, <2>2 DEF MinLeafHeight
<1> QED
  BY <1>1, <1>2

LEMMA MinOfTwo ==
  ASSUME NEW a \in Nat, NEW b \in Nat
  PROVE  Min({a, b}) \in Nat /\ (a = 0 => Min({a, b}) = 0)
<1>1. {a, b} \in SUBSET Nat /\ {a, b} # {}
  OBVIOUS
<1>2. Min({a, b}) \in {a, b} /\ \A x \in {a, b} : Min({a, b}) <= x
  BY <1>1, MinProperty
<1>3. Min({a, b}) \in Nat /\ Min({a, b}) <= a
  BY <1>2
<1> QED
  BY <1>3

LEMMA TruncatedLeaves ==
  ASSUME NEW S \in SUBSET Msg, NEW leaves \in Truncated(LeavesOf(S))
  PROVE  leaves \in SUBSET Msg
<1>1. LeavesOf(S) \in SUBSET Msg
  BY DEF LeavesOf
<1> QED
  BY <1>1 DEF Truncated

IsCursor(c) == c \in [hash : {None} \cup Msg, height : Nat]

LEMMA SmallestType ==
  ASSUME NEW S \in SUBSET Msg
  PROVE  SmallestOrNone(S) \in {None} \cup Msg
BY LeastMessage DEF SmallestOrNone

LEMMA StartType ==
  ASSUME NEW S \in SUBSET Msg, NEW c
  PROVE  StartOf(S, c) \in SUBSET S
<1>1. First(1, {m \in S : height[m] = c.height}) \subseteq S
  BY DEF First
<1> QED
  BY <1>1 DEF StartOf

LEMMA PageType ==
  ASSUME NEW S \in SUBSET Msg, NEW c, IsCursor(c), NEW b \in BOOLEAN
  PROVE  /\ Page(S, c, b) \in [messages : SUBSET Msg, forward : {None} \cup Msg, backward : {None} \cup Msg]
         /\ Page(S, c, b).messages \subseteq S
<1>0. c.hash \in {None} \cup Msg
  BY DEF IsCursor
<1>1. CASE StartOf(S, c) = {}
  BY <1>1 DEF Page, Empty
<1>2. CASE StartOf(S, c) # {} /\ b
  <2> DEFINE before == {m \in S : m < c.hash}
             page == Last(Limit, before)
  <2>1. before \in SUBSET Msg /\ page \subseteq before /\ page \subseteq S
    BY DEF Last
  <2>2. page # before => page # {}
    <3> SUFFICES ASSUME page = {}, before # {} PROVE FALSE
      OBVIOUS
    <3> HIDE DEF before
    <3>1. IsFiniteSet(before) /\ before \in SUBSET Int
      BY <2>1, SubsetsFinite, MsgTypes
    <3>2. PICK top \in before : \A x \in before : x <= top
      BY <3>1, MaximumExists
    <3>3. {x \in before : x > top} = {}
      <4> SUFFICES ASSUME NEW x \in before, x > top PROVE FALSE
        OBVIOUS
      <4>1. x \in Int /\ top \in Int /\ x <= top
        BY <3>1, <3>2
      <4> QED
        BY <4>1
    <3>4. Cardinality({x \in before : x > top}) = 0
      BY <3>3, FS_EmptySet
    <3>5. top \in page
      BY <3>4, MsgTypes DEF Last
    <3> QED
      BY <3>5
  <2>3. page # before => Min(page) \in Msg
    <3> HIDE DEF page
    <3>1. page \in SUBSET Msg
      BY <2>1
    <3> QED
      BY <2>2, <3>1, LeastMessage
  <2> HIDE DEF before, page
  <2> QED
    BY <1>0, <1>2, <2>1, <2>3 DEF Page, Backward, before, page
<1>3. CASE StartOf(S, c) # {} /\ ~b
  <2> DEFINE from == Min(StartOf(S, c))
             rest == {m \in S : m >= from}
             page == First(Limit, rest)
  <2>1. from \in Msg
    BY <1>3, StartType, LeastMessage
  <2>2. page \subseteq S /\ rest \ page \in SUBSET Msg
    BY DEF First
  <2>3. SmallestOrNone(rest \ page) \in {None} \cup Msg
    <3> HIDE DEF rest, page
    <3> QED
      BY <2>2, SmallestType
  <2> HIDE DEF from, rest, page
  <2>4. Forward(S, c) = [messages |-> page, forward |-> SmallestOrNone(rest \ page),
                         backward |-> IF \E m \in S : m < from THEN from ELSE None]
    BY DEF Forward, from, rest, page
  <2>5. Page(S, c, b) = Forward(S, c)
    BY <1>3 DEF Page
  <2> QED
    BY <2>1, <2>2, <2>3, <2>4, <2>5
<1> QED
  BY <1>1, <1>2, <1>3

(* A forward page has everything of the remote between its start and its end, and leads to what *)
(* follows it.                                                                                   *)
LEMMA ForwardPage ==
  ASSUME NEW S \in SUBSET Msg, NEW c, IsCursor(c), StartOf(S, c) # {}
  PROVE  LET from == Min(StartOf(S, c))
             page == Forward(S, c).messages
             next == Forward(S, c).forward IN
         /\ from \in StartOf(S, c) /\ from \in Msg
         /\ \A m \in page, k \in S : k < m => k < from \/ k \in page
         /\ next # None => \A k \in S : k < next => k < from \/ k \in page
<1> DEFINE from == Min(StartOf(S, c))
           rest == {m \in S : m >= from}
           page == First(Limit, rest)
<1>1. from \in StartOf(S, c) /\ from \in Msg
  BY StartType, LeastMessage
<1>2. rest \in SUBSET Msg /\ rest \ page \in SUBSET Msg
  OBVIOUS
<1>3. page \subseteq rest /\ \A x \in page, y \in rest \ page : x < y
  <2> HIDE DEF rest
  <2> QED
    BY <1>2, MsgTypes, FirstBelow
<1>4. \A k \in S : ~(k < from) => k \in rest
  <2> SUFFICES ASSUME NEW k \in S, ~(k < from) PROVE k >= from
    OBVIOUS
  <2>1. k \in Nat /\ from \in Nat
    BY <1>1, MsgTypes
  <2> HIDE DEF from
  <2> QED
    BY <2>1
<1>5. \A m \in page, k \in S : k < m => k < from \/ k \in page
  <2> SUFFICES ASSUME NEW m \in page, NEW k \in S, k < m, ~(k < from), k \notin page PROVE FALSE
    OBVIOUS
  <2>1. m < k
    BY <1>3, <1>4
  <2>2. m \in Nat /\ k \in Nat
    BY <1>2, <1>3, MsgTypes
  <2> QED
    BY <2>1, <2>2
<1>6. ASSUME SmallestOrNone(rest \ page) # None, NEW k \in S, k < SmallestOrNone(rest \ page)
      PROVE  k < from \/ k \in page
  <2> SUFFICES ASSUME ~(k < from), k \notin page PROVE FALSE
    OBVIOUS
  <2>1. k \in rest \ page
    BY <1>4
  <2> HIDE DEF rest, page
  <2>2. SmallestOrNone(rest \ page) = Min(rest \ page)
    BY <1>6 DEF SmallestOrNone
  <2>3. Min(rest \ page) <= k /\ Min(rest \ page) \in Nat
    BY <1>2, <2>1, LeastMessage, MsgTypes
  <2> QED
    BY <1>6, <2>2, <2>3, MsgTypes
<1>7. Forward(S, c).messages = page /\ Forward(S, c).forward = SmallestOrNone(rest \ page)
  BY DEF Forward
<1> HIDE DEF from, rest, page
<1> QED
  BY <1>1, <1>5, <1>6, <1>7 DEF from

(* A full sync starts with the first message of the remote. *)
LEMMA FirstStart ==
  ASSUME TypeOK, GraphOK, NEW S \in SUBSET Msg, NEW x \in StartOf(S, AtHeight(0)), NEW k \in S
  PROVE  ~(k < x)
<1> SUFFICES ASSUME k < x PROVE FALSE
  OBVIOUS
<1> DEFINE Z == {m \in S : height[m] = 0}
<1>1. StartOf(S, AtHeight(0)) = First(1, Z)
  BY DEF StartOf, AtHeight
<1>2. x \in Z
  BY <1>1 DEF First
<1>3. height[k] <= height[x] /\ height[k] \in Nat /\ height[x] = 0
  BY <1>2 DEF GraphOK
<1>4. k \in Z
  BY <1>3
<1>5. Z \in SUBSET Msg
  OBVIOUS
<1> HIDE DEF Z
<1> QED
  BY <1>1, <1>4, <1>5, FirstOfOne

-----------------------------------------------------------------------------
(* Types and graph *)

LEMMA GraphStep ==
  ASSUME GraphOK, [Next]_vars
  PROVE  GraphOK'
<1>1. UNCHANGED graph
  BY DEF vars, Next, SyncStep, Start, RemoteClamp, RemoteRead, Classify, Classified, Bulk, Receive,
         BulkEnd, Advance, RemoteInsert, LocalInsert, RemoteForget, Timeout
<1> QED
  BY <1>1 DEF GraphOK, graph

LEMMA TypesInit == Init => TypeOK /\ GraphOK
<1> SUFFICES ASSUME Init PROVE TypeOK /\ GraphOK
  OBVIOUS
<1>1. GraphOK
  BY GraphsAssumption DEF Init, GraphOK
<1>2. TypeOK
  BY <1>1 DEF Init, TypeOK, GraphOK, AtHeight, Empty
<1> QED
  BY <1>1, <1>2

LEMMA StartTypes ==
  ASSUME TypeOK, Start
  PROVE  TypeOK'
<1>1. PICK leaves \in Truncated(LeavesOf(local)) : cursor' = AtHeight(FirstHeight(isFull, leaves))
  BY DEF Start
<1>2. leaves \in SUBSET Msg
  BY TruncatedLeaves DEF TypeOK
<1>3. FirstHeight(isFull, leaves) \in Nat
  BY <1>2, LeafHeightType DEF FirstHeight
<1>4. cursor' \in [hash : {None} \cup Msg, height : Nat]
  BY <1>1, <1>3 DEF AtHeight
<1> QED
  BY <1>4 DEF TypeOK, Start, graph, stores, dag

LEMMA RemoteClampTypes ==
  ASSUME TypeOK, RemoteClamp
  PROVE  TypeOK'
<1>1. PICK leaves \in Truncated(LeavesOf(remote)) : cursor' = AtHeight(StartHeight(cursor.height, leaves))
  BY DEF RemoteClamp
<1>2. leaves \in SUBSET Msg /\ cursor.height \in Nat
  BY TruncatedLeaves DEF TypeOK
<1>3. StartHeight(cursor.height, leaves) \in Nat
  BY <1>2, LeafHeightType, MinOfTwo DEF StartHeight
<1>4. cursor' \in [hash : {None} \cup Msg, height : Nat]
  BY <1>1, <1>3 DEF AtHeight
<1> QED
  BY <1>4 DEF TypeOK, RemoteClamp, graph, stores, dag

LEMMA RemoteReadTypes ==
  ASSUME TypeOK, RemoteRead
  PROVE  TypeOK' /\ response'.messages \subseteq remote
<1>1. /\ response' \in [messages : SUBSET Msg, forward : {None} \cup Msg, backward : {None} \cup Msg]
      /\ response'.messages \subseteq remote
  BY PageType DEF RemoteRead, TypeOK, IsCursor
<1>2. TypeOK'
  BY <1>1 DEF TypeOK, RemoteRead, graph, stores
<1> QED
  BY <1>1, <1>2

LEMMA ClassifyTypes ==
  ASSUME TypeOK, Classify
  PROVE  TypeOK' /\ Min(todo) \in todo /\ \A x \in todo : Min(todo) <= x
<1>1. Min(todo) \in todo /\ Min(todo) \in Msg /\ \A x \in todo : Min(todo) <= x
  BY LeastMessage DEF TypeOK, Classify
<1>2. MissingParents(Min(todo)) \subseteq Msg
  BY <1>1 DEF MissingParents, TypeOK
<1>3. TypeOK'
  BY <1>1, <1>2 DEF TypeOK, Classify, graph, stores
<1> QED
  BY <1>1, <1>3

LEMMA BulkTypes ==
  ASSUME TypeOK, Bulk
  PROVE  TypeOK' /\ First(BulkLimit, known) \subseteq known
<1>1. First(BulkLimit, known) \subseteq known
  BY DEF First
<1> QED
  BY <1>1 DEF TypeOK, Bulk, graph, stores, dag

LEMMA ReceiveTypes ==
  ASSUME TypeOK, Receive
  PROVE  TypeOK' /\ Min(batch) \in batch /\ \A x \in batch : Min(batch) <= x
<1>1. Min(batch) \in batch /\ Min(batch) \in Msg /\ \A x \in batch : Min(batch) <= x
  BY LeastMessage DEF TypeOK, Receive
<1>2. TypeOK'
  BY <1>1 DEF TypeOK, Receive, graph, dag
<1> QED
  BY <1>1, <1>2

LEMMA AdvanceTypes ==
  ASSUME TypeOK, Advance
  PROVE  TypeOK' /\ StillUnresolved \in SUBSET Msg
<1>1. StillUnresolved \in SUBSET Msg
  BY DEF TypeOK, StillUnresolved
<1>2. NextHash(StillUnresolved) \in {None} \cup Msg
  BY DEF TypeOK, NextHash
<1>3. cursor' \in [hash : {None} \cup Msg, height : Nat]
  BY <1>2 DEF Advance, AtHash, TypeOK
<1>4. unresolved' \in SUBSET Msg
  BY <1>1 DEF Advance
<1>5. isFull' \in BOOLEAN
  BY DEF Advance, TypeOK
<1>6. pc' \in {"start", "failed", "done", "read"}
  BY DEF Advance
<1>7. UNCHANGED <<graph, stores, snapshot, response, dag, known, batch>>
  BY DEF Advance
<1> QED
  BY <1>1, <1>3, <1>4, <1>5, <1>6, <1>7 DEF TypeOK, graph, stores, dag

LEMMA EasyTypes ==
  ASSUME TypeOK,
         \/ Classified \/ BulkEnd \/ RemoteForget \/ Timeout \/ UNCHANGED vars
         \/ \E m \in Msg : RemoteInsert(m) \/ LocalInsert(m)
  PROVE  TypeOK'
<1>1. CASE Classified \/ BulkEnd \/ Timeout
  BY <1>1 DEF TypeOK, Classified, BulkEnd, Timeout, graph, stores, dag
<1>2. CASE RemoteForget \/ \E m \in Msg : RemoteInsert(m) \/ LocalInsert(m)
  BY <1>2 DEF TypeOK, RemoteForget, RemoteInsert, LocalInsert, graph, sync, dag
<1>3. CASE UNCHANGED vars
  BY <1>3 DEF TypeOK, vars, graph, stores, dag
<1> QED
  BY <1>1, <1>2, <1>3

-----------------------------------------------------------------------------
(* The stores and what travels between them *)

LEMMA SyncInit == Init => SyncInv
<1> SUFFICES ASSUME Init PROVE SyncInv
  OBVIOUS
<1>1. StoresOK /\ Stages /\ Partial
  BY DEF Init, StoresOK, Stages, Partial, Empty
<1>2. Offered /\ Ready /\ InOrder
  BY DEF Init, Offered, Ready, InOrder, Empty
<1> QED
  BY <1>1, <1>2, TypesInit DEF SyncInv

LEMMA PullStep ==
  ASSUME SyncInv, Start \/ RemoteClamp \/ RemoteRead
  PROVE  SyncInv'
<1> USE DEF SyncInv
<1>1. TypeOK' /\ (RemoteRead => response'.messages \subseteq remote)
  BY StartTypes, RemoteClampTypes, RemoteReadTypes
<1>2. GraphOK'
  BY GraphStep DEF Next, SyncStep
<1>3. StoresOK' /\ batch' = {}
  BY DEF StoresOK, Closed, Stages, Start, RemoteClamp, RemoteRead, graph, stores
<1>4. CASE Start \/ RemoteClamp
  BY <1>1, <1>2, <1>3, <1>4 DEF Stages, Partial, Offered, Ready, InOrder, Start, RemoteClamp, graph, stores, dag
<1>5. CASE RemoteRead
  BY <1>1, <1>2, <1>3, <1>5 DEF Stages, Partial, Offered, Ready, InOrder, RemoteRead, graph, stores
<1> QED
  BY <1>4, <1>5

LEMMA ClassifyStep ==
  ASSUME SyncInv, Classify
  PROVE  SyncInv'
<1> USE DEF SyncInv
<1> DEFINE m == Min(todo)
<1>1. TypeOK' /\ GraphOK' /\ m \in todo /\ m \in Msg
  BY ClassifyTypes, GraphStep DEF Next, SyncStep, TypeOK
<1>2. StoresOK' /\ batch = {} /\ batch' = {} /\ pc' = "classify"
  BY DEF StoresOK, Closed, Stages, Classify, graph, stores
<1>3. /\ todo' = todo \ {m} /\ UNCHANGED <<graph, stores, response>>
      /\ unknown' = IF MissingParents(m) = {} THEN unknown ELSE unknown \cup {m}
      /\ known' = IF MissingParents(m) = {} /\ m \notin local THEN known \cup {m} ELSE known
  BY DEF Classify
<1>4. Stages' /\ Partial' /\ InOrder'
  <2> HIDE DEF m
  <2> QED
    BY <1>1, <1>2, <1>3 DEF Stages, Partial, InOrder, stores, Classify
<1>5. Offered'
  <2> HIDE DEF m
  <2> QED
    BY <1>1, <1>2, <1>3 DEF Stages, Offered, stores
<1>6. Ready'
  <2>1. MissingParents(m) = {} => parents[m] \subseteq local \cup known
    BY DEF MissingParents, Partial, Classify
  <2> HIDE DEF m
  <2> QED
    BY <1>1, <1>2, <1>3, <2>1 DEF Ready, stores, graph
<1> QED
  BY <1>1, <1>2, <1>4, <1>5, <1>6

LEMMA BulkStep ==
  ASSUME SyncInv, Bulk
  PROVE  /\ SyncInv'
         /\ ~gone => batch = {} /\ known' \cup batch' = known
<1> USE DEF SyncInv
<1> DEFINE asked == First(BulkLimit, known)
<1>1. TypeOK' /\ GraphOK' /\ asked \subseteq known
  BY BulkTypes, GraphStep DEF Next, SyncStep
<1>2. StoresOK' /\ batch = {} /\ todo = {} /\ pc' \in {"receive", "banned"}
  BY DEF StoresOK, Closed, Stages, Bulk, graph, stores
<1>3. /\ UNCHANGED <<graph, stores, response, dag>>
      /\ gone => UNCHANGED <<known, batch>>
      /\ ~gone => batch' = asked \cap remote /\ known' = known \ asked
  BY DEF Bulk
<1>4. Stages' /\ Partial'
  BY <1>2, <1>3 DEF Stages, Partial, dag
<1>5. InOrder'
  <2>1. \A x \in asked, y \in known \ asked : x < y
    BY FirstBelow, MsgTypes DEF TypeOK
  <2> HIDE DEF asked
  <2> QED
    BY <1>3, <2>1 DEF InOrder
<1>6. ~gone => asked \subseteq remote
  BY <1>1 DEF Offered
<1> HIDE DEF asked
<1>7. ~gone => known' \cup batch' = known
  BY <1>1, <1>3, <1>6
<1>8. Offered' /\ Ready'
  BY <1>2, <1>3, <1>7 DEF Offered, Ready, stores, graph
<1> QED
  BY <1>1, <1>2, <1>4, <1>5, <1>7, <1>8

LEMMA ReceiveStep ==
  ASSUME SyncInv, Receive
  PROVE  /\ SyncInv'
         /\ ~gone => pc' = pc /\ local' \cup batch' = local \cup batch
<1> USE DEF SyncInv
<1> DEFINE m == Min(batch)
<1>1. TypeOK' /\ GraphOK' /\ m \in batch /\ m \in Msg /\ \A x \in batch : m <= x
  BY ReceiveTypes, GraphStep DEF Next, SyncStep, TypeOK
<1>2. /\ UNCHANGED <<graph, remote, gone, response, dag, known>> /\ batch' = batch \ {m}
      /\ \/ (m \in local \/ parents[m] \subseteq local) /\ local' = local \cup {m} /\ pc' = pc
         \/ ~(parents[m] \subseteq local) /\ local' = local /\ pc' = "banned"
  BY DEF Receive
<1>3. ~gone => parents[m] \subseteq local
  <2> SUFFICES ASSUME ~gone, NEW k \in parents[m], k \notin local PROVE FALSE
    OBVIOUS
  <2>1. k \in known \cup batch
    BY <1>1 DEF Ready
  <2>2. k < m /\ k \in Nat /\ m \in Nat
    BY <1>1, MsgTypes DEF GraphOK
  <2>3. m <= k
    BY <1>1, <2>1, <2>2 DEF InOrder
  <2> QED
    BY <2>2, <2>3
<1> HIDE DEF m
<1>4. ~gone => pc' = pc /\ local' = local \cup {m}
  BY <1>2, <1>3
<1>5. StoresOK'
  BY <1>1, <1>2 DEF StoresOK, Closed, graph
<1>6. todo = {} /\ pc' \in {"receive", "banned"}
  BY <1>2 DEF Receive, Stages
<1>7. Stages' /\ Partial' /\ InOrder' /\ Offered'
  BY <1>2, <1>6 DEF Stages, Partial, InOrder, Offered, dag
<1>8. Ready'
  BY <1>1, <1>2, <1>4 DEF Ready, graph
<1> QED
  BY <1>1, <1>2, <1>4, <1>5, <1>7, <1>8

LEMMA QuietStep ==
  ASSUME SyncInv, Classified \/ BulkEnd \/ Advance \/ Timeout
  PROVE  SyncInv' /\ todo = {} /\ batch = {}
<1> USE DEF SyncInv
<1>1. TypeOK' /\ GraphOK'
  BY EasyTypes, AdvanceTypes, GraphStep DEF Next, SyncStep
<1>2. /\ UNCHANGED <<graph, stores, response, dag, known, batch>>
      /\ todo = {} /\ batch = {} /\ pc' # "classify"
  <2>1. CASE Classified
    BY <2>1 DEF Stages, Classified
  <2>2. CASE BulkEnd
    BY <2>2 DEF Stages, BulkEnd
  <2>3. CASE Advance
    BY <2>3 DEF Stages, Advance
  <2>4. CASE Timeout
    BY <2>4 DEF Stages, Timeout
  <2> QED
    BY <2>1, <2>2, <2>3, <2>4
<1>3. StoresOK' /\ Stages' /\ Partial'
  BY <1>2 DEF StoresOK, Closed, Stages, Partial, graph, stores, dag
<1>4. Offered' /\ Ready' /\ InOrder'
  BY <1>2 DEF Offered, Ready, InOrder, graph, stores
<1> QED
  BY <1>1, <1>2, <1>3, <1>4

LEMMA MeanwhileStep ==
  ASSUME SyncInv, RemoteForget \/ UNCHANGED vars \/ \E m \in Msg : RemoteInsert(m) \/ LocalInsert(m)
  PROVE  SyncInv'
<1> USE DEF SyncInv
<1>1. TypeOK' /\ GraphOK'
  BY EasyTypes, GraphStep DEF Next, SyncStep
<1>2. UNCHANGED <<graph, sync>>
  BY DEF RemoteForget, RemoteInsert, LocalInsert, vars, stores, sync
<1>3. StoresOK' /\ local \subseteq local' /\ (~gone' => ~gone /\ remote \subseteq remote')
  <2>1. CASE RemoteForget
    BY <2>1 DEF RemoteForget, StoresOK, Closed, graph
  <2>2. CASE UNCHANGED vars
    BY <2>2 DEF StoresOK, Closed, vars, stores, graph
  <2>3. CASE \E m \in Msg : RemoteInsert(m)
    BY <2>3 DEF RemoteInsert, StoresOK, Closed, graph
  <2>4. CASE \E m \in Msg : LocalInsert(m)
    BY <2>4 DEF LocalInsert, StoresOK, Closed, graph
  <2> QED
    BY <2>1, <2>2, <2>3, <2>4
<1>4. Stages' /\ Partial' /\ InOrder'
  BY <1>2, <1>3 DEF Stages, Partial, InOrder, sync, dag
<1>5. Offered' /\ Ready'
  BY <1>2, <1>3 DEF Offered, Ready, sync, graph
<1> QED
  BY <1>1, <1>3, <1>4, <1>5

LEMMA SyncInvStep ==
  ASSUME SyncInv, [Next]_vars
  PROVE  SyncInv'
BY PullStep, ClassifyStep, BulkStep, ReceiveStep, QuietStep, MeanwhileStep DEF Next, SyncStep

-----------------------------------------------------------------------------
(* Full syncs and bans *)

LEMMA FullPull ==
  ASSUME SyncInv, FullInv, Start \/ RemoteClamp
  PROVE  FullInv'
<1> USE DEF SyncInv, FullInv
<1>1. UNCHANGED <<isFull, gone, overtaken, unresolved>> /\ pc' \in {"clamp", "read"}
  BY DEF Start, RemoteClamp, stores
<1>2. ASSUME isFull, ~gone, ~overtaken PROVE cursor' = AtHeight(0)
  <2>1. CASE Start
    BY <1>2, <2>1 DEF Start, FirstHeight
  <2>2. CASE RemoteClamp
    <3>1. PICK leaves \in Truncated(LeavesOf(remote)) : cursor' = AtHeight(StartHeight(cursor.height, leaves))
      BY <2>2 DEF RemoteClamp
    <3>2. MinLeafHeight(leaves) \in Nat
      BY TruncatedLeaves, LeafHeightType DEF TypeOK
    <3>3. cursor.height = 0
      BY <1>2, <2>2 DEF Full, RemoteClamp, AtHeight
    <3> QED
      BY <3>1, <3>2, <3>3, MinOfTwo DEF StartHeight
  <2> QED
    BY <2>1, <2>2
<1> QED
  BY <1>1, <1>2 DEF Full, HonestRemoteNotBanned

LEMMA FullRead ==
  ASSUME SyncInv, FullInv, RemoteRead
  PROVE  FullInv'
<1> USE DEF SyncInv, FullInv
<1>1. /\ UNCHANGED <<isFull, gone, overtaken, unresolved, remote, local, cursor>> /\ pc' = "classify"
      /\ response' = Page(remote, cursor, unresolved # {})
      /\ todo' = response'.messages /\ unknown' = {} /\ external' = {}
  BY DEF RemoteRead, stores
<1>2. ASSUME isFull, ~gone, ~overtaken
      PROVE  /\ \A m \in response'.messages, k \in remote : k < m => k \in local \cup response'.messages
             /\ response'.forward # None =>
                  \A k \in remote : k < response'.forward => k \in local \cup response'.messages
  <2>1. remote \in SUBSET Msg /\ IsCursor(cursor) /\ unresolved = {}
    BY <1>2 DEF TypeOK, IsCursor, Full
  <2>2. CASE StartOf(remote, cursor) = {}
    BY <1>1, <2>2 DEF Page, Empty
  <2>3. CASE StartOf(remote, cursor) # {}
    <3> DEFINE from == Min(StartOf(remote, cursor))
    <3>1. response' = Forward(remote, cursor)
      BY <1>1, <2>1, <2>3 DEF Page
    <3>2. from \in StartOf(remote, cursor) /\ from \in Msg
      BY <2>1, <2>3, ForwardPage
    <3>3. \A k \in remote : k < from => k \in local
      <4>1. CASE cursor = AtHeight(0)
        BY <2>1, <3>2, <4>1, FirstStart
      <4>2. CASE cursor.hash \in Msg /\ Before(cursor.hash) \subseteq local
        <5>1. from = cursor.hash
          BY <3>2, <4>2, MsgTypes DEF StartOf
        <5> QED
          BY <4>2, <5>1 DEF Before
      <4> QED
        BY <1>2, <4>1, <4>2 DEF Full, RemoteRead
    <3>4. /\ \A m \in response'.messages, k \in remote : k < m => k < from \/ k \in response'.messages
          /\ response'.forward # None =>
               \A k \in remote : k < response'.forward => k < from \/ k \in response'.messages
      BY <2>1, <2>3, <3>1, ForwardPage
    <3> HIDE DEF from
    <3> QED
      BY <3>3, <3>4
  <2> QED
    BY <2>2, <2>3
<1>3. \A m \in response'.messages : parents'[m] \subseteq remote /\ \A k \in parents'[m] : k < m
  <2>1. parents' = parents /\ response'.messages \subseteq remote /\ remote \in SUBSET Msg
    BY <1>1, PageType DEF RemoteRead, graph, TypeOK, IsCursor
  <2> QED
    BY <2>1 DEF StoresOK, Closed, GraphOK
<1>4. Full'
  BY <1>1, <1>2, <1>3 DEF Full, Before
<1> QED
  BY <1>1, <1>4 DEF HonestRemoteNotBanned

LEMMA FullClassify ==
  ASSUME SyncInv, FullInv, Classify
  PROVE  FullInv'
<1> USE DEF SyncInv, FullInv
<1> DEFINE m == Min(todo)
<1>1. m \in todo /\ m \in Msg /\ \A x \in todo : m <= x
  BY ClassifyTypes DEF TypeOK
<1>2. /\ UNCHANGED <<isFull, gone, overtaken, unresolved, remote, local, response, batch, pc>>
      /\ todo' = todo \ {m}
      /\ external' = external \cup (MissingParents(m) \ unknown)
      /\ unknown' = IF MissingParents(m) = {} THEN unknown ELSE unknown \cup {m}
      /\ known' = IF MissingParents(m) = {} /\ m \notin local THEN known \cup {m} ELSE known
      /\ parents' = parents
  BY DEF Classify, stores, graph
<1>3. ASSUME isFull, ~gone, ~overtaken PROVE MissingParents(m) = {}
  <2> SUFFICES ASSUME NEW p \in parents[m], p \notin (response.messages \ todo) \cup local PROVE FALSE
    BY <1>3 DEF MissingParents, Full, Classify
  <2>1. m \in remote /\ m \in response.messages
    BY <1>1, <1>3 DEF Offered, Stages
  <2>2. p < m /\ p \in Nat /\ m \in Nat
    BY <1>1, MsgTypes DEF GraphOK
  <2>3. p \in local \cup response.messages
    BY <1>3, <2>1 DEF Full, Classify
  <2>4. p \in todo
    BY <2>3
  <2> QED
    BY <1>1, <2>2, <2>4
<1> HIDE DEF m
<1>4. Full'
  BY <1>1, <1>2, <1>3 DEF Full, Before, Classify
<1> QED
  BY <1>2, <1>4 DEF HonestRemoteNotBanned

LEMMA FullReceive ==
  ASSUME SyncInv, FullInv, Bulk \/ Receive
  PROVE  FullInv'
<1> USE DEF SyncInv, FullInv
<1>1. /\ UNCHANGED <<isFull, gone, overtaken, unresolved, remote, response, dag>>
      /\ pc' \in {"receive", "banned"} /\ pc \in {"bulk", "receive"}
  BY DEF Bulk, Receive, stores
<1>2. ~gone => pc' = "receive" /\ local \cup known \cup batch \subseteq local' \cup known' \cup batch'
  <2>1. CASE Bulk
    <3>1. local' = local
      BY <2>1 DEF Bulk, stores
    <3> QED
      BY <2>1, <3>1, BulkStep DEF Bulk
  <2>2. CASE Receive
    <3>1. known' = known /\ pc = "receive"
      BY <2>2 DEF Receive
    <3> QED
      BY <2>2, <3>1, ReceiveStep
  <2> QED
    BY <2>1, <2>2
<1>3. Full'
  BY <1>1, <1>2 DEF Full, Before, dag
<1> QED
  BY <1>1, <1>2, <1>3 DEF HonestRemoteNotBanned

LEMMA FullQuiet ==
  ASSUME SyncInv, FullInv, Classified \/ BulkEnd \/ Timeout
  PROVE  FullInv'
<1> USE DEF SyncInv, FullInv
<1>1. UNCHANGED <<isFull, gone, overtaken, unresolved, stores, response, dag, known, batch>>
  BY DEF Classified, BulkEnd, Timeout, stores
<1>2. pc' = "failed" \/ (pc' = "bulk" /\ pc \in {"classify", "receive"}) \/ (pc' = "banned" /\ Classified)
  BY DEF Classified, BulkEnd, Timeout
<1>3. pc' = "banned" => gone \/ overtaken
  BY <1>2 DEF Full, Classified
<1>4. Full'
  BY <1>1, <1>2 DEF Full, Before, stores, dag
<1> QED
  BY <1>1, <1>3, <1>4 DEF HonestRemoteNotBanned, stores

LEMMA FullAdvance ==
  ASSUME SyncInv, FullInv, Advance
  PROVE  FullInv'
<1> USE DEF SyncInv, FullInv
<1>1. UNCHANGED <<stores, response, dag, known, batch>> /\ pc = "bulk" /\ known = {} /\ pc' # "banned"
      /\ todo = {} /\ batch = {} /\ gone' = gone /\ overtaken' = overtaken
  BY QuietStep DEF Advance, stores
<1>2. CASE Cardinality(StillUnresolved) > MaxUnresolved
  <2>1. isFull' = TRUE /\ unresolved' = {} /\ pc' = "start"
    BY <1>2 DEF Advance
  <2> QED
    BY <1>1, <2>1 DEF Full, HonestRemoteNotBanned
<1>3. CASE ~(Cardinality(StillUnresolved) > MaxUnresolved)
  <2> DEFINE next == NextHash(StillUnresolved)
  <2>1. /\ isFull' = isFull /\ unresolved' = StillUnresolved
        /\ cursor' = IF next = None THEN cursor ELSE AtHash(next)
        /\ pc' = IF StillUnresolved # {} /\ isFull THEN "failed"
                 ELSE IF next = None THEN "done" ELSE "read"
    BY <1>3 DEF Advance
  <2>2. ASSUME isFull, ~gone, ~overtaken PROVE StillUnresolved = {} /\ next = response.forward
    BY <1>1, <1>2, <2>2 DEF Full, StillUnresolved, NextHash
  <2>3. ASSUME isFull, ~gone, ~overtaken, next # None
        PROVE  cursor'.hash = next /\ next \in Msg /\ Before(next) \subseteq local
    BY <1>1, <2>1, <2>2, <2>3 DEF Full, AtHash, TypeOK
  <2>4. pc' \in {"failed", "done", "read"} /\ (isFull /\ ~gone /\ ~overtaken /\ pc' = "read" => next # None)
    BY <2>1
  <2> HIDE DEF next
  <2>5. Full'
    BY <1>1, <2>1, <2>2, <2>3, <2>4 DEF Full, Before, stores
  <2> QED
    BY <1>1, <2>1, <2>5 DEF HonestRemoteNotBanned
<1> QED
  BY <1>2, <1>3

LEMMA FullMeanwhile ==
  ASSUME SyncInv, FullInv,
         RemoteForget \/ UNCHANGED vars \/ \E m \in Msg : RemoteInsert(m) \/ LocalInsert(m)
  PROVE  FullInv'
<1> USE DEF SyncInv, FullInv
<1>1. UNCHANGED <<graph, sync>> /\ local \subseteq local' /\ (gone => gone') /\ (overtaken => overtaken')
  <2>1. CASE RemoteForget \/ UNCHANGED vars \/ \E m \in Msg : LocalInsert(m)
    BY <2>1 DEF RemoteForget, LocalInsert, vars, stores, sync
  <2>2. CASE \E m \in Msg : RemoteInsert(m)
    <3>1. overtaken => overtaken'
      BY <2>2, Zenon DEF RemoteInsert
    <3> QED
      BY <2>2, <3>1 DEF RemoteInsert
  <2> QED
    BY <2>1, <2>2
<1>2. ASSUME ~gone', ~overtaken', isFull, Onward # None
      PROVE  ~gone /\ ~overtaken /\ \A k \in remote' : k < Onward => k \in remote
  <2>1. CASE \E m \in Msg : RemoteInsert(m)
    <3>1. PICK m \in Msg : RemoteInsert(m)
      BY <2>1
    <3>2. ~overtaken /\ ~Passed(m)
      BY <1>2, <3>1, Zenon DEF RemoteInsert
    <3>3. remote' = remote \cup {m} /\ ~gone
      BY <3>1 DEF RemoteInsert
    <3>4. ~(m < Onward)
      BY <1>2, <3>2, Zenon DEF Passed
    <3>5. \A k \in remote' : k < Onward => k \in remote
      BY <3>3, <3>4
    <3> QED
      BY <3>2, <3>3, <3>5, Zenon
  <2>2. CASE RemoteForget \/ UNCHANGED vars \/ \E m \in Msg : LocalInsert(m)
    <3>1. UNCHANGED <<remote, gone, overtaken>>
      BY <1>2, <2>2 DEF RemoteForget, LocalInsert, vars, stores
    <3> QED
      BY <1>2, <3>1
  <2> QED
    BY <2>1, <2>2, Zenon
<1>3. ASSUME ~gone', ~overtaken', isFull PROVE ~gone /\ ~overtaken
  BY <1>1, <1>3
<1>4. ASSUME ~gone', ~overtaken', isFull, pc = "read", cursor.hash # None
      PROVE  Before(cursor.hash)' \subseteq Before(cursor.hash)
  BY <1>1, <1>2, <1>4 DEF Onward, Before, sync
<1>5. ASSUME ~gone', ~overtaken', isFull, pc \in {"classify", "bulk", "receive"}, response.forward # None
      PROVE  Before(response.forward)' \subseteq Before(response.forward)
  BY <1>1, <1>2, <1>5 DEF Onward, Before, sync
<1>6. Full'
  <2> SUFFICES ASSUME isFull', ~gone', ~overtaken' PROVE Full'
    BY DEF Full
  <2>1. isFull /\ ~gone /\ ~overtaken
    BY <1>1, <1>3 DEF sync
  <2>2. pc = "read" => cursor = AtHeight(0) \/ (cursor.hash \in Msg /\ cursor.hash # None)
    BY <2>1, MsgTypes DEF Full
  <2> QED
    BY <1>1, <1>4, <1>5, <2>1, <2>2, MsgTypes DEF Full, sync, dag, graph
<1> QED
  BY <1>1, <1>6 DEF HonestRemoteNotBanned, sync

LEMMA FullInvStep ==
  ASSUME SyncInv, FullInv, [Next]_vars
  PROVE  FullInv'
BY FullPull, FullRead, FullClassify, FullReceive, FullQuiet, FullAdvance, FullMeanwhile
   DEF Next, SyncStep

-----------------------------------------------------------------------------
(* The recursive functions over a graph have the values that their definitions say *)

Below(n) == {k \in Msg : k < n}

LEMMA AllBelow == \E n \in Nat : Below(n) = Msg
<1>1. CASE Msg = {}
  BY <1>1 DEF Below
<1>2. CASE Msg # {}
  <2>1. Msg \in SUBSET Int /\ IsFiniteSet(Msg)
    BY MsgTypes
  <2>2. PICK top \in Msg : \A m \in Msg : m <= top
    BY <1>2, <2>1, MaximumExists
  <2>3. top + 1 \in Nat /\ \A m \in Msg : m < top + 1
    BY <2>2, MsgTypes
  <2> QED
    BY <2>3 DEF Below
<1> QED
  BY <1>1, <1>2

Graph(p) == p \in [Msg -> SUBSET Msg] /\ \A m \in Msg : \A k \in p[m] : k < m

LEMMA NoneBelow == Below(0) = {}
<1>1. \A m \in Msg : m \in Nat /\ ~(m < 0)
  BY MsgTypes
<1> QED
  BY <1>1 DEF Below

(* The parents of the message that comes next come before it. *)
LEMMA ParentsBelow ==
  ASSUME NEW p, Graph(p), NEW n \in Nat, NEW m \in Below(n + 1), NEW k \in p[m]
  PROVE  k \in Below(n + 1) /\ k \in Below(n)
<1>1. m \in Msg /\ m < n + 1 /\ m \in Nat /\ k \in Msg /\ k < m /\ k \in Nat
  BY MsgTypes DEF Below, Graph
<1> QED
  BY <1>1 DEF Below

AreHeights(h, p, S) == h = [m \in S |-> Max({0} \cup {h[k] + 1 : k \in p[m]})]

LEMMA HeightsExist ==
  ASSUME NEW p, Graph(p), NEW n \in Nat
  PROVE  \E h : AreHeights(h, p, Below(n))
<1> DEFINE G == {i \in Nat : \E h : AreHeights(h, p, Below(i))}
<1>1. 0 \in G
  <2> DEFINE h == [m \in {} |-> 0]
  <2>1. AreHeights(h, p, Below(0))
    BY NoneBelow DEF AreHeights
  <2> QED
    BY <2>1
<1>2. ASSUME NEW i \in G PROVE i + 1 \in G
  <2>1. PICK h : AreHeights(h, p, Below(i))
    OBVIOUS
  <2> DEFINE value(m) == Max({0} \cup {h[k] + 1 : k \in p[m]})
             g == [m \in Below(i + 1) |-> value(m)]
  <2>2. ASSUME NEW k \in Below(i), k \in Below(i + 1) PROVE g[k] = h[k]
    BY <2>1, <2>2 DEF AreHeights
  <2>3. ASSUME NEW m \in Below(i + 1) PROVE {h[k] + 1 : k \in p[m]} = {g[k] + 1 : k \in p[m]}
    <3> HIDE DEF g
    <3>1. \A k \in p[m] : g[k] = h[k]
      BY <2>2, ParentsBelow
    <3> QED
      BY <3>1
  <2>4. \A m \in Below(i + 1) : g[m] = Max({0} \cup {g[k] + 1 : k \in p[m]})
    <3> SUFFICES ASSUME NEW m \in Below(i + 1) PROVE g[m] = Max({0} \cup {g[k] + 1 : k \in p[m]})
      OBVIOUS
    <3>1. g[m] = value(m)
      OBVIOUS
    <3> HIDE DEF g
    <3> QED
      BY <3>1, <2>3
  <2>5. g = [m \in Below(i + 1) |-> g[m]]
    OBVIOUS
  <2> HIDE DEF g
  <2>6. AreHeights(g, p, Below(i + 1))
    BY <2>4, <2>5 DEF AreHeights
  <2> QED
    BY <2>6
<1>3. G \in SUBSET Nat /\ G = {i \in Nat : \E h : AreHeights(h, p, Below(i))}
  OBVIOUS
<1> HIDE DEF G
<1>4. G = Nat
  BY <1>1, <1>2, <1>3, SetInduction
<1> QED
  BY <1>3, <1>4

(* A message is one higher than the highest of its parents. *)
LEMMA HeightsEquation ==
  ASSUME NEW p, Graph(p), NEW m \in Msg
  PROVE  HeightsOf(p)[m] = Max({0} \cup {HeightsOf(p)[k] + 1 : k \in p[m]})
<1>1. \E h : AreHeights(h, p, Msg)
  BY AllBelow, HeightsExist
<1>2. HeightsOf(p) = CHOOSE h : AreHeights(h, p, Msg)
  BY DEF HeightsOf, AreHeights
<1>3. AreHeights(HeightsOf(p), p, Msg)
  BY <1>1, <1>2
<1> DEFINE H == HeightsOf(p)
<1>4. H = [x \in Msg |-> Max({0} \cup {H[k] + 1 : k \in p[x]})]
  BY <1>3 DEF AreHeights
<1> HIDE DEF H
<1>5. H[m] = Max({0} \cup {H[k] + 1 : k \in p[m]})
  BY <1>4
<1> QED
  BY <1>5 DEF H

AreAncestors(a, S) == a = [k \in S |-> {k} \cup UNION {a[p] : p \in parents[k]}]

LEMMA AncestorsExist ==
  ASSUME Graph(parents), NEW n \in Nat
  PROVE  \E a : AreAncestors(a, Below(n))
<1> DEFINE G == {i \in Nat : \E a : AreAncestors(a, Below(i))}
<1>1. 0 \in G
  <2> DEFINE a == [m \in {} |-> {}]
  <2>1. AreAncestors(a, Below(0))
    BY NoneBelow DEF AreAncestors
  <2> QED
    BY <2>1
<1>2. ASSUME NEW i \in G PROVE i + 1 \in G
  <2>1. PICK a : AreAncestors(a, Below(i))
    OBVIOUS
  <2> DEFINE value(k) == {k} \cup UNION {a[p] : p \in parents[k]}
             g == [k \in Below(i + 1) |-> value(k)]
  <2>2. ASSUME NEW p \in Below(i), p \in Below(i + 1) PROVE g[p] = a[p]
    BY <2>1, <2>2 DEF AreAncestors
  <2>3. ASSUME NEW k \in Below(i + 1) PROVE {a[p] : p \in parents[k]} = {g[p] : p \in parents[k]}
    <3> HIDE DEF g
    <3>1. \A p \in parents[k] : g[p] = a[p]
      BY <2>2, ParentsBelow
    <3> QED
      BY <3>1
  <2>4. \A k \in Below(i + 1) : g[k] = {k} \cup UNION {g[p] : p \in parents[k]}
    <3> SUFFICES ASSUME NEW k \in Below(i + 1) PROVE g[k] = {k} \cup UNION {g[p] : p \in parents[k]}
      OBVIOUS
    <3>1. g[k] = value(k)
      OBVIOUS
    <3> HIDE DEF g
    <3> QED
      BY <3>1, <2>3
  <2>5. g = [k \in Below(i + 1) |-> g[k]]
    OBVIOUS
  <2> HIDE DEF g
  <2>6. AreAncestors(g, Below(i + 1))
    BY <2>4, <2>5 DEF AreAncestors
  <2> QED
    BY <2>6
<1>3. G \in SUBSET Nat /\ G = {i \in Nat : \E a : AreAncestors(a, Below(i))}
  OBVIOUS
<1> HIDE DEF G
<1>4. G = Nat
  BY <1>1, <1>2, <1>3, SetInduction
<1> QED
  BY <1>3, <1>4

(* The ancestors of a message are itself and those of its parents. *)
LEMMA AncestorsEquation ==
  ASSUME Graph(parents), NEW m \in Msg
  PROVE  Ancestors(m) = {m} \cup UNION {Ancestors(p) : p \in parents[m]}
<1>1. \E a : AreAncestors(a, Msg)
  BY AllBelow, AncestorsExist
<1> DEFINE A == CHOOSE a : AreAncestors(a, Msg)
<1>2. \A k : Ancestors(k) = A[k]
  BY DEF Ancestors, AreAncestors
<1>3. AreAncestors(A, Msg)
  BY <1>1
<1> HIDE DEF A
<1>4. A[m] = {m} \cup UNION {A[p] : p \in parents[m]}
  BY <1>3 DEF AreAncestors
<1> QED
  BY <1>2, <1>4

(* A closed set that has the heads of a set has all of it. *)
LEMMA HeadsCover ==
  ASSUME TypeOK, GraphOK, NEW S \in SUBSET Msg, NEW T, Closed(T), LeavesOf(S) \subseteq T
  PROVE  S \subseteq T
<1> DEFINE Rest == S \ T
<1> SUFFICES ASSUME Rest # {} PROVE FALSE
  OBVIOUS
<1>1. Rest \in SUBSET Msg
  OBVIOUS
<1> HIDE DEF Rest
<1>2. Rest \in SUBSET Int /\ IsFiniteSet(Rest)
  BY <1>1, MsgTypes, SubsetsFinite
<1>3. PICK top \in Rest : \A x \in Rest : x <= top
  BY <1>2, MaximumExists
<1>4. top \in S /\ top \notin T
  BY <1>3 DEF Rest
<1>5. PICK k \in S : top \in parents[k]
  BY <1>4 DEF LeavesOf
<1>6. k \in Nat /\ top \in Nat /\ top < k
  BY <1>1, <1>5, MsgTypes DEF GraphOK
<1>7. k \in T
  BY <1>3, <1>6 DEF Rest
<1> QED
  BY <1>4, <1>5, <1>7 DEF Closed

LEMMA HasLeaf ==
  ASSUME TypeOK, GraphOK, NEW S \in SUBSET Msg, S # {}
  PROVE  LeavesOf(S) # {}
<1> SUFFICES ASSUME LeavesOf(S) = {} PROVE FALSE
  OBVIOUS
<1>1. Closed({}) /\ LeavesOf(S) \subseteq {}
  BY DEF Closed
<1>2. S \subseteq {}
  BY <1>1, HeadsCover
<1> QED
  BY <1>2

LEMMA LeastLeafHeight ==
  ASSUME TypeOK, NEW S \in SUBSET Msg
  PROVE  /\ \A m \in S : MinLeafHeight(S) <= height[m]
         /\ S # {} => \E m \in S : MinLeafHeight(S) = height[m]
<1> DEFINE H == {height[m] : m \in S}
<1>1. H \in SUBSET Nat
  BY DEF TypeOK
<1>2. ASSUME S # {} PROVE Min(H) \in H /\ \A x \in H : Min(H) <= x
  <2>1. H # {}
    BY <1>2
  <2> HIDE DEF H
  <2> QED
    BY <1>1, <2>1, MinProperty
<1>3. S # {} => MinLeafHeight(S) = Min(H)
  BY DEF MinLeafHeight
<1> QED
  BY <1>2, <1>3

HeightsOK == \A m \in Msg : height[m] = Max({0} \cup {height[k] + 1 : k \in parents[m]})

(* A closed store has a message at every height up to that of each of its messages. *)
LEMMA EveryHeight ==
  ASSUME TypeOK, GraphOK, HeightsOK, NEW S \in SUBSET Msg, Closed(S), NEW m \in S,
         NEW n \in Nat, n <= height[m]
  PROVE  \E k \in S : height[k] = n
<1> DEFINE D == {k \in S : n <= height[k]}
<1>1. D \in SUBSET Msg /\ m \in D
  OBVIOUS
<1> DEFINE x == Min(D)
<1>2. x \in D /\ x \in Msg /\ \A k \in D : x <= k
  <2> HIDE DEF D
  <2> QED
    BY <1>1, LeastMessage
<1> DEFINE H == {height[k] + 1 : k \in parents[x]}
           T == {0} \cup H
<1>3. \A k \in parents[x] : k \in S /\ height[k] \in Nat /\ height[k] + 1 <= n
  <2> SUFFICES ASSUME NEW k \in parents[x] PROVE k \in S /\ height[k] \in Nat /\ height[k] + 1 <= n
    OBVIOUS
  <2>1. k \in S /\ k \in Msg /\ k < x /\ k \in Nat /\ x \in Nat /\ height[k] \in Nat
    BY <1>2, MsgTypes DEF Closed, GraphOK
  <2>2. k \notin D
    BY <1>2, <2>1
  <2> QED
    BY <2>1, <2>2
<1>4. T \in SUBSET Int /\ T # {} /\ \A y \in T : y <= n
  <2> HIDE DEF x
  <2>1. \A y \in H : y \in Int /\ y <= n
    BY <1>3
  <2> HIDE DEF H
  <2> QED
    BY <2>1
<1>5. IsFiniteSet(T)
  <2>1. IsFiniteSet(parents[x])
    BY <1>2, SubsetsFinite DEF GraphOK
  <2> DEFINE f == [k \in parents[x] |-> height[k] + 1]
  <2>2. H = {f[k] : k \in parents[x]}
    OBVIOUS
  <2>3. IsFiniteSet({f[k] : k \in parents[x]})
    <3> HIDE DEF f
    <3> QED
      BY <2>1, ImageFinite
  <2>4. IsFiniteSet(H)
    BY <2>2, <2>3
  <2> HIDE DEF H
  <2> QED
    BY <2>4, FS_Union, FS_Singleton
<1>6. height[x] = Max(T)
  BY <1>2 DEF HeightsOK
<1>7. Max(T) \in T
  <2> HIDE DEF T
  <2> QED
    BY <1>4, <1>5, MaxProperty
<1>8. height[x] <= n /\ n <= height[x] /\ height[x] \in Nat
  <2>1. n <= height[x] /\ height[x] \in Nat
    BY <1>2 DEF GraphOK
  <2> HIDE DEF T, x
  <2> QED
    BY <1>4, <1>6, <1>7, <2>1
<1> QED
  BY <1>2, <1>8

(* The last k messages are above the others. *)
LEMMA LastAbove ==
  ASSUME NEW S \in SUBSET Msg, NEW k \in Nat
  PROVE  /\ Last(k, S) \subseteq S
         /\ \A x \in Last(k, S), y \in S \ Last(k, S) : y < x
<1>1. Last(k, S) \subseteq S
  BY DEF Last
<1>2. ASSUME NEW x \in Last(k, S), NEW y \in S \ Last(k, S), ~(y < x)
      PROVE  FALSE
  <2> DEFINE U(z) == {w \in S : w > z}
  <2>1. x \in S /\ y \in S /\ Cardinality(U(x)) < k /\ ~(Cardinality(U(y)) < k)
    BY <1>2 DEF Last
  <2>2. x \in Nat /\ y \in Nat /\ x <= y
    BY <1>2, <2>1, MsgTypes
  <2>3. U(y) \subseteq U(x)
    <3> SUFFICES ASSUME NEW w \in S, w > y PROVE w > x
      OBVIOUS
    <3>1. w \in Nat
      BY MsgTypes
    <3> QED
      BY <2>2, <3>1
  <2>4. U(x) \in SUBSET Msg /\ U(y) \in SUBSET Msg
    OBVIOUS
  <2> HIDE DEF U
  <2>5. IsFiniteSet(U(x)) /\ Cardinality(U(x)) \in Nat /\ Cardinality(U(y)) \in Nat
    BY <2>4, SubsetsFinite
  <2>6. Cardinality(U(y)) <= Cardinality(U(x))
    BY <2>3, <2>5, FS_Subset
  <2> QED
    BY <2>1, <2>5, <2>6
<1> QED
  BY <1>1, <1>2

LEMMA LastNotEmpty ==
  ASSUME NEW S \in SUBSET Msg, S # {}, NEW k \in Nat \ {0}
  PROVE  Last(k, S) # {}
<1>1. IsFiniteSet(S) /\ S \in SUBSET Int
  BY SubsetsFinite, MsgTypes
<1>2. PICK top \in S : \A x \in S : x <= top
  BY <1>1, MaximumExists
<1>3. {x \in S : x > top} = {}
  <2> SUFFICES ASSUME NEW x \in S, x > top PROVE FALSE
    OBVIOUS
  <2>1. x \in Int /\ top \in Int /\ x <= top
    BY <1>1, <1>2
  <2> QED
    BY <2>1
<1>4. Cardinality({x \in S : x > top}) = 0
  BY <1>3, FS_EmptySet
<1> QED
  BY <1>4 DEF Last

LEMMA FirstNotEmpty ==
  ASSUME NEW S \in SUBSET Msg, S # {}
  PROVE  First(1, S) # {}
<1>1. Min(S) \in S /\ \A x \in S : Min(S) <= x
  BY LeastMessage
<1>2. {x \in S : x < Min(S)} = {}
  <2> SUFFICES ASSUME NEW x \in S, x < Min(S) PROVE FALSE
    OBVIOUS
  <2>1. x \in Nat /\ Min(S) \in Nat /\ Min(S) <= x
    BY <1>1, MsgTypes
  <2> QED
    BY <2>1
<1>3. Cardinality({x \in S : x < Min(S)}) = 0
  BY <1>2, FS_EmptySet
<1> QED
  BY <1>1, <1>3 DEF First

(* A backward page ends where it is to, and leads to what is before it if anything is. *)
LEMMA BackwardPage ==
  ASSUME NEW S \in SUBSET Msg, NEW c, IsCursor(c), c.hash \in Msg
  PROVE  LET page == Backward(S, c).messages
             back == Backward(S, c).backward IN
         /\ Backward(S, c).forward = c.hash
         /\ \A m \in page : m \in S /\ m < c.hash
         /\ back # None => back \in page
         /\ \A k \in S : k < c.hash => k \in page \/ (back # None /\ k < back)
<1> DEFINE before == {m \in S : m < c.hash}
           page == Last(Limit, before)
<1>1. before \in SUBSET Msg
  OBVIOUS
<1>2. page \subseteq before /\ \A x \in page, y \in before \ page : y < x
  <2> HIDE DEF before
  <2> QED
    BY <1>1, LastAbove, MsgTypes
<1>3. /\ Backward(S, c).messages = page /\ Backward(S, c).forward = c.hash
      /\ Backward(S, c).backward = IF page = before THEN None ELSE Min(page)
  BY DEF Backward
<1>4. page # before => page # {}
  <2>1. page # before => before # {}
    BY <1>2
  <2> HIDE DEF before
  <2> QED
    BY <1>1, <2>1, LastNotEmpty, MsgTypes
<1>5. page # before => Min(page) \in page /\ Min(page) # None
  <2>1. page \in SUBSET Msg
    BY <1>1, <1>2
  <2> HIDE DEF page, before
  <2> QED
    BY <1>4, <2>1, LeastMessage, MsgTypes
<1> HIDE DEF page
<1>6. \A m \in page : m \in S /\ m < c.hash
  BY <1>2
<1>7. \A k \in before : k \in page \/ (page # before /\ k < Min(page))
  <2> HIDE DEF before
  <2> QED
    BY <1>2, <1>5
<1>8. \A k \in S : k < c.hash => k \in before
  OBVIOUS
<1> HIDE DEF before
<1> QED
  BY <1>3, <1>5, <1>6, <1>7, <1>8

LEMMA ForwardEnds ==
  ASSUME NEW S \in SUBSET Msg, NEW c, IsCursor(c), StartOf(S, c) # {}
  PROVE  LET from == Min(StartOf(S, c))
             page == Forward(S, c).messages
             next == Forward(S, c).forward
             back == Forward(S, c).backward IN
         /\ next # None => next \in S
         /\ \A k \in S : next = None => k < from \/ k \in page
         /\ back # None => back = from
         /\ \A k \in S : k < from => back = from
<1> DEFINE from == Min(StartOf(S, c))
           rest == {m \in S : m >= from}
           page == First(Limit, rest)
<1>1. from \in Msg
  BY StartType, LeastMessage
<1>2. rest \in SUBSET Msg /\ rest \ page \in SUBSET S
  OBVIOUS
<1>3. \A k \in S : ~(k < from) => k \in rest
  <2> SUFFICES ASSUME NEW k \in S, ~(k < from) PROVE k >= from
    OBVIOUS
  <2>1. k \in Nat /\ from \in Nat
    BY <1>1, MsgTypes
  <2> HIDE DEF from
  <2> QED
    BY <2>1
<1>4. /\ Forward(S, c).messages = page /\ Forward(S, c).forward = SmallestOrNone(rest \ page)
      /\ Forward(S, c).backward = IF \E m \in S : m < from THEN from ELSE None
  BY DEF Forward
<1>5. IF rest \ page = {} THEN SmallestOrNone(rest \ page) = None
      ELSE SmallestOrNone(rest \ page) \in S /\ SmallestOrNone(rest \ page) # None
  <2> HIDE DEF rest, page
  <2>1. rest \ page \in SUBSET Msg
    BY <1>2
  <2>2. rest \ page # {} => Min(rest \ page) \in rest \ page
    BY <2>1, LeastMessage
  <2> QED
    BY <1>2, <2>2, MsgTypes DEF SmallestOrNone
<1> HIDE DEF from, rest, page
<1> QED
  BY <1>1, <1>2, <1>3, <1>4, <1>5 DEF from

-----------------------------------------------------------------------------
(* Pages are classified right *)

(* What is to be requested has no parent missing; what is kept back has one, which is external *)
(* or kept back itself.                                                                        *)
Looked ==
  pc = "classify" =>
    /\ \A m \in known : parents[m] \subseteq known \cup local
    /\ \A m \in unknown : parents[m] \cap (unknown \cup external) # {}
    /\ external \cap response.messages = {}

LEMMA LookedClassify ==
  ASSUME SyncInv, Looked, Classify
  PROVE  Looked'
<1> USE DEF SyncInv
<1> DEFINE m == Min(todo)
           missing == MissingParents(m)
<1>1. m \in todo /\ m \in Msg /\ \A x \in todo : m <= x
  BY ClassifyTypes DEF TypeOK
<1>2. /\ UNCHANGED <<parents, local, response, pc>>
      /\ external' = external \cup (missing \ unknown)
      /\ unknown' = IF missing = {} THEN unknown ELSE unknown \cup {m}
      /\ known' = IF missing = {} /\ m \notin local THEN known \cup {m} ELSE known
      /\ pc = "classify"
  BY DEF Classify, graph, stores
<1>3. missing = {} => parents[m] \subseteq local \cup known
  BY <1>2 DEF MissingParents, Partial
<1>4. \A p \in missing : p \in parents[m] /\ (p \in unknown \/ p \in external')
  BY <1>2 DEF MissingParents
<1>5. ASSUME NEW p \in missing \ unknown PROVE p \notin response.messages
  <2>1. p \in parents[m] /\ p \notin response.messages \ todo
    BY <1>5 DEF MissingParents
  <2>2. p < m /\ p \in Nat /\ m \in Nat
    BY <1>1, <2>1, MsgTypes DEF GraphOK
  <2>3. p \notin todo
    BY <1>1, <2>2
  <2> QED
    BY <2>1, <2>3
<1> HIDE DEF m, missing
<1> QED
  BY <1>2, <1>3, <1>4, <1>5 DEF Looked

LEMMA LookedStep ==
  ASSUME SyncInv, Looked, [Next]_vars
  PROVE  Looked'
<1>1. CASE RemoteRead
  BY <1>1 DEF Looked, RemoteRead
<1>2. CASE Classify
  BY <1>2, LookedClassify
<1>3. CASE RemoteForget \/ UNCHANGED vars \/ \E m \in Msg : RemoteInsert(m) \/ LocalInsert(m)
  <2>1. UNCHANGED <<graph, sync>> /\ local \subseteq local'
    BY <1>3 DEF RemoteForget, RemoteInsert, LocalInsert, vars, stores, sync
  <2>2. UNCHANGED <<parents, pc, known, unknown, external, response>>
    BY <2>1 DEF graph, sync, dag
  <2> QED
    BY <2>1, <2>2 DEF Looked
<1>4. CASE Start \/ RemoteClamp \/ Classified \/ Bulk \/ Receive \/ BulkEnd \/ Advance \/ Timeout
  <2>1. pc' # "classify"
    BY <1>4 DEF Start, RemoteClamp, Classified, Bulk, Receive, BulkEnd, Advance, Timeout
  <2> QED
    BY <2>1 DEF Looked
<1> QED
  BY <1>1, <1>2, <1>3, <1>4 DEF Next, SyncStep

(* What holds of the parents holds of all ancestors. *)
LEMMA LookedClassified ==
  ASSUME SyncInv, Looked
  PROVE  PageClassified
<1> USE DEF SyncInv
<1> SUFFICES ASSUME pc = "classify", todo = {}
             PROVE  /\ \A m \in known : Ancestors(m) \ local \subseteq known
                    /\ \A m \in response.messages \ (local \cup known) : Ancestors(m) \cap external # {}
                    /\ external \cap response.messages = {}
  BY DEF PageClassified
<1>1. Graph(parents) /\ known \cup local \in SUBSET Msg /\ unknown \in SUBSET Msg
  BY DEF GraphOK, Graph, TypeOK
<1>2. \A m \in known \cup local : Ancestors(m) \subseteq known \cup local
  <2> DEFINE Bad == {m \in known \cup local : ~(Ancestors(m) \subseteq known \cup local)}
             x == Min(Bad)
  <2> SUFFICES ASSUME Bad # {} PROVE FALSE
    OBVIOUS
  <2>1. x \in Bad /\ x \in Msg /\ \A y \in Bad : x <= y
    <3>1. Bad \in SUBSET Msg
      BY <1>1
    <3> HIDE DEF Bad
    <3> QED
      BY <3>1, LeastMessage
  <2>2. x \in known \cup local /\ ~(Ancestors(x) \subseteq known \cup local)
    BY <2>1
  <2>3. parents[x] \subseteq known \cup local
    BY <2>2 DEF Looked, StoresOK, Closed
  <2>4. ASSUME NEW p \in parents[x] PROVE Ancestors(p) \subseteq known \cup local
    <3>1. p \in Nat /\ x \in Nat /\ p < x
      BY <1>1, <2>1, MsgTypes DEF Graph
    <3>2. p \notin Bad
      <4> HIDE DEF Bad, x
      <4> QED
        BY <2>1, <3>1
    <3> QED
      BY <2>3, <3>2
  <2> HIDE DEF Bad, x
  <2>5. Ancestors(x) = {x} \cup UNION {Ancestors(p) : p \in parents[x]}
    BY <1>1, <2>1, AncestorsEquation
  <2> QED
    BY <2>2, <2>4, <2>5
<1>3. \A m \in unknown : Ancestors(m) \cap external # {}
  <2> DEFINE Bad == {m \in unknown : Ancestors(m) \cap external = {}}
             x == Min(Bad)
  <2> SUFFICES ASSUME Bad # {} PROVE FALSE
    OBVIOUS
  <2>1. x \in Bad /\ x \in Msg /\ \A y \in Bad : x <= y
    <3>1. Bad \in SUBSET Msg
      BY <1>1
    <3> HIDE DEF Bad
    <3> QED
      BY <3>1, LeastMessage
  <2>2. x \in unknown /\ Ancestors(x) \cap external = {}
    BY <2>1
  <2>3. PICK p \in parents[x] : p \in unknown \/ p \in external
    BY <2>2 DEF Looked
  <2>4. p \in Nat /\ x \in Nat /\ p < x /\ p \in Msg
    BY <1>1, <2>1, MsgTypes DEF Graph
  <2>5. p \notin Bad
    <3> HIDE DEF Bad, x
    <3> QED
      BY <2>1, <2>4
  <2>6. p \in external \/ Ancestors(p) \cap external # {}
    BY <2>3, <2>5
  <2> HIDE DEF Bad, x
  <2>7. Ancestors(x) = {x} \cup UNION {Ancestors(q) : q \in parents[x]}
    BY <1>1, <2>1, AncestorsEquation
  <2>8. Ancestors(p) = {p} \cup UNION {Ancestors(q) : q \in parents[p]}
    BY <1>1, <2>4, AncestorsEquation
  <2>9. p \in Ancestors(p) /\ Ancestors(p) \subseteq Ancestors(x)
    BY <2>7, <2>8
  <2> QED
    BY <2>2, <2>6, <2>9
<1>4. response.messages \subseteq unknown \cup known \cup local
  BY DEF Partial
<1> QED
  BY <1>2, <1>3, <1>4 DEF Looked


-----------------------------------------------------------------------------
(* Nothing is left unresolved *)

InPage == pc \in {"classify", "bulk", "receive"}

BeforePage(m) == response.backward # None /\ m \in Before(response.backward)

(* What a backward page is to resolve is before its cursor, and a page whose parents are not in *)
(* it offers what is before it.                                                                 *)
Resolvable ==
  /\ pc \in {"start", "clamp", "done"} => unresolved = {}
  /\ pc = "read" /\ unresolved # {} =>
       cursor.hash \in remote /\ unresolved \subseteq Before(cursor.hash)
  /\ InPage =>
       /\ response.backward # None => response.backward \in remote
       /\ \A m \in response.messages : \A k \in parents[m] : k \in response.messages \/ BeforePage(k)
       /\ \A k \in unresolved : k \in response.messages \/ BeforePage(k)
       /\ \A k \in external : k \notin response.messages /\ BeforePage(k)

GapInv == ~gone => Resolvable

LEMMA GapRead ==
  ASSUME SyncInv, GapInv, RemoteRead, ~gone
  PROVE  Resolvable'
<1> USE DEF SyncInv
<1>1. /\ UNCHANGED <<parents, remote, unresolved>> /\ pc' = "classify"
      /\ response' = Page(remote, cursor, unresolved # {}) /\ external' = {}
      /\ pc = "read"
  BY DEF RemoteRead, stores, graph
<1>2. remote \in SUBSET Msg /\ IsCursor(cursor) /\ Closed(remote) /\ Resolvable
  BY DEF TypeOK, IsCursor, StoresOK, GapInv
<1>3. \A m \in remote : \A k \in parents[m] : k \in remote /\ k < m
  BY <1>2 DEF Closed, GraphOK
<1> SUFFICES
      /\ response'.backward # None => response'.backward \in remote
      /\ \A m \in response'.messages : \A k \in parents[m] :
           k \in response'.messages \/ (response'.backward # None /\ k \in Before(response'.backward))
      /\ \A k \in unresolved :
           k \in response'.messages \/ (response'.backward # None /\ k \in Before(response'.backward))
  BY <1>1 DEF Resolvable, InPage, BeforePage, Before
<1>4. CASE StartOf(remote, cursor) = {}
  <2>1. unresolved = {}
    BY <1>1, <1>2, <1>4, MsgTypes DEF Resolvable, StartOf
  <2> QED
    BY <1>1, <1>4, <2>1 DEF Page, Empty
<1>5. CASE StartOf(remote, cursor) # {} /\ unresolved # {}
  <2>1. cursor.hash \in remote /\ unresolved \subseteq Before(cursor.hash)
    BY <1>1, <1>2, <1>5 DEF Resolvable
  <2>2. response' = Backward(remote, cursor)
    BY <1>1, <1>5 DEF Page
  <2>3. /\ \A m \in response'.messages : m \in remote /\ m < cursor.hash
        /\ response'.backward # None => response'.backward \in response'.messages
        /\ \A k \in remote : k < cursor.hash =>
             k \in response'.messages \/ (response'.backward # None /\ k < response'.backward)
    BY <1>2, <2>1, <2>2, BackwardPage
  <2>4. ASSUME NEW m \in response'.messages, NEW k \in parents[m] PROVE k \in remote /\ k < cursor.hash
    <3>1. k \in remote /\ k < m /\ m < cursor.hash /\ m \in remote
      BY <1>3, <2>3
    <3>2. k \in Nat /\ m \in Nat /\ cursor.hash \in Nat
      BY <1>2, <2>1, <3>1, MsgTypes
    <3> QED
      BY <3>1, <3>2
  <2> QED
    BY <2>1, <2>3, <2>4 DEF Before
<1>6. CASE StartOf(remote, cursor) # {} /\ unresolved = {}
  <2> DEFINE from == Min(StartOf(remote, cursor))
  <2>1. response' = Forward(remote, cursor)
    BY <1>1, <1>6 DEF Page
  <2>2. from \in StartOf(remote, cursor) /\ StartOf(remote, cursor) \subseteq remote
        /\ \A m \in response'.messages, k \in remote : k < m => k < from \/ k \in response'.messages
    BY <1>2, <1>6, <2>1, ForwardPage, StartType
  <2>3. (response'.backward # None => response'.backward = from)
        /\ \A k \in remote : k < from => response'.backward = from
    BY <1>2, <1>6, <2>1, ForwardEnds
  <2>4. response'.messages \subseteq remote /\ None \notin remote
    BY <1>2, RemoteReadTypes, MsgTypes
  <2> HIDE DEF from
  <2> QED
    BY <1>3, <1>6, <2>2, <2>3, <2>4 DEF Before
<1> QED
  BY <1>4, <1>5, <1>6

LEMMA GapClassify ==
  ASSUME SyncInv, GapInv, Classify, ~gone
  PROVE  Resolvable'
<1> USE DEF SyncInv
<1> DEFINE m == Min(todo)
           missing == MissingParents(m) \ unknown
<1>1. m \in todo /\ m \in Msg /\ \A x \in todo : m <= x
  BY ClassifyTypes DEF TypeOK
<1>2. /\ UNCHANGED <<parents, remote, unresolved, response, pc>> /\ external' = external \cup missing
      /\ pc = "classify"
  BY DEF Classify, graph, stores
<1>3. m \in response.messages
  BY <1>1 DEF Stages
<1>4. ASSUME NEW p \in missing PROVE p \in parents[m] /\ p \notin response.messages
  <2>1. p \in parents[m] /\ p \notin response.messages \ todo
    BY DEF MissingParents
  <2>2. p < m /\ p \in Nat /\ m \in Nat
    BY <1>1, <2>1, MsgTypes DEF GraphOK
  <2>3. p \notin todo
    BY <1>1, <2>2
  <2> QED
    BY <2>1, <2>3
<1> HIDE DEF m, missing
<1> QED
  BY <1>2, <1>3, <1>4 DEF GapInv, Resolvable, InPage, BeforePage, Before

LEMMA GapAdvance ==
  ASSUME SyncInv, GapInv, Advance, ~gone
  PROVE  Resolvable'
<1> USE DEF SyncInv
<1> DEFINE left == StillUnresolved
           next == NextHash(left)
<1>1. pc = "bulk" /\ Resolvable /\ remote' = remote
  BY DEF Advance, GapInv, stores
<1>2. \A k \in left : BeforePage(k)
  BY <1>1 DEF StillUnresolved, Resolvable, InPage
<1>3. CASE Cardinality(left) > MaxUnresolved
  BY <1>3 DEF Advance, Resolvable, InPage
<1>4. CASE ~(Cardinality(left) > MaxUnresolved)
  <2>1. /\ unresolved' = left
        /\ cursor' = IF next = None THEN cursor ELSE AtHash(next)
        /\ pc' = IF left # {} /\ isFull THEN "failed" ELSE IF next = None THEN "done" ELSE "read"
    BY <1>4 DEF Advance
  <2>2. CASE left = {}
    BY <2>1, <2>2 DEF Resolvable, InPage
  <2>3. CASE left # {}
    <3>1. next = response.backward /\ next # None /\ next \in remote /\ left \subseteq Before(next)
      BY <1>1, <1>2, <2>3 DEF NextHash, BeforePage, Resolvable, InPage
    <3>2. pc' \in {"failed", "read"} /\ cursor'.hash = next
      BY <2>1, <3>1 DEF AtHash
    <3> HIDE DEF next, left
    <3> QED
      BY <1>1, <2>1, <3>1, <3>2 DEF Resolvable, InPage, Before
  <2> QED
    BY <2>2, <2>3
<1> QED
  BY <1>3, <1>4

LEMMA GapStep ==
  ASSUME SyncInv, GapInv, [Next]_vars
  PROVE  GapInv'
<1> SUFFICES ASSUME ~gone' PROVE Resolvable'
  BY DEF GapInv
<1>1. ~gone
  BY DEF Next, SyncStep, Start, RemoteClamp, RemoteRead, Classify, Classified, Bulk, Receive,
         BulkEnd, Advance, RemoteInsert, LocalInsert, RemoteForget, Timeout, stores, vars
<1>2. Resolvable
  BY <1>1 DEF GapInv
<1>3. CASE RemoteRead
  BY <1>1, <1>3, GapRead
<1>4. CASE Classify
  BY <1>1, <1>4, GapClassify
<1>5. CASE Advance
  BY <1>1, <1>5, GapAdvance
<1>6. CASE Start \/ RemoteClamp
  BY <1>2, <1>6 DEF Resolvable, InPage, Start, RemoteClamp
<1>7. CASE Classified \/ Bulk \/ Receive \/ BulkEnd \/ Timeout
  <2>1. /\ UNCHANGED <<parents, remote, unresolved, response, external>>
        /\ pc' = "failed" \/ pc' = "banned" \/ (InPage /\ pc' \in {"bulk", "receive"})
    BY <1>7 DEF Classified, Bulk, Receive, BulkEnd, Timeout, graph, stores, dag, InPage
  <2> QED
    BY <1>2, <2>1 DEF Resolvable, BeforePage, Before, InPage
<1>8. CASE RemoteForget \/ UNCHANGED vars \/ \E m \in Msg : RemoteInsert(m) \/ LocalInsert(m)
  <2>1. UNCHANGED <<graph, sync>> /\ remote \subseteq remote'
    BY <1>8 DEF RemoteForget, RemoteInsert, LocalInsert, vars, stores, sync
  <2>2. UNCHANGED <<parents, pc, unresolved, response, external, cursor>>
    BY <2>1 DEF graph, sync, dag
  <2>3. \A x : Before(x) \subseteq Before(x)'
    BY <2>1 DEF Before
  <2> QED
    BY <1>2, <2>1, <2>2, <2>3 DEF Resolvable, BeforePage, Before, InPage
<1> QED
  BY <1>3, <1>4, <1>5, <1>6, <1>7, <1>8 DEF Next, SyncStep

-----------------------------------------------------------------------------
(* Nothing that the remote had is left out *)

(* getLeaves() of the remote returns all of its leaves. *)
AllLeavesSeen == Cardinality(LeavesOf(remote)) <= MaxLeaves

(* Only for an external hash is anything kept back of what was looked at. *)
KeptBack ==
  InPage =>
    /\ response.messages \ todo \subseteq unknown \cup known \cup batch \cup local
    /\ external = {} => unknown = {}

Heads == LeavesOf(snapshot)

(* The heads of what the remote had are stored when they come before the cursor, or before the *)
(* page; those in the page are stored once it is received.                                     *)
Walked ==
  /\ snapshot \subseteq remote
  /\ pc = "read" =>
       \/ /\ cursor.hash = None /\ unresolved = {}
          /\ \A m \in Heads : cursor.height <= height[m]
          /\ snapshot # {} => \E m \in remote : height[m] = cursor.height
       \/ /\ cursor.hash \in remote
          /\ \A m \in Heads : m < cursor.hash => m \in local
  /\ InPage =>
       /\ response.forward # None => response.forward \in remote
       /\ response.backward # None => \A m \in Heads : m < response.backward => m \in local
       /\ \A m \in Heads :
            response.forward = None \/ m < response.forward => m \in local \cup response.messages
  /\ pc = "done" => Heads \subseteq local

WalkInv == HeightsOK /\ (~gone => KeptBack /\ Walked)

LEMMA WalkInit == Init => WalkInv
<1> SUFFICES ASSUME Init PROVE WalkInv
  OBVIOUS
<1>1. Graph(parents) /\ height = HeightsOf(parents)
  BY GraphsAssumption DEF Init, Graph
<1>2. HeightsOK
  BY <1>1, HeightsEquation DEF HeightsOK
<1>3. KeptBack /\ Walked
  BY DEF Init, KeptBack, Walked, InPage
<1> QED
  BY <1>2, <1>3 DEF WalkInv

LEMMA HeightsStay ==
  ASSUME HeightsOK, [Next]_vars
  PROVE  HeightsOK'
<1>1. UNCHANGED graph
  BY DEF vars, Next, SyncStep, Start, RemoteClamp, RemoteRead, Classify, Classified, Bulk, Receive,
         BulkEnd, Advance, RemoteInsert, LocalInsert, RemoteForget, Timeout
<1>2. UNCHANGED <<parents, height>>
  BY <1>1 DEF graph
<1> QED
  BY <1>2 DEF HeightsOK

(* The walk starts at or below all heads, at a height at which the remote has a message. *)
LEMMA WalkClamp ==
  ASSUME SyncInv, GapInv, WalkInv, RemoteClamp, AllLeavesSeen, ~gone
  PROVE  Walked'
<1> USE DEF SyncInv
<1> DEFINE L == LeavesOf(remote)
<1>1. /\ UNCHANGED <<parents, height, local, remote, unresolved>> /\ snapshot' = remote /\ pc' = "read"
      /\ unresolved = {}
      /\ \E leaves \in Truncated(L) : cursor' = AtHeight(StartHeight(cursor.height, leaves))
  BY DEF RemoteClamp, GapInv, Resolvable, graph, stores
<1>2. Truncated(L) = {L} /\ L \in SUBSET remote /\ remote \in SUBSET Msg
  BY DEF Truncated, AllLeavesSeen, LeavesOf, TypeOK
<1> DEFINE start == StartHeight(cursor.height, L)
<1>3. cursor' = AtHeight(start)
  BY <1>1, <1>2
<1>4. /\ cursor.height \in Nat /\ MinLeafHeight(L) \in Nat
      /\ \A m \in L : MinLeafHeight(L) <= height[m] /\ height[m] \in Nat
  BY <1>2, LeafHeightType, LeastLeafHeight DEF TypeOK
<1>5. start \in Nat /\ start <= MinLeafHeight(L)
  <2> DEFINE a == cursor.height
             b == MinLeafHeight(L)
  <2>1. {a, b} \in SUBSET Nat /\ {a, b} # {}
    BY <1>4
  <2>2. Min({a, b}) \in {a, b} /\ Min({a, b}) <= b
    <3> HIDE DEF a, b
    <3> QED
      BY <2>1, MinProperty
  <2>3. start = Min({a, b})
    BY DEF StartHeight
  <2> HIDE DEF start, a
  <2> QED
    BY <2>1, <2>2, <2>3
<1> HIDE DEF start
<1>6. \A m \in L : start <= height[m]
  <2> SUFFICES ASSUME NEW m \in L PROVE start <= height[m]
    OBVIOUS
  <2>1. MinLeafHeight(L) <= height[m] /\ height[m] \in Nat /\ MinLeafHeight(L) \in Nat
    BY <1>4
  <2> HIDE DEF L
  <2> QED
    BY <1>5, <2>1
<1>7. remote # {} => \E m \in remote : height[m] = start
  <2> SUFFICES ASSUME remote # {} PROVE \E m \in remote : height[m] = start
    OBVIOUS
  <2>1. PICK m \in L : TRUE
    BY <1>2, HasLeaf
  <2>2. m \in remote /\ start <= height[m] /\ Closed(remote) /\ HeightsOK
    BY <1>2, <1>6, <2>1 DEF StoresOK, WalkInv
  <2> QED
    BY <1>2, <1>5, <2>2, EveryHeight
<1>8. Heads' = L
  BY <1>1 DEF Heads, LeavesOf
<1> HIDE DEF L
<1> QED
  BY <1>1, <1>3, <1>6, <1>7, <1>8 DEF Walked, InPage, AtHeight

LEMMA WalkRead ==
  ASSUME SyncInv, GapInv, WalkInv, RemoteRead, ~gone
  PROVE  Walked'
<1> USE DEF SyncInv
<1>1. /\ UNCHANGED <<parents, height, local, remote, snapshot, cursor>> /\ pc' = "classify"
      /\ response' = Page(remote, cursor, unresolved # {})
      /\ pc = "read" /\ Heads' = Heads
  BY DEF RemoteRead, stores, graph, Heads, LeavesOf
<1>2. /\ remote \in SUBSET Msg /\ None \notin remote /\ IsCursor(cursor)
      /\ Heads \subseteq snapshot /\ snapshot \subseteq remote
      /\ \/ /\ cursor.hash = None /\ unresolved = {}
            /\ \A m \in Heads : cursor.height <= height[m]
            /\ snapshot # {} => \E m \in remote : height[m] = cursor.height
         \/ /\ cursor.hash \in remote
            /\ \A m \in Heads : m < cursor.hash => m \in local
  BY <1>1, MsgTypes DEF TypeOK, IsCursor, WalkInv, Walked, Heads, LeavesOf
<1> SUFFICES
      /\ response'.forward # None => response'.forward \in remote
      /\ response'.backward # None => \A m \in Heads : m < response'.backward => m \in local
      /\ \A m \in Heads :
           response'.forward = None \/ m < response'.forward => m \in local \cup response'.messages
  BY <1>1, <1>2 DEF Walked, InPage
<1>3. CASE StartOf(remote, cursor) = {}
  <2>1. response' = Empty
    BY <1>1, <1>3 DEF Page
  <2>2. cursor.hash = None
    BY <1>2, <1>3 DEF StartOf
  <2>3. First(1, {m \in remote : height[m] = cursor.height}) = {}
    BY <1>3, <2>2 DEF StartOf
  <2>4. {m \in remote : height[m] = cursor.height} = {}
    <3> DEFINE Z == {m \in remote : height[m] = cursor.height}
    <3>1. Z \in SUBSET Msg
      BY <1>2
    <3> HIDE DEF Z
    <3>2. Z # {} => First(1, Z) # {}
      BY <3>1, FirstNotEmpty
    <3> QED
      BY <2>3, <3>2 DEF Z
  <2>5. Heads = {}
    BY <1>2, <2>2, <2>4
  <2> QED
    BY <2>1, <2>5 DEF Empty
<1>4. CASE StartOf(remote, cursor) # {} /\ unresolved # {}
  <2>1. response' = Backward(remote, cursor)
    BY <1>1, <1>4 DEF Page
  <2>2. cursor.hash \in Msg /\ cursor.hash \in remote
    BY <1>2, <1>4
  <2>3. /\ response'.forward = cursor.hash
        /\ \A m \in response'.messages : m \in remote /\ m < cursor.hash
        /\ response'.backward # None => response'.backward \in response'.messages
    BY <1>2, <2>1, <2>2, BackwardPage
  <2>4. ASSUME response'.backward # None, NEW m \in Heads, m < response'.backward PROVE m \in local
    <3>1. response'.backward < cursor.hash /\ response'.backward \in remote
      BY <2>3, <2>4
    <3>2. m \in Nat /\ response'.backward \in Nat /\ cursor.hash \in Nat
      BY <1>2, <2>2, <3>1, MsgTypes
    <3>3. m < cursor.hash
      BY <2>4, <3>1, <3>2
    <3> QED
      BY <1>2, <1>4, <3>3
  <2> QED
    BY <1>2, <1>4, <2>2, <2>3, <2>4
<1>5. CASE StartOf(remote, cursor) # {} /\ unresolved = {}
  <2> DEFINE from == Min(StartOf(remote, cursor))
  <2>1. response' = Forward(remote, cursor)
    BY <1>1, <1>5 DEF Page
  <2>2. from \in StartOf(remote, cursor) /\ from \in Msg
    BY <1>2, <1>5, ForwardPage
  <2>3. ASSUME NEW m \in Heads, m < from PROVE m \in local
    <3>1. CASE cursor.hash = None
      <4> DEFINE Z == {x \in remote : height[x] = cursor.height}
      <4>1. from \in First(1, Z) /\ Z \in SUBSET Msg
        BY <1>2, <2>2, <3>1 DEF StartOf
      <4>2. from \in Z
        BY <4>1 DEF First
      <4>3. m \in Msg /\ height[m] <= height[from]
        BY <1>2, <2>2, <2>3 DEF GraphOK
      <4>4. cursor.height <= height[m]
        BY <1>2, <3>1, MsgTypes
      <4>5. height[m] = cursor.height
        <5>1. height[m] \in Nat /\ height[from] = cursor.height /\ cursor.height \in Nat
          BY <4>2, <4>3 DEF GraphOK, TypeOK
        <5> HIDE DEF from, Z
        <5> QED
          BY <4>3, <4>4, <5>1
      <4>6. m \in Z
        BY <1>2, <4>5
      <4> HIDE DEF Z, from
      <4> QED
        BY <2>3, <4>1, <4>6, FirstOfOne
    <3>2. CASE cursor.hash # None
      <4>1. from = cursor.hash
        BY <2>2, <3>2 DEF StartOf
      <4> QED
        BY <1>2, <2>3, <3>2, <4>1
    <3> QED
      BY <3>1, <3>2
  <2>4. /\ response'.forward # None => response'.forward \in remote
        /\ \A k \in remote : response'.forward = None => k < from \/ k \in response'.messages
        /\ response'.backward # None => response'.backward = from
    BY <1>2, <1>5, <2>1, ForwardEnds
  <2>5. response'.forward # None =>
          \A k \in remote : k < response'.forward => k < from \/ k \in response'.messages
    BY <1>2, <1>5, <2>1, ForwardPage
  <2> HIDE DEF from
  <2> QED
    BY <1>2, <2>3, <2>4, <2>5
<1> QED
  BY <1>3, <1>4, <1>5

LEMMA KeptClassify ==
  ASSUME SyncInv, WalkInv, Classify, ~gone
  PROVE  KeptBack'
<1> USE DEF SyncInv
<1> DEFINE m == Min(todo)
           missing == MissingParents(m)
<1>1. m \in todo
  BY ClassifyTypes
<1>2. /\ UNCHANGED <<local, response, batch, pc>> /\ pc = "classify"
      /\ todo' = todo \ {m}
      /\ external' = external \cup (missing \ unknown)
      /\ unknown' = IF missing = {} THEN unknown ELSE unknown \cup {m}
      /\ known' = IF missing = {} /\ m \notin local THEN known \cup {m} ELSE known
  BY DEF Classify, stores
<1> HIDE DEF m, missing
<1> QED
  BY <1>1, <1>2 DEF WalkInv, KeptBack, InPage

LEMMA WalkAdvance ==
  ASSUME SyncInv, GapInv, WalkInv, Advance, ~gone
  PROVE  Walked'
<1> USE DEF SyncInv
<1> DEFINE left == StillUnresolved
           next == NextHash(left)
<1>1. /\ pc = "bulk" /\ known = {} /\ todo = {} /\ batch = {} /\ Resolvable /\ KeptBack /\ Walked
      /\ UNCHANGED <<parents, height, local, remote, snapshot>> /\ Heads' = Heads
  BY QuietStep DEF Advance, GapInv, WalkInv, stores, graph, Heads, LeavesOf
<1>2. CASE Cardinality(left) > MaxUnresolved
  <2>1. pc' = "start"
    BY <1>2 DEF Advance
  <2> QED
    BY <1>1, <2>1 DEF Walked, InPage
<1>3. CASE ~(Cardinality(left) > MaxUnresolved)
  <2>1. /\ unresolved' = left
        /\ cursor' = IF next = None THEN cursor ELSE AtHash(next)
        /\ pc' = IF left # {} /\ isFull THEN "failed" ELSE IF next = None THEN "done" ELSE "read"
    BY <1>3 DEF Advance
  <2>2. CASE left # {}
    <3>1. next = response.backward /\ next # None /\ next \in remote
      BY <1>1, <2>2 DEF NextHash, BeforePage, Resolvable, InPage, StillUnresolved
    <3>2. \A m \in Heads : m < next => m \in local
      BY <1>1, <3>1 DEF Walked, InPage
    <3>3. pc' \in {"failed", "read"} /\ cursor'.hash = next
      BY <2>1, <3>1 DEF AtHash
    <3> HIDE DEF next, left
    <3> QED
      BY <1>1, <3>1, <3>2, <3>3 DEF Walked, InPage
  <2>3. CASE left = {}
    <3>1. next = response.forward /\ external = {}
      BY <2>3 DEF NextHash, StillUnresolved
    <3>2. response.messages \subseteq local
      BY <1>1, <3>1 DEF KeptBack, InPage
    <3>3. /\ next # None => next \in remote /\ \A m \in Heads : m < next => m \in local
          /\ next = None => Heads \subseteq local
      BY <1>1, <3>1, <3>2 DEF Walked, InPage
    <3>4. /\ next = None => pc' = "done"
          /\ next # None => pc' = "read" /\ cursor'.hash = next
      BY <2>1, <2>3 DEF AtHash
    <3> HIDE DEF next, left
    <3> QED
      BY <1>1, <3>3, <3>4 DEF Walked, InPage
  <2> QED
    BY <2>2, <2>3
<1> QED
  BY <1>2, <1>3

LEMMA WalkStep ==
  ASSUME SyncInv, GapInv, WalkInv, AllLeavesSeen, [Next]_vars
  PROVE  WalkInv'
<1> USE DEF SyncInv
<1> SUFFICES ASSUME ~gone' PROVE KeptBack' /\ Walked'
  BY HeightsStay DEF WalkInv
<1>1. ~gone
  BY DEF Next, SyncStep, Start, RemoteClamp, RemoteRead, Classify, Classified, Bulk, Receive,
         BulkEnd, Advance, RemoteInsert, LocalInsert, RemoteForget, Timeout, stores, vars
<1>2. KeptBack /\ Walked
  BY <1>1 DEF WalkInv
<1>3. CASE Start
  BY <1>2, <1>3 DEF Start, KeptBack, Walked, InPage, stores, graph, Heads, LeavesOf
<1>4. CASE RemoteClamp
  BY <1>1, <1>4, WalkClamp DEF RemoteClamp, KeptBack, InPage
<1>5. CASE RemoteRead
  BY <1>1, <1>5, WalkRead DEF RemoteRead, KeptBack, InPage
<1>6. CASE Classify
  <2>1. UNCHANGED <<parents, local, remote, snapshot, response, pc>> /\ pc = "classify"
    BY <1>6 DEF Classify, stores, graph
  <2> QED
    BY <1>1, <1>2, <1>6, <2>1, KeptClassify DEF Walked, InPage, Heads, LeavesOf
<1>7. CASE Bulk \/ Receive
  <2>1. /\ UNCHANGED <<parents, remote, snapshot, response, todo, unknown, external>> /\ InPage
        /\ pc' = "receive" \/ pc' = "banned"
    BY <1>7 DEF Bulk, Receive, graph, stores, dag, InPage
  <2>2. local \cup known \cup batch \subseteq local' \cup known' \cup batch' /\ local \subseteq local'
    <3>1. CASE Bulk
      <4>1. local' = local
        BY <3>1 DEF Bulk, stores
      <4> QED
        BY <1>1, <3>1, <4>1, BulkStep
    <3>2. CASE Receive
      <4>1. known' = known /\ local \subseteq local'
        BY <3>2 DEF Receive
      <4> QED
        BY <1>1, <3>2, <4>1, ReceiveStep
    <3> QED
      BY <1>7, <3>1, <3>2
  <2> QED
    BY <1>2, <2>1, <2>2 DEF KeptBack, Walked, InPage, Heads, LeavesOf
<1>8. CASE Classified \/ BulkEnd \/ Timeout
  <2>1. /\ UNCHANGED <<parents, local, remote, snapshot, response, todo, unknown, external, known, batch>>
        /\ pc' = "failed" \/ pc' = "banned" \/ (InPage /\ pc' = "bulk")
    BY <1>8 DEF Classified, BulkEnd, Timeout, graph, stores, dag, InPage
  <2> QED
    BY <1>2, <2>1 DEF KeptBack, Walked, InPage, Heads, LeavesOf
<1>9. CASE Advance
  BY <1>1, <1>9, WalkAdvance DEF Advance, KeptBack, InPage
<1>10. CASE RemoteForget \/ UNCHANGED vars \/ \E m \in Msg : RemoteInsert(m) \/ LocalInsert(m)
  <2>1. UNCHANGED <<graph, sync>> /\ remote \subseteq remote' /\ local \subseteq local'
    BY <1>10 DEF RemoteForget, RemoteInsert, LocalInsert, vars, stores, sync
  <2>2. /\ UNCHANGED <<parents, height, pc, snapshot, cursor, unresolved, response, todo, unknown, external>>
        /\ UNCHANGED <<known, batch>>
    BY <2>1 DEF graph, sync, dag
  <2>3. Heads' = Heads
    BY <2>2 DEF Heads, LeavesOf
  <2>4. KeptBack'
    BY <1>2, <2>1, <2>2 DEF KeptBack, InPage
  <2> QED
    BY <1>2, <2>1, <2>2, <2>3, <2>4 DEF Walked, InPage
<1> QED
  BY <1>3, <1>4, <1>5, <1>6, <1>7, <1>8, <1>9, <1>10 DEF Next, SyncStep

(* A store that is closed and has the heads of the snapshot has all of it. *)
LEMMA WalkComplete ==
  ASSUME SyncInv, WalkInv, ~gone
  PROVE  SyncComplete
<1> SUFFICES ASSUME pc = "done" PROVE snapshot \subseteq local
  BY DEF SyncComplete
<1>1. TypeOK /\ GraphOK /\ snapshot \in SUBSET Msg /\ Closed(local) /\ LeavesOf(snapshot) \subseteq local
  BY DEF SyncInv, TypeOK, StoresOK, WalkInv, Walked, Heads
<1> QED
  BY <1>1, HeadsCover
-----------------------------------------------------------------------------
(* The inductive invariant of a sync holds in every reachable state. *)
THEOREM SyncInvariant == Spec => []SyncInv
BY SyncInit, SyncInvStep, PTL DEF Spec

(* Every state of a sync is well typed. *)
THEOREM SyncTyped == Spec => []TypeOK
<1>1. SyncInv => TypeOK
  BY DEF SyncInv
<1> QED
  BY <1>1, SyncInvariant, PTL

(* Whatever the remote sends in bulk, and however both stores grow meanwhile, receive() only adds *)
(* messages whose parents are stored: the store that is synced into stays closed.                 *)
THEOREM LocalAlwaysClosed == Spec => []Closed(local)
<1>1. SyncInv => Closed(local)
  BY DEF SyncInv, StoresOK
<1> QED
  BY <1>1, SyncInvariant, PTL

(* An honest remote is banned by sync() only after it removed the channel, or gained a message    *)
(* that sorts before what a full sync had already read: else bulk responses come parents first,   *)
(* and the pages of a full sync leave no parent behind, however both stores grow.  A message that *)
(* is overtaken is in no later page, but may be the parent of one that is.                        *)
THEOREM HonestNeverBannedInSync == Spec => []HonestRemoteNotBanned
<1>1. Init => FullInv
  BY DEF Init, FullInv, Full, HonestRemoteNotBanned
<1>2. SyncInv /\ SyncInv' /\ FullInv /\ [Next]_vars => FullInv'
  BY FullInvStep
<1>3. FullInv => HonestRemoteNotBanned
  BY DEF FullInv
<1> QED
  BY <1>1, <1>2, <1>3, SyncInvariant, PTL DEF Spec

(* computePartialDAG sorts a page right, for every graph and however the store grows while it *)
(* looks parents up: the messages to request bring their missing ancestry with them, every    *)
(* other new one is kept back by an external hash, and no external hash is in the page.       *)
THEOREM PagesClassified == Spec => []PageClassified
<1>1. Init => Looked
  BY DEF Init, Looked
<1>2. SyncInv /\ Looked /\ [Next]_vars => Looked'
  BY LookedStep
<1>3. SyncInv /\ Looked => PageClassified
  BY LookedClassified
<1> QED
  BY <1>1, <1>2, <1>3, SyncInvariant, PTL DEF Spec

LEMMA GapInvariant == Spec => []GapInv
<1>1. Init => GapInv
  BY DEF Init, GapInv, Resolvable, InPage
<1>2. SyncInv /\ GapInv /\ [Next]_vars => GapInv'
  BY GapStep
<1> QED
  BY <1>1, <1>2, SyncInvariant, PTL DEF Spec

(* sync() returns with nothing left to resolve, although its loop also ends when a backward *)
(* page has no predecessor: such a page begins with the first of the remote's messages.     *)
(* Only a remote that removes the channel meanwhile answers without what was asked for.     *)
THEOREM NothingUnresolved == Spec => [](~gone => NoSilentGap)
<1>1. GapInv => (~gone => NoSilentGap)
  BY DEF GapInv, Resolvable, NoSilentGap
<1> QED
  BY <1>1, GapInvariant, PTL

(* A sync that returns has fetched all that the remote had when it was first asked, for every *)
(* graph, page size and limits, although pages begin at a height, are cut, go back and forth  *)
(* and shift as both stores grow: the heads of what the remote had are reached, and the store *)
(* has the ancestors of what it has.  The remote must look at all of its leaves to choose the *)
(* height, and keep the channel.                                                              *)
THEOREM SyncFetchesAll == Spec /\ []AllLeavesSeen => [](~gone => SyncComplete)
<1>1. SyncInv /\ GapInv /\ WalkInv /\ AllLeavesSeen /\ [Next]_vars => WalkInv'
  BY WalkStep
<1>2. SyncInv /\ WalkInv => (~gone => SyncComplete)
  BY WalkComplete
<1> QED
  BY <1>1, <1>2, WalkInit, SyncInvariant, GapInvariant, PTL DEF Spec
=============================================================================
