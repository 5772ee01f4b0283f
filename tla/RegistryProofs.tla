---------------------------- MODULE RegistryProofs ----------------------------
(***************************************************************************)
(* Theorems about Registry: in memory, in the storage and after every      *)
(* prefix of the operations that are under way, names are unique, and what *)
(* the storage will hold when they are done is what the memory holds; a    *)
(* message or a chain of a channel that does not exist belongs to a call   *)
(* that will take it away; a channel made here has an owner.  For any      *)
(* number of keys, names, concurrent calls and crashes.                    *)
(***************************************************************************)
EXTENDS Registry, Integers, SequenceTheorems, FiniteSetTheorems, WellFoundedInduction, TLAPS

-----------------------------------------------------------------------------
(* The greatest and the least element of sets of numbers *)

(* A finite nonempty set of integers has a greatest element.  Otherwise    *)
(* take a smallest nonempty subset without one and drop an element.        *)
LEMMA MaximumExists ==
  ASSUME NEW S \in SUBSET Int, IsFiniteSet(S), S # {}
  PROVE  \E m \in S : \A x \in S : x <= m
<1> DEFINE HasMax(A) == \E m \in A : \A x \in A : x <= m
           Bad == {A \in SUBSET S : A # {} /\ ~HasMax(A)}
<1> SUFFICES ASSUME ~HasMax(S) PROVE FALSE
  OBVIOUS
<1>1. IsWellFoundedOn(StrictSubsetOrdering(S), SUBSET S)
  BY FS_StrictSubsetOrderingWellFounded, FS_FiniteSubsetsOfFinite
<1>2. Bad \subseteq SUBSET S /\ Bad # {}
  OBVIOUS
<1>3. PICK A \in Bad : \A B \in Bad : <<B, A>> \notin StrictSubsetOrdering(S)
  <2> HIDE DEF Bad
  <2>1. \E A \in Bad : \A B \in Bad : ~(<<B, A>> \in StrictSubsetOrdering(S))
    BY <1>1, <1>2, WFMin
  <2> QED
    BY <2>1
<1>4. PICK a \in A : TRUE
  OBVIOUS
<1> DEFINE B == A \ {a}
<1>5. B # {}
  <2> SUFFICES ASSUME B = {} PROVE FALSE
    OBVIOUS
  <2>1. A = {a} /\ a \in Int
    BY <1>4
  <2> QED
    BY <2>1
<1>6. <<B, A>> \in StrictSubsetOrdering(S)
  BY <1>4 DEF StrictSubsetOrdering
<1>7. HasMax(B)
  BY <1>3, <1>5, <1>6
<1>8. PICK m \in B : \A x \in B : x <= m
  BY <1>7
<1>9. a \in Int /\ m \in Int /\ A = B \cup {a}
  BY <1>4
<1>10. CASE a <= m
  <2>1. \A x \in A : x <= m
    BY <1>8, <1>9
  <2> QED
    BY <1>8, <1>9, <2>1
<1>11. CASE m <= a
  <2>1. \A x \in A : x <= a
    BY <1>8, <1>9, <1>11
  <2> QED
    BY <1>4, <2>1
<1> QED
  BY <1>9, <1>10, <1>11

(* Every nonempty set of natural numbers has a least element. *)
LEMMA MinProperty ==
  ASSUME NEW S \in SUBSET Nat, S # {}
  PROVE  Min(S) \in S /\ \A x \in S : Min(S) <= x
<1>1. PICK m \in S : \A x \in S : ~(<<x, m>> \in OpToRel(<, Nat))
  BY NatLessThanWellFounded, WFMin, Zenon
<1>2. \A x \in S : ~(x < m)
  BY <1>1 DEF OpToRel
<1>3. \E k \in S : \A x \in S : k <= x
  BY <1>2
<1> QED
  BY <1>3, Zenon DEF Min

-----------------------------------------------------------------------------
(* Types of what calls are and await *)

Data == [name : Name, chains : SUBSET Key]
OpType ==
  {Read} \cup [do : {"storeChannel"}, key : Key, data : Name]
         \cup [do : {"eraseChannel", "removeMessages"}, key : Key, data : {None}]
         \cup [do : {"addMessage"}, key : Key, data : {"root", "next"}]
         \cup [do : {"storeIdentity"}, key : Own, data : Data]
         \cup [do : {"eraseIdentity"}, key : Own, data : {None}]
CallType ==
  [op : {"idle", "create", "join", "feed", "receive", "removeChannel", "removeIdentity"},
   key : Key \cup {None}, id : Own \cup {None}, name : Name \cup {None, "root", "next"},
   step : {"begun", "invited", "saved", "done", "cleanup"}, at : Nat \ {0}, awaits : OpType]

Awaiting(c) == c.op # "idle" /\ c.step # "invited"

(* What a call awaits at each of its steps. *)
Fits(c) ==
  \/ c = Idle
  \/ /\ c.op = "create" /\ c.key \in Own /\ c.id = c.key /\ c.name \in OwnName
     /\ \/ c.step = "begun" /\ c.awaits = Op("addMessage", c.key, "root")
        \/ c.step = "saved" /\ c.awaits = StoreChannel(c.key, c.name)
        \/ c.step = "done" /\ c.awaits.do = "storeIdentity" /\ c.awaits.key = c.id
  \/ /\ c.op = "join" /\ c.key \in Foreign /\ c.id \in Own /\ c.name \in ForeignName
     /\ \/ c.step = "invited" /\ c.awaits = Read
        \/ c.step = "begun" /\ c.awaits.do = "storeIdentity" /\ c.awaits.key = c.id
        \/ c.step = "saved" /\ c.awaits = StoreChannel(c.key, c.name)
  \/ /\ c.op = "feed" /\ c.key \in Foreign /\ c.name \in ForeignName
     /\ c.step = "begun" /\ c.awaits = StoreChannel(c.key, c.name)
  \/ /\ c.op = "receive" /\ c.key \in Foreign /\ c.name \in {"root", "next"}
     /\ \/ c.step = "begun" /\ c.awaits = Read
        \/ c.step = "done" /\ c.awaits = Op("addMessage", c.key, c.name)
  \/ /\ c.op = "removeChannel" /\ c.key \in Key
     /\ \/ c.step = "begun" /\ c.awaits = Op("eraseChannel", c.key, None)
        \/ c.step = "cleanup" /\ (c.awaits = Op("removeMessages", c.key, None) \/ c.awaits.do = "storeIdentity")
  \/ /\ c.op = "removeIdentity" /\ c.key = None /\ c.id \in Own
     /\ c.step = "begun" /\ c.awaits = Op("eraseIdentity", c.id, None)

MemTypes ==
  /\ up \in {"yes", "no", "failed"}
  /\ channels \in [Key -> Name \cup {None}]
  /\ used \subseteq Own /\ identities \in Seq(used)
  /\ idName \in [Own -> Name \cup {None}] /\ chains \in [Own -> SUBSET Key]
DiskTypes ==
  /\ chanDisk \in [Key -> Name \cup {None}]
  /\ idDisk \in [Own -> Data \cup {None}] /\ messages \in [Key -> SUBSET {"root", "next"}]
CallTypes == call \in [Slot -> CallType] /\ \A s \in Slot : Fits(call[s])

(* The queue holds the calls that await the storage, each once. *)
Queued ==
  /\ queue \in Seq(Slot) /\ (\A m, n \in 1..Len(queue) : queue[m] = queue[n] => m = n)
  /\ \A s \in Slot : (\E n \in 1..Len(queue) : queue[n] = s) <=> Awaiting(call[s])
Down ==
  up # "yes" => /\ \A s \in Slot : call[s] = Idle
                /\ channels = [k \in Key |-> None] /\ identities = << >>

Types == MemTypes /\ DiskTypes /\ CallTypes /\ Queued /\ Down

LEMMA Constants ==
  /\ Own \subseteq Key /\ Foreign \subseteq Key /\ Own \cap Foreign = {} /\ IsFiniteSet(Own)
  /\ Name \subseteq Nat /\ OwnName \subseteq Name /\ ForeignName \subseteq Name
  /\ None \notin Name /\ None \notin Key /\ None \notin Data /\ Slot = 1..Slots
BY RegistryAssumption DEF Key, Name, Data, Slot

LEMMA OpTypes ==
  /\ Read \in OpType
  /\ \A k \in Key : /\ \A name \in Name : StoreChannel(k, name) \in OpType
                    /\ Op("eraseChannel", k, None) \in OpType /\ Op("removeMessages", k, None) \in OpType
                    /\ \A m \in {"root", "next"} : Op("addMessage", k, m) \in OpType
  /\ \A i \in Own : /\ \A ch \in SUBSET Key : idName[i] \in Name => StoreIdentity(i, ch) \in OpType
                    /\ Op("eraseIdentity", i, None) \in OpType
<1>1. Read \in OpType
  BY DEF OpType
<1>2. ASSUME NEW k \in Key
      PROVE  /\ \A name \in Name : StoreChannel(k, name) \in OpType
             /\ Op("eraseChannel", k, None) \in OpType /\ Op("removeMessages", k, None) \in OpType
             /\ \A m \in {"root", "next"} : Op("addMessage", k, m) \in OpType
  BY DEF OpType, StoreChannel, Op
<1>3. ASSUME NEW i \in Own PROVE Op("eraseIdentity", i, None) \in OpType
  BY DEF OpType, Op
<1>4. ASSUME NEW i \in Own, NEW ch \in SUBSET Key, idName[i] \in Name PROVE StoreIdentity(i, ch) \in OpType
  <2>1. [name |-> idName[i], chains |-> ch] \in Data
    BY <1>4 DEF Data
  <2> QED
    BY <2>1 DEF OpType, StoreIdentity, Op
<1> QED
  BY <1>1, <1>2, <1>3, <1>4

LEMMA OpKinds ==
  ASSUME NEW w \in OpType
  PROVE  /\ w.do \in {"storeChannel", "eraseChannel", "removeMessages", "addMessage"} => w.key \in Key
         /\ w.do \in {"storeIdentity", "eraseIdentity"} => w.key \in Own
         /\ w.do = "storeChannel" => w.data \in Name
         /\ w.do = "eraseChannel" => w.data = None
         /\ w.do = "addMessage" => w.data \in {"root", "next"}
         /\ w.do = "storeIdentity" => w.data \in Data
         /\ w.do = "eraseIdentity" => w.data = None
<1>1. CASE w = Read
  BY <1>1 DEF Read, Op
<1>2. CASE w \in [do : {"storeChannel"}, key : Key, data : Name]
  BY <1>2
<1>3. CASE w \in [do : {"eraseChannel", "removeMessages"}, key : Key, data : {None}]
  BY <1>3
<1>4. CASE w \in [do : {"addMessage"}, key : Key, data : {"root", "next"}]
  BY <1>4
<1>5. CASE w \in [do : {"storeIdentity"}, key : Own, data : Data]
  BY <1>5
<1>6. CASE w \in [do : {"eraseIdentity"}, key : Own, data : {None}]
  BY <1>6
<1> QED
  BY <1>1, <1>2, <1>3, <1>4, <1>5, <1>6 DEF OpType

-----------------------------------------------------------------------------
(* The queue *)

LEMMA QueueAppend ==
  ASSUME NEW q \in Seq(Slot), \A m, n \in 1..Len(q) : q[m] = q[n] => m = n,
         NEW s \in Slot, \A n \in 1..Len(q) : q[n] # s
  PROVE  /\ Append(q, s) \in Seq(Slot) /\ Len(Append(q, s)) = Len(q) + 1 /\ Len(q) \in Nat
         /\ \A m, n \in 1..(Len(q) + 1) : Append(q, s)[m] = Append(q, s)[n] => m = n
         /\ \A n \in 1..Len(q) : Append(q, s)[n] = q[n]
         /\ Append(q, s)[Len(q) + 1] = s
         /\ \A t \in Slot : (\E n \in 1..(Len(q) + 1) : Append(q, s)[n] = t) <=> t = s \/ \E n \in 1..Len(q) : q[n] = t
<1> DEFINE r == Append(q, s)
<1>1. /\ r \in Seq(Slot) /\ Len(r) = Len(q) + 1 /\ Len(q) \in Nat
      /\ \A n \in 1..Len(q) : r[n] = q[n]
      /\ r[Len(q) + 1] = s
  BY AppendProperties, LenProperties
<1> HIDE DEF r
<1>2. \A m, n \in 1..(Len(q) + 1) : r[m] = r[n] => m = n
  <2> SUFFICES ASSUME NEW m \in 1..(Len(q) + 1), NEW n \in 1..(Len(q) + 1), r[m] = r[n] PROVE m = n
    OBVIOUS
  <2>1. CASE m = Len(q) + 1 /\ n # Len(q) + 1
    <3>1. n \in 1..Len(q)
      BY <1>1, <2>1
    <3> QED
      BY <1>1, <2>1, <3>1
  <2>2. CASE m # Len(q) + 1 /\ n = Len(q) + 1
    <3>1. m \in 1..Len(q)
      BY <1>1, <2>2
    <3> QED
      BY <1>1, <2>2, <3>1
  <2>3. CASE m # Len(q) + 1 /\ n # Len(q) + 1
    <3>1. m \in 1..Len(q) /\ n \in 1..Len(q)
      BY <1>1, <2>3
    <3> QED
      BY <1>1, <3>1
  <2> QED
    BY <2>1, <2>2, <2>3
<1>3. ASSUME NEW t \in Slot
      PROVE  (\E n \in 1..(Len(q) + 1) : r[n] = t) <=> t = s \/ \E n \in 1..Len(q) : q[n] = t
  BY <1>1
<1> QED
  BY <1>1, <1>2, <1>3 DEF r

LEMMA QueueTail ==
  ASSUME NEW q \in Seq(Slot), \A m, n \in 1..Len(q) : q[m] = q[n] => m = n, q # << >>
  PROVE  /\ Tail(q) \in Seq(Slot) /\ Len(q) \in Nat \ {0} /\ Len(Tail(q)) = Len(q) - 1
         /\ \A m, n \in 1..(Len(q) - 1) : Tail(q)[m] = Tail(q)[n] => m = n
         /\ \A n \in 1..(Len(q) - 1) : Tail(q)[n] = q[n + 1] /\ q[n + 1] # Head(q)
         /\ Head(q) = q[1] /\ Head(q) \in Slot
         /\ \A t \in Slot : (\E n \in 1..(Len(q) - 1) : Tail(q)[n] = t) <=> t # Head(q) /\ \E n \in 1..Len(q) : q[n] = t
<1> DEFINE r == Tail(q)
<1>1. /\ r \in Seq(Slot) /\ Len(r) = Len(q) - 1 /\ Len(q) \in Nat \ {0}
      /\ \A n \in 1..Len(r) : r[n] = q[n + 1]
      /\ Head(q) = q[1] /\ Head(q) \in Slot
  BY HeadTailProperties, LenProperties, EmptySeq
<1> HIDE DEF r
<1>2. \A n \in 1..(Len(q) - 1) : r[n] = q[n + 1] /\ q[n + 1] # q[1]
  BY <1>1
<1>3. \A m, n \in 1..(Len(q) - 1) : r[m] = r[n] => m = n
  BY <1>1, <1>2
<1>4. ASSUME NEW t \in Slot
      PROVE  (\E n \in 1..(Len(q) - 1) : r[n] = t) <=> t # q[1] /\ \E n \in 1..Len(q) : q[n] = t
  <2>1. ASSUME NEW n \in 1..(Len(q) - 1), r[n] = t PROVE t # q[1] /\ \E m \in 1..Len(q) : q[m] = t
    <3>1. n + 1 \in 1..Len(q)
      BY <1>1
    <3> QED
      BY <1>2, <2>1, <3>1
  <2>2. ASSUME t # q[1], NEW n \in 1..Len(q), q[n] = t PROVE \E m \in 1..(Len(q) - 1) : r[m] = t
    <3>1. n # 1
      BY <2>2
    <3>2. n - 1 \in 1..(Len(q) - 1) /\ (n - 1) + 1 = n
      BY <1>1, <3>1
    <3>3. r[n - 1] = t
      BY <1>2, <2>2, <3>2
    <3> QED
      BY <3>2, <3>3
  <2> QED
    BY <2>1, <2>2
<1> QED
  BY <1>1, <1>2, <1>3, <1>4 DEF r

-----------------------------------------------------------------------------
(* What the storage will hold *)

Ops == [n \in 1..Len(queue) |-> call[queue[n]].awaits]

ChannelOps == {"storeChannel", "eraseChannel"}
IdentityOps == {"storeIdentity", "eraseIdentity"}
Writes(W, w, x) == w.do \in W /\ w.key = x

(* After n of the operations that calls await, v is what disk d has for x. *)
At(W, ops, d, x, n, v) ==
  \/ v = d[x] /\ \A m \in 1..n : ~Writes(W, ops[m], x)
  \/ \E m \in 1..n : /\ Writes(W, ops[m], x) /\ v = ops[m].data
                     /\ \A l \in (m + 1)..n : ~Writes(W, ops[l], x)

LEMMA AtZero ==
  ASSUME NEW W, NEW ops, NEW d, NEW x, NEW v
  PROVE  At(W, ops, d, x, 0, v) <=> v = d[x]
BY DEF At

LEMMA AtLast ==
  ASSUME NEW W, NEW ops, NEW d, NEW x, NEW v, NEW n \in Nat
  PROVE  At(W, ops, d, x, n + 1, v) <=>
           IF Writes(W, ops[n + 1], x) THEN v = ops[n + 1].data ELSE At(W, ops, d, x, n, v)
<1>1. CASE Writes(W, ops[n + 1], x)
  <2>1. v = ops[n + 1].data => At(W, ops, d, x, n + 1, v)
    BY <1>1 DEF At
  <2>2. At(W, ops, d, x, n + 1, v) => v = ops[n + 1].data
    BY <1>1 DEF At
  <2> QED
    BY <1>1, <2>1, <2>2
<1>2. CASE ~Writes(W, ops[n + 1], x)
  <2>1. ASSUME At(W, ops, d, x, n, v) PROVE At(W, ops, d, x, n + 1, v)
    <3>1. CASE v = d[x] /\ \A m \in 1..n : ~Writes(W, ops[m], x)
      BY <1>2, <3>1 DEF At
    <3>2. CASE \E m \in 1..n : /\ Writes(W, ops[m], x) /\ v = ops[m].data
                               /\ \A l \in (m + 1)..n : ~Writes(W, ops[l], x)
      BY <1>2, <3>2 DEF At
    <3> QED
      BY <2>1, <3>1, <3>2 DEF At
  <2>2. ASSUME At(W, ops, d, x, n + 1, v) PROVE At(W, ops, d, x, n, v)
    <3>1. CASE v = d[x] /\ \A m \in 1..(n + 1) : ~Writes(W, ops[m], x)
      BY <3>1 DEF At
    <3>2. CASE \E m \in 1..(n + 1) : /\ Writes(W, ops[m], x) /\ v = ops[m].data
                                     /\ \A l \in (m + 1)..(n + 1) : ~Writes(W, ops[l], x)
      BY <1>2, <3>2 DEF At
    <3> QED
      BY <2>2, <3>1, <3>2 DEF At
  <2> QED
    BY <1>2, <2>1, <2>2
<1> QED
  BY <1>1, <1>2

(* The first of the operations takes effect. *)
LEMMA AtNext ==
  ASSUME NEW W, NEW ops, NEW opsN, NEW d, NEW dN, NEW x, NEW len \in Nat \ {0},
         \A m \in 1..(len - 1) : opsN[m] = ops[m + 1],
         dN[x] = IF Writes(W, ops[1], x) THEN ops[1].data ELSE d[x],
         NEW n \in 0..(len - 1), NEW v
  PROVE  At(W, opsN, dN, x, n, v) <=> At(W, ops, d, x, n + 1, v)
<1>1. ASSUME At(W, opsN, dN, x, n, v) PROVE At(W, ops, d, x, n + 1, v)
  <2>1. CASE v = dN[x] /\ \A m \in 1..n : ~Writes(W, opsN[m], x)
    <3>1. \A l \in 2..(n + 1) : ~Writes(W, ops[l], x)
      <4> SUFFICES ASSUME NEW l \in 2..(n + 1) PROVE ~Writes(W, ops[l], x)
        OBVIOUS
      <4>1. l - 1 \in 1..n /\ l - 1 \in 1..(len - 1) /\ (l - 1) + 1 = l
        OBVIOUS
      <4>2. opsN[l - 1] = ops[l]
        BY <4>1
      <4> QED
        BY <2>1, <4>1, <4>2
    <3> QED
      BY <2>1, <3>1 DEF At
  <2>2. CASE \E m \in 1..n : /\ Writes(W, opsN[m], x) /\ v = opsN[m].data
                             /\ \A l \in (m + 1)..n : ~Writes(W, opsN[l], x)
    <3>1. PICK m \in 1..n : /\ Writes(W, opsN[m], x) /\ v = opsN[m].data
                            /\ \A l \in (m + 1)..n : ~Writes(W, opsN[l], x)
      BY <2>2
    <3>2. m + 1 \in 1..(n + 1) /\ opsN[m] = ops[m + 1]
      OBVIOUS
    <3>3. \A l \in (m + 2)..(n + 1) : ~Writes(W, ops[l], x)
      <4> SUFFICES ASSUME NEW l \in (m + 2)..(n + 1) PROVE ~Writes(W, ops[l], x)
        OBVIOUS
      <4>1. l - 1 \in (m + 1)..n /\ l - 1 \in 1..(len - 1) /\ (l - 1) + 1 = l
        OBVIOUS
      <4>2. opsN[l - 1] = ops[l]
        BY <4>1
      <4> QED
        BY <3>1, <4>1, <4>2
    <3>4. (m + 1) + 1 = m + 2
      OBVIOUS
    <3> QED
      BY <3>1, <3>2, <3>3, <3>4 DEF At
  <2> QED
    BY <1>1, <2>1, <2>2 DEF At
<1>2. ASSUME At(W, ops, d, x, n + 1, v) PROVE At(W, opsN, dN, x, n, v)
  <2>1. \A l \in 1..n : opsN[l] = ops[l + 1] /\ l + 1 \in 1..(n + 1)
    OBVIOUS
  <2>2. CASE v = d[x] /\ \A m \in 1..(n + 1) : ~Writes(W, ops[m], x)
    BY <2>1, <2>2 DEF At
  <2>3. CASE \E m \in 1..(n + 1) : /\ Writes(W, ops[m], x) /\ v = ops[m].data
                                   /\ \A l \in (m + 1)..(n + 1) : ~Writes(W, ops[l], x)
    <3>1. PICK m \in 1..(n + 1) : /\ Writes(W, ops[m], x) /\ v = ops[m].data
                                  /\ \A l \in (m + 1)..(n + 1) : ~Writes(W, ops[l], x)
      BY <2>3
    <3>2. CASE m = 1
      <4>1. \A l \in 1..n : l + 1 \in (m + 1)..(n + 1)
        BY <3>2
      <4> QED
        BY <2>1, <3>1, <3>2, <4>1 DEF At
    <3>3. CASE m # 1
      <4>1. m - 1 \in 1..n /\ (m - 1) + 1 = m
        BY <3>3
      <4>2. \A l \in ((m - 1) + 1)..n : l \in 1..n /\ l + 1 \in (m + 1)..(n + 1)
        BY <3>3
      <4>3. Writes(W, opsN[m - 1], x) /\ v = opsN[m - 1].data
        BY <2>1, <3>1, <4>1
      <4>4. \A l \in ((m - 1) + 1)..n : ~Writes(W, opsN[l], x)
        BY <2>1, <3>1, <4>2
      <4> QED
        BY <4>1, <4>3, <4>4 DEF At
    <3> QED
      BY <3>2, <3>3
  <2> QED
    BY <1>2, <2>2, <2>3 DEF At
<1> QED
  BY <1>1, <1>2

(* Operations that are only added change nothing of what was before. *)
LEMMA AtSame ==
  ASSUME NEW W, NEW ops, NEW opsN, NEW d, NEW dN, NEW x, NEW len \in Nat,
         \A m \in 1..len : opsN[m] = ops[m], dN[x] = d[x], NEW n \in 0..len, NEW v
  PROVE  At(W, opsN, dN, x, n, v) <=> At(W, ops, d, x, n, v)
<1>1. \A m \in 1..n : opsN[m] = ops[m]
  OBVIOUS
<1>2. \A m \in 1..n : \A l \in (m + 1)..n : opsN[l] = ops[l]
  OBVIOUS
<1> QED
  BY <1>1, <1>2 DEF At

-----------------------------------------------------------------------------
(* Calls begin, go on and return *)

ChanAt(k, n, v) == At(ChannelOps, Ops, chanDisk, k, n, v)
IdAt(i, n, v) == At(IdentityOps, Ops, idDisk, i, n, v)
ChanLast(k, v) == At(ChannelOps, Ops, chanDisk, k, Len(queue), v)
IdLast(i, v) == At(IdentityOps, Ops, idDisk, i, Len(queue), v)

(* h of the operations take effect and a of them are added; both are 0 or 1. *)
Turn(h, a) ==
  /\ Len(queue) \in Nat /\ h <= Len(queue) /\ Len(queue') = Len(queue) - h + a
  /\ \A m \in 1..(Len(queue) - h) : Ops'[m] = Ops[m + h]
  /\ \A k \in Key : chanDisk'[k] = IF h = 1 /\ Writes(ChannelOps, Ops[1], k) THEN Ops[1].data ELSE chanDisk[k]
  /\ \A i \in Own : idDisk'[i] = IF h = 1 /\ Writes(IdentityOps, Ops[1], i) THEN Ops[1].data ELSE idDisk[i]

LEMMA OpsAt ==
  ASSUME Types
  PROVE  /\ Len(queue) \in Nat
         /\ \A n \in 1..Len(queue) : queue[n] \in Slot /\ Ops[n] = call[queue[n]].awaits /\ Ops[n] \in OpType
<1>1. queue \in Seq(Slot) /\ call \in [Slot -> CallType]
  BY DEF Types, Queued, CallTypes
<1>2. Len(queue) \in Nat /\ \A n \in 1..Len(queue) : queue[n] \in Slot
  BY <1>1, LenProperties, ElementOfSeq
<1>3. \A s \in Slot : call[s].awaits \in OpType
  BY <1>1 DEF CallType
<1> QED
  BY <1>2, <1>3 DEF Ops

LEMMA TurnAt ==
  ASSUME NEW h \in {0, 1}, NEW a \in {0, 1}, Turn(h, a)
  PROVE  /\ \A k \in Key, n \in 0..(Len(queue) - h) : \A v : ChanAt(k, n, v)' <=> ChanAt(k, n + h, v)
         /\ \A i \in Own, n \in 0..(Len(queue) - h) : \A v : IdAt(i, n, v)' <=> IdAt(i, n + h, v)
<1> DEFINE len == Len(queue)
<1>1. CASE h = 0
  <2>1. len \in Nat /\ \A m \in 1..len : Ops'[m] = Ops[m]
    BY <1>1 DEF Turn
  <2>2. ASSUME NEW k \in Key, NEW n \in 0..len, NEW v PROVE ChanAt(k, n, v)' <=> ChanAt(k, n, v)
    <3>1. chanDisk'[k] = chanDisk[k]
      BY <1>1 DEF Turn
    <3> QED
      BY <2>1, <3>1, AtSame DEF ChanAt
  <2>3. ASSUME NEW i \in Own, NEW n \in 0..len, NEW v PROVE IdAt(i, n, v)' <=> IdAt(i, n, v)
    <3>1. idDisk'[i] = idDisk[i]
      BY <1>1 DEF Turn
    <3> QED
      BY <2>1, <3>1, AtSame DEF IdAt
  <2>4. \A n \in 0..(len - h) : n \in 0..len /\ n + h = n
    BY <1>1, <2>1
  <2> QED
    BY <2>2, <2>3, <2>4
<1>2. CASE h = 1
  <2>1. len \in Nat \ {0} /\ \A m \in 1..(len - 1) : Ops'[m] = Ops[m + 1]
    BY <1>2 DEF Turn
  <2> HIDE DEF len
  <2>2. ASSUME NEW k \in Key, NEW n \in 0..(len - 1), NEW v PROVE ChanAt(k, n, v)' <=> ChanAt(k, n + 1, v)
    <3>1. chanDisk'[k] = IF Writes(ChannelOps, Ops[1], k) THEN Ops[1].data ELSE chanDisk[k]
      BY <1>2 DEF Turn
    <3> QED
      BY <2>1, <3>1, AtNext DEF ChanAt
  <2>3. ASSUME NEW i \in Own, NEW n \in 0..(len - 1), NEW v PROVE IdAt(i, n, v)' <=> IdAt(i, n + 1, v)
    <3>1. idDisk'[i] = IF Writes(IdentityOps, Ops[1], i) THEN Ops[1].data ELSE idDisk[i]
      BY <1>2 DEF Turn
    <3> QED
      BY <2>1, <3>1, AtNext DEF IdAt
  <2> QED
    BY <1>2, <2>2, <2>3 DEF len
<1> QED
  BY <1>1, <1>2

(* After the last operation, w, holds what it writes, or what held before it. *)
LEMMA TurnLast ==
  ASSUME NEW h \in {0, 1}, Turn(h, 1)
  PROVE  /\ \A k \in Key : \A v : ChanLast(k, v)' <=> IF Writes(ChannelOps, Ops'[Len(queue')], k)
                                                 THEN v = Ops'[Len(queue')].data ELSE ChanLast(k, v)
         /\ \A i \in Own : \A v : IdLast(i, v)' <=> IF Writes(IdentityOps, Ops'[Len(queue')], i)
                                               THEN v = Ops'[Len(queue')].data ELSE IdLast(i, v)
<1>1. PICK n \in Nat : n = Len(queue) - h
  <2>1. CASE h = 0
    BY <2>1 DEF Turn
  <2>2. CASE h = 1
    <3>1. Len(queue) \in Nat /\ 1 <= Len(queue)
      BY <2>2 DEF Turn
    <3>2. Len(queue) - 1 \in Nat
      BY <3>1
    <3> QED
      BY <2>2, <3>2
  <2> QED
    BY <2>1, <2>2
<1>2. Len(queue') = n + 1 /\ n + h = Len(queue) /\ n \in 0..(Len(queue) - h)
  BY <1>1 DEF Turn
<1>3. ASSUME NEW k \in Key, NEW v
      PROVE  ChanLast(k, v)' <=> IF Writes(ChannelOps, Ops'[Len(queue')], k)
                                 THEN v = Ops'[Len(queue')].data ELSE ChanLast(k, v)
  <2>1. ChanAt(k, n, v)' <=> ChanAt(k, n + h, v)
    BY <1>2, TurnAt
  <2>2. ChanLast(k, v)' <=> At(ChannelOps, Ops', chanDisk', k, n + 1, v)
    BY <1>2 DEF ChanLast
  <2>3. At(ChannelOps, Ops', chanDisk', k, n + 1, v) <=>
          IF Writes(ChannelOps, Ops'[n + 1], k) THEN v = Ops'[n + 1].data ELSE At(ChannelOps, Ops', chanDisk', k, n, v)
    BY AtLast
  <2>4. ChanAt(k, n, v)' <=> At(ChannelOps, Ops', chanDisk', k, n, v)
    BY DEF ChanAt
  <2>5. ChanAt(k, n + h, v) <=> ChanLast(k, v)
    BY <1>2 DEF ChanAt, ChanLast
  <2> QED
    BY <1>2, <2>1, <2>2, <2>3, <2>4, <2>5
<1>4. ASSUME NEW i \in Own, NEW v
      PROVE  IdLast(i, v)' <=> IF Writes(IdentityOps, Ops'[Len(queue')], i)
                               THEN v = Ops'[Len(queue')].data ELSE IdLast(i, v)
  <2>1. IdAt(i, n, v)' <=> IdAt(i, n + h, v)
    BY <1>2, TurnAt
  <2>2. IdLast(i, v)' <=> At(IdentityOps, Ops', idDisk', i, n + 1, v)
    BY <1>2 DEF IdLast
  <2>3. At(IdentityOps, Ops', idDisk', i, n + 1, v) <=>
          IF Writes(IdentityOps, Ops'[n + 1], i) THEN v = Ops'[n + 1].data ELSE At(IdentityOps, Ops', idDisk', i, n, v)
    BY AtLast
  <2>4. IdAt(i, n, v)' <=> At(IdentityOps, Ops', idDisk', i, n, v)
    BY DEF IdAt
  <2>5. IdAt(i, n + h, v) <=> IdLast(i, v)
    BY <1>2 DEF IdAt, IdLast
  <2> QED
    BY <1>2, <2>1, <2>2, <2>3, <2>4, <2>5
<1> QED
  BY <1>3, <1>4

LEMMA TurnNone ==
  ASSUME NEW h \in {0, 1}, Turn(h, 0)
  PROVE  /\ \A k \in Key : \A v : ChanLast(k, v)' <=> ChanLast(k, v)
         /\ \A i \in Own : \A v : IdLast(i, v)' <=> IdLast(i, v)
<1>1. PICK n \in Nat : n = Len(queue) - h
  <2>1. CASE h = 0
    BY <2>1 DEF Turn
  <2>2. CASE h = 1
    <3>1. Len(queue) \in Nat /\ 1 <= Len(queue)
      BY <2>2 DEF Turn
    <3>2. Len(queue) - 1 \in Nat
      BY <3>1
    <3> QED
      BY <2>2, <3>2
  <2> QED
    BY <2>1, <2>2
<1>2. Len(queue') = n /\ n + h = Len(queue) /\ n \in 0..(Len(queue) - h)
  BY <1>1 DEF Turn
<1>3. ASSUME NEW k \in Key, NEW v PROVE ChanLast(k, v)' <=> ChanLast(k, v)
  <2>1. ChanAt(k, n, v)' <=> ChanAt(k, n + h, v)
    BY <1>2, TurnAt
  <2>2. ChanLast(k, v)' <=> ChanAt(k, n, v)'
    BY <1>2 DEF ChanLast, ChanAt
  <2>3. ChanAt(k, n + h, v) <=> ChanLast(k, v)
    BY <1>2 DEF ChanAt, ChanLast
  <2> QED
    BY <2>1, <2>2, <2>3
<1>4. ASSUME NEW i \in Own, NEW v PROVE IdLast(i, v)' <=> IdLast(i, v)
  <2>1. IdAt(i, n, v)' <=> IdAt(i, n + h, v)
    BY <1>2, TurnAt
  <2>2. IdLast(i, v)' <=> IdAt(i, n, v)'
    BY <1>2 DEF IdLast, IdAt
  <2>3. IdAt(i, n + h, v) <=> IdLast(i, v)
    BY <1>2 DEF IdAt, IdLast
  <2> QED
    BY <2>1, <2>2, <2>3
<1> QED
  BY <1>3, <1>4

(* Call s joins the queue. *)
LEMMA Enqueued ==
  ASSUME Types, NEW s \in Slot, ~Awaiting(call[s]), Awaiting(call'[s]),
         call' \in [Slot -> CallType], \A t \in Slot : t # s => call'[t] = call[t],
         Fits(call'[s]), queue' = Append(queue, s), UNCHANGED disk
  PROVE  /\ CallTypes' /\ Queued' /\ DiskTypes' /\ Turn(0, 1)
         /\ Ops'[Len(queue')] = call'[s].awaits
         /\ Len(queue') = Len(queue) + 1 /\ queue'[Len(queue')] = s
         /\ \A n \in 1..Len(queue) : queue'[n] = queue[n] /\ queue[n] # s
<1>1. /\ queue \in Seq(Slot) /\ (\A m, n \in 1..Len(queue) : queue[m] = queue[n] => m = n)
      /\ \A t \in Slot : (\E n \in 1..Len(queue) : queue[n] = t) <=> Awaiting(call[t])
  BY DEF Types, Queued
<1>2. \A n \in 1..Len(queue) : queue[n] # s
  BY <1>1
<1>3. /\ queue' \in Seq(Slot) /\ Len(queue') = Len(queue) + 1 /\ Len(queue) \in Nat
      /\ \A m, n \in 1..(Len(queue) + 1) : queue'[m] = queue'[n] => m = n
      /\ \A n \in 1..Len(queue) : queue'[n] = queue[n]
      /\ queue'[Len(queue) + 1] = s
      /\ \A t \in Slot : (\E n \in 1..(Len(queue) + 1) : queue'[n] = t) <=> t = s \/ \E n \in 1..Len(queue) : queue[n] = t
  BY <1>1, <1>2, QueueAppend
<1>4. Queued'
  <2>1. \A t \in Slot : (\E n \in 1..Len(queue') : queue'[n] = t) <=> Awaiting(call'[t])
    <3> SUFFICES ASSUME NEW t \in Slot
                 PROVE  (\E n \in 1..(Len(queue) + 1) : queue'[n] = t) <=> Awaiting(call'[t])
      BY <1>3
    <3>1. CASE t = s
      BY <1>3, <3>1
    <3>2. CASE t # s
      <4>1. Awaiting(call'[t]) <=> Awaiting(call[t])
        BY <3>2
      <4> QED
        BY <1>1, <1>3, <3>2, <4>1
    <3> QED
      BY <3>1, <3>2
  <2> QED
    BY <1>3, <2>1 DEF Queued
<1>5. CallTypes'
  <2>1. \A t \in Slot : Fits(call'[t])
    BY DEF Types, CallTypes
  <2> QED
    BY <2>1 DEF CallTypes
<1>6. DiskTypes' /\ chanDisk' = chanDisk /\ idDisk' = idDisk
  BY DEF Types, DiskTypes, disk
<1>7. \A m \in 1..Len(queue) : Ops'[m] = Ops[m]
  <2> SUFFICES ASSUME NEW m \in 1..Len(queue) PROVE Ops'[m] = Ops[m]
    OBVIOUS
  <2>1. queue'[m] = queue[m] /\ queue[m] # s /\ queue[m] \in Slot /\ m \in 1..Len(queue')
    BY <1>2, <1>3, OpsAt
  <2>2. call'[queue'[m]] = call[queue[m]]
    BY <2>1
  <2>3. Ops'[m] = call'[queue'[m]].awaits /\ Ops[m] = call[queue[m]].awaits
    BY <2>1 DEF Ops
  <2> QED
    BY <2>2, <2>3
<1>8. Ops'[Len(queue')] = call'[s].awaits
  BY <1>3 DEF Ops
<1>9. Turn(0, 1)
  BY <1>3, <1>6, <1>7 DEF Turn
<1> QED
  BY <1>2, <1>3, <1>4, <1>5, <1>6, <1>8, <1>9

LEMMA Resumed ==
  ASSUME Types, NEW s \in Slot, NEW op, NEW step, Resume(s, op, step)
  PROVE  /\ queue # << >> /\ s = Head(queue) /\ s = queue[1] /\ call[s].op = op /\ call[s].step = step
         /\ Awaiting(call[s]) /\ up = "yes" /\ Len(queue) \in Nat \ {0}
         /\ UNCHANGED <<up, idName, used, calls, crashes, gone, usedGone, overlapped>>
         /\ Ops[1] = call[s].awaits /\ Ops[1] \in OpType
         /\ DiskTypes'
         /\ \A k \in Key : chanDisk'[k] = IF Writes(ChannelOps, Ops[1], k) THEN Ops[1].data ELSE chanDisk[k]
         /\ \A i \in Own : idDisk'[i] = IF Writes(IdentityOps, Ops[1], i) THEN Ops[1].data ELSE idDisk[i]
         /\ \A k \in Key : messages'[k] = IF Ops[1].do = "addMessage" /\ Ops[1].key = k THEN messages[k] \cup {Ops[1].data}
                                          ELSE IF Ops[1].do = "removeMessages" /\ Ops[1].key = k THEN {} ELSE messages[k]
<1> DEFINE w == call[s].awaits
<1>1. /\ queue # << >> /\ s = Head(queue) /\ call[s].op = op /\ call[s].step = step /\ Apply(w)
      /\ UNCHANGED <<up, idName, used, calls, crashes, gone, usedGone, overlapped>>
  BY DEF Resume, counters
<1>2. Len(queue) \in Nat \ {0} /\ s = queue[1]
  BY <1>1, QueueTail DEF Types, Queued
<1>3. Awaiting(call[s]) /\ Ops[1] = w /\ w \in OpType
  BY <1>2, OpsAt DEF Types, Queued
<1>4. up = "yes"
  BY <1>3 DEF Types, Down, Awaiting, Idle, Call
<1> HIDE DEF w
<1>5. /\ chanDisk \in [Key -> Name \cup {None}] /\ idDisk \in [Own -> Data \cup {None}]
      /\ messages \in [Key -> SUBSET {"root", "next"}]
  BY DEF Types, DiskTypes
<1>6. /\ w.do \in {"storeChannel", "eraseChannel", "removeMessages", "addMessage"} => w.key \in Key
      /\ w.do \in {"storeIdentity", "eraseIdentity"} => w.key \in Own
      /\ w.do = "storeChannel" => w.data \in Name
      /\ w.do = "eraseChannel" => w.data = None
      /\ w.do = "addMessage" => w.data \in {"root", "next"}
      /\ w.do = "storeIdentity" => w.data \in Data
      /\ w.do = "eraseIdentity" => w.data = None
  BY <1>3, OpKinds
<1>7. /\ chanDisk' \in [Key -> Name \cup {None}]
      /\ \A k \in Key : chanDisk'[k] = IF Writes(ChannelOps, w, k) THEN w.data ELSE chanDisk[k]
  <2>1. CASE w.do = "storeChannel"
    BY <1>1, <1>5, <1>6, <2>1 DEF Apply, Writes, ChannelOps
  <2>2. CASE w.do = "eraseChannel"
    BY <1>1, <1>5, <1>6, <2>2 DEF Apply, Writes, ChannelOps
  <2>3. CASE w.do \notin {"storeChannel", "eraseChannel"}
    <3>1. chanDisk' = chanDisk
      BY <1>1, <2>3 DEF Apply
    <3> QED
      BY <1>5, <2>3, <3>1 DEF Writes, ChannelOps
  <2> QED
    BY <2>1, <2>2, <2>3
<1>8. /\ idDisk' \in [Own -> Data \cup {None}]
      /\ \A i \in Own : idDisk'[i] = IF Writes(IdentityOps, w, i) THEN w.data ELSE idDisk[i]
  <2>1. CASE w.do = "storeIdentity"
    BY <1>1, <1>5, <1>6, <2>1 DEF Apply, Writes, IdentityOps
  <2>2. CASE w.do = "eraseIdentity"
    BY <1>1, <1>5, <1>6, <2>2 DEF Apply, Writes, IdentityOps
  <2>3. CASE w.do \notin {"storeIdentity", "eraseIdentity"}
    <3>1. idDisk' = idDisk
      BY <1>1, <2>3 DEF Apply
    <3> QED
      BY <1>5, <2>3, <3>1 DEF Writes, IdentityOps
  <2> QED
    BY <2>1, <2>2, <2>3
<1>9. /\ messages' \in [Key -> SUBSET {"root", "next"}]
      /\ \A k \in Key : messages'[k] = IF w.do = "addMessage" /\ w.key = k THEN messages[k] \cup {w.data}
                                       ELSE IF w.do = "removeMessages" /\ w.key = k THEN {} ELSE messages[k]
  <2>1. CASE w.do = "addMessage"
    BY <1>1, <1>5, <1>6, <2>1 DEF Apply
  <2>2. CASE w.do = "removeMessages"
    BY <1>1, <1>5, <1>6, <2>2 DEF Apply
  <2>3. CASE w.do \notin {"addMessage", "removeMessages"}
    <3>1. messages' = messages
      BY <1>1, <2>3 DEF Apply
    <3> QED
      BY <1>5, <2>3, <3>1
  <2> QED
    BY <2>1, <2>2, <2>3
<1>10. DiskTypes'
  BY <1>7, <1>8, <1>9 DEF DiskTypes
<1>11. /\ queue # << >> /\ s = Head(queue) /\ call[s].op = op /\ call[s].step = step
       /\ UNCHANGED <<up, idName, used, calls, crashes, gone, usedGone, overlapped>>
  BY <1>1
<1>12. Ops[1] = call[s].awaits /\ Ops[1] \in OpType /\ Ops[1] = w
  BY <1>3 DEF w
<1> QED
  BY <1>2, <1>3, <1>4, <1>7, <1>8, <1>9, <1>10, <1>11, <1>12

LEMMA IdleType == Idle \in CallType /\ Fits(Idle) /\ ~Awaiting(Idle) /\ Idle.op = "idle"
<1>1. Read \in OpType
  BY DEF OpType
<1> QED
  BY <1>1 DEF Idle, Call, CallType, Fits, Awaiting

LEMMA Returned ==
  ASSUME Types, NEW s \in Slot, NEW op, NEW step, Resume(s, op, step), Return(s)
  PROVE  /\ CallTypes' /\ Queued' /\ Turn(1, 0)
         /\ call'[s] = Idle /\ \A t \in Slot : t # s => call'[t] = call[t]
         /\ Len(queue') = Len(queue) - 1
         /\ \A n \in 1..(Len(queue) - 1) : queue'[n] = queue[n + 1] /\ queue[n + 1] # s
<1>1. /\ queue \in Seq(Slot) /\ (\A m, n \in 1..Len(queue) : queue[m] = queue[n] => m = n)
      /\ \A t \in Slot : (\E n \in 1..Len(queue) : queue[n] = t) <=> Awaiting(call[t])
      /\ call \in [Slot -> CallType] /\ \A t \in Slot : Fits(call[t])
  BY DEF Types, Queued, CallTypes
<1>2. call' = [call EXCEPT ![s] = Idle] /\ queue' = Tail(queue) /\ queue # << >> /\ s = Head(queue)
  BY Resumed DEF Return
<1>3. /\ queue' \in Seq(Slot) /\ Len(queue) \in Nat \ {0} /\ Len(queue') = Len(queue) - 1
      /\ \A m, n \in 1..(Len(queue) - 1) : queue'[m] = queue'[n] => m = n
      /\ \A n \in 1..(Len(queue) - 1) : queue'[n] = queue[n + 1] /\ queue[n + 1] # s
      /\ \A t \in Slot : (\E n \in 1..(Len(queue) - 1) : queue'[n] = t) <=> t # s /\ \E n \in 1..Len(queue) : queue[n] = t
  BY <1>1, <1>2, QueueTail
<1>4. call'[s] = Idle /\ (\A t \in Slot : t # s => call'[t] = call[t]) /\ call' \in [Slot -> CallType]
  BY <1>1, <1>2, IdleType
<1>5. CallTypes'
  <2>1. \A t \in Slot : Fits(call'[t])
    BY <1>1, <1>4, IdleType
  <2> QED
    BY <1>4, <2>1 DEF CallTypes
<1>6. Queued'
  <2>1. \A t \in Slot : (\E n \in 1..(Len(queue) - 1) : queue'[n] = t) <=> Awaiting(call'[t])
    <3> SUFFICES ASSUME NEW t \in Slot PROVE (\E n \in 1..(Len(queue) - 1) : queue'[n] = t) <=> Awaiting(call'[t])
      OBVIOUS
    <3>1. CASE t = s
      BY <1>3, <1>4, <3>1, IdleType
    <3>2. CASE t # s
      <4>1. Awaiting(call'[t]) <=> Awaiting(call[t])
        BY <1>4, <3>2
      <4> QED
        BY <1>1, <1>3, <3>2, <4>1
    <3> QED
      BY <3>1, <3>2
  <2> QED
    BY <1>3, <2>1 DEF Queued
<1>7. \A m \in 1..(Len(queue) - 1) : Ops'[m] = Ops[m + 1]
  <2> SUFFICES ASSUME NEW m \in 1..(Len(queue) - 1) PROVE Ops'[m] = Ops[m + 1]
    OBVIOUS
  <2>1. m \in 1..Len(queue') /\ m + 1 \in 1..Len(queue)
    BY <1>3
  <2>2. call'[queue'[m]] = call[queue[m + 1]]
    BY <1>3, <1>4, <2>1, OpsAt
  <2>3. Ops'[m] = call'[queue'[m]].awaits /\ Ops[m + 1] = call[queue[m + 1]].awaits
    BY <2>1 DEF Ops
  <2> QED
    BY <2>2, <2>3
<1>8. Turn(1, 0)
  <2>1. Len(queue) \in Nat /\ 1 <= Len(queue) /\ Len(queue') = Len(queue) - 1 + 0
    BY <1>3
  <2> QED
    BY <1>7, <2>1, Resumed DEF Turn
<1> QED
  BY <1>3, <1>4, <1>5, <1>6, <1>8

LEMMA Awaited ==
  ASSUME Types, NEW s \in Slot, NEW op, NEW step, Resume(s, op, step),
         call' \in [Slot -> CallType], \A t \in Slot : t # s => call'[t] = call[t],
         Fits(call'[s]), Awaiting(call'[s]), queue' = Append(Tail(queue), s)
  PROVE  /\ CallTypes' /\ Queued' /\ Turn(1, 1)
         /\ Ops'[Len(queue')] = call'[s].awaits
         /\ Len(queue') = Len(queue) /\ queue'[Len(queue)] = s
         /\ \A n \in 1..(Len(queue) - 1) : queue'[n] = queue[n + 1] /\ queue[n + 1] # s
<1>1. /\ queue \in Seq(Slot) /\ (\A m, n \in 1..Len(queue) : queue[m] = queue[n] => m = n)
      /\ \A t \in Slot : (\E n \in 1..Len(queue) : queue[n] = t) <=> Awaiting(call[t])
      /\ call \in [Slot -> CallType] /\ \A t \in Slot : Fits(call[t])
  BY DEF Types, Queued, CallTypes
<1>2. queue # << >> /\ s = Head(queue)
  BY Resumed
<1> DEFINE q == Tail(queue)
<1>0. /\ q \in Seq(Slot) /\ Len(queue) \in Nat \ {0} /\ Len(q) = Len(queue) - 1
      /\ \A m, n \in 1..(Len(queue) - 1) : q[m] = q[n] => m = n
      /\ \A n \in 1..(Len(queue) - 1) : q[n] = queue[n + 1] /\ queue[n + 1] # s
      /\ \A t \in Slot : (\E n \in 1..(Len(queue) - 1) : q[n] = t) <=> t # s /\ \E n \in 1..Len(queue) : queue[n] = t
  <2>1. queue \in Seq(Slot) /\ (\A m, n \in 1..Len(queue) : queue[m] = queue[n] => m = n) /\ queue # << >>
    BY <1>1, <1>2
  <2>2. /\ Tail(queue) \in Seq(Slot) /\ Len(queue) \in Nat \ {0} /\ Len(Tail(queue)) = Len(queue) - 1
        /\ \A m, n \in 1..(Len(queue) - 1) : Tail(queue)[m] = Tail(queue)[n] => m = n
        /\ \A n \in 1..(Len(queue) - 1) : Tail(queue)[n] = queue[n + 1] /\ queue[n + 1] # Head(queue)
        /\ \A t \in Slot : (\E n \in 1..(Len(queue) - 1) : Tail(queue)[n] = t) <=> t # Head(queue) /\ \E n \in 1..Len(queue) : queue[n] = t
    BY <2>1, QueueTail, Zenon
  <2> QED
    BY <1>2, <2>2, Zenon
<1> HIDE DEF q
<1>3. /\ q \in Seq(Slot) /\ Len(queue) \in Nat \ {0} /\ Len(q) = Len(queue) - 1
      /\ \A m, n \in 1..Len(q) : q[m] = q[n] => m = n
      /\ \A n \in 1..Len(q) : q[n] = queue[n + 1] /\ queue[n + 1] # s
      /\ \A t \in Slot : (\E n \in 1..Len(q) : q[n] = t) <=> t # s /\ \E n \in 1..Len(queue) : queue[n] = t
  BY <1>0
<1>4. (\A n \in 1..Len(q) : q[n] # s) /\ queue' = Append(q, s)
  BY <1>3 DEF q
<1>5. /\ queue' \in Seq(Slot) /\ Len(queue') = Len(q) + 1 /\ Len(q) \in Nat
      /\ \A m, n \in 1..(Len(q) + 1) : queue'[m] = queue'[n] => m = n
      /\ \A n \in 1..Len(q) : queue'[n] = q[n]
      /\ queue'[Len(q) + 1] = s
      /\ \A t \in Slot : (\E n \in 1..(Len(q) + 1) : queue'[n] = t) <=> t = s \/ \E n \in 1..Len(q) : q[n] = t
  <2>1. q \in Seq(Slot) /\ \A m, n \in 1..Len(q) : q[m] = q[n] => m = n
    BY <1>3
  <2>2. \A n \in 1..Len(q) : q[n] # s
    BY <1>4
  <2>3. /\ Append(q, s) \in Seq(Slot) /\ Len(Append(q, s)) = Len(q) + 1 /\ Len(q) \in Nat
        /\ \A m, n \in 1..(Len(q) + 1) : Append(q, s)[m] = Append(q, s)[n] => m = n
        /\ \A n \in 1..Len(q) : Append(q, s)[n] = q[n]
        /\ Append(q, s)[Len(q) + 1] = s
        /\ \A t \in Slot : (\E n \in 1..(Len(q) + 1) : Append(q, s)[n] = t) <=> t = s \/ \E n \in 1..Len(q) : q[n] = t
    BY <2>1, <2>2, QueueAppend, Zenon
  <2>4. queue' = Append(q, s)
    BY <1>4
  <2> HIDE <1>3, <1>4
  <2> QED
    BY <2>3, <2>4, Zenon
<1>6. Len(q) + 1 = Len(queue) /\ Len(queue') = Len(queue) /\ queue'[Len(queue)] = s
      /\ \A n \in 1..(Len(queue) - 1) : queue'[n] = queue[n + 1] /\ queue[n + 1] # s
  BY <1>3, <1>5
<1>7. CallTypes'
  <2>1. \A t \in Slot : Fits(call'[t])
    BY <1>1
  <2> QED
    BY <2>1 DEF CallTypes
<1>8. Queued'
  <2>1. \A t \in Slot : (\E n \in 1..Len(queue') : queue'[n] = t) <=> Awaiting(call'[t])
    <3> SUFFICES ASSUME NEW t \in Slot PROVE (\E n \in 1..(Len(q) + 1) : queue'[n] = t) <=> Awaiting(call'[t])
      BY <1>5
    <3>1. CASE t = s
      BY <1>5, <3>1
    <3>2. CASE t # s
      <4>1. Awaiting(call'[t]) <=> Awaiting(call[t])
        BY <3>2
      <4> QED
        BY <1>1, <1>3, <1>5, <3>2, <4>1
    <3> QED
      BY <3>1, <3>2
  <2> QED
    BY <1>5, <2>1 DEF Queued
<1>9. \A m \in 1..(Len(queue) - 1) : Ops'[m] = Ops[m + 1]
  <2> SUFFICES ASSUME NEW m \in 1..(Len(queue) - 1) PROVE Ops'[m] = Ops[m + 1]
    OBVIOUS
  <2>1. m \in 1..Len(queue') /\ m + 1 \in 1..Len(queue)
    BY <1>3, <1>6
  <2>2. call'[queue'[m]] = call[queue[m + 1]]
    BY <1>6, <2>1, OpsAt
  <2>3. Ops'[m] = call'[queue'[m]].awaits /\ Ops[m + 1] = call[queue[m + 1]].awaits
    BY <2>1 DEF Ops
  <2> QED
    BY <2>2, <2>3
<1>10. Ops'[Len(queue')] = call'[s].awaits
  BY <1>3, <1>6 DEF Ops
<1>11. Turn(1, 1)
  <2>1. Len(queue) \in Nat /\ 1 <= Len(queue) /\ Len(queue') = Len(queue) - 1 + 1
    BY <1>3, <1>6
  <2> QED
    BY <1>9, <2>1, Resumed DEF Turn
<1> QED
  BY <1>6, <1>7, <1>8, <1>10, <1>11

-----------------------------------------------------------------------------
(* Lists *)

LEMMA InsertAtSeq ==
  ASSUME NEW S, NEW q \in Seq(S), NEW e \in S, NEW p \in 1..(Len(q) + 1)
  PROVE  /\ InsertAt(q, p, e) \in Seq(S) /\ Len(q) \in Nat /\ Len(InsertAt(q, p, e)) = Len(q) + 1
         /\ \A n \in 1..(Len(q) + 1) : InsertAt(q, p, e)[n] = IF n < p THEN q[n] ELSE IF n = p THEN e ELSE q[n - 1]
<1>1. Len(q) \in Nat /\ \A n \in 1..Len(q) : q[n] \in S
  BY LenProperties, ElementOfSeq
<1> DEFINE len == Len(q)
           a == SubSeq(q, 1, p - 1)
           b == SubSeq(q, p, len)
<1>2. a \in Seq(S) /\ Len(a) = p - 1 /\ \A n \in 1..(p - 1) : a[n] = q[n]
  <2>1. \A n \in 1..(p - 1) : q[n] \in S
    BY <1>1
  <2>2. /\ a \in Seq(S) /\ Len(a) = IF 1 <= p - 1 THEN (p - 1) - 1 + 1 ELSE 0
        /\ \A n \in 1..((p - 1) - 1 + 1) : a[n] = q[1 + n - 1]
    BY <1>1, <2>1, SubSeqProperties
  <2> HIDE DEF a
  <2> QED
    BY <1>1, <2>2
<1>3. b \in Seq(S) /\ Len(b) = len - p + 1 /\ \A n \in 1..(len - p + 1) : b[n] = q[p + n - 1]
  <2>1. \A n \in p..len : q[n] \in S
    BY <1>1
  <2>2. /\ b \in Seq(S) /\ Len(b) = IF p <= len THEN len - p + 1 ELSE 0
        /\ \A n \in 1..(len - p + 1) : b[n] = q[p + n - 1]
    BY <1>1, <2>1, SubSeqProperties
  <2> HIDE DEF b
  <2> QED
    BY <1>1, <2>2
<1> DEFINE o == <<e>>
<1>4. o \in Seq(S) /\ Len(o) = 1 /\ o[1] = e
  OBVIOUS
<1> HIDE DEF a, b, o
<1> DEFINE c == a \o o
<1>5. c \in Seq(S) /\ Len(c) = p /\ \A n \in 1..p : c[n] = IF n <= p - 1 THEN a[n] ELSE o[n - (p - 1)]
  <2>1. /\ c \in Seq(S) /\ Len(c) = Len(a) + Len(o)
        /\ \A n \in 1..(Len(a) + Len(o)) : c[n] = IF n <= Len(a) THEN a[n] ELSE o[n - Len(a)]
    BY <1>2, <1>4, ConcatProperties
  <2>2. Len(a) + Len(o) = p
    BY <1>2, <1>4
  <2> QED
    BY <1>2, <2>1, <2>2
<1>6. \A n \in 1..p : c[n] = IF n < p THEN q[n] ELSE e
  <2>0. p \in Nat
    BY <1>1
  <2> SUFFICES ASSUME NEW n \in 1..p PROVE c[n] = IF n < p THEN q[n] ELSE e
    OBVIOUS
  <2>1. CASE n < p
    BY <1>2, <1>5, <2>1
  <2>2. CASE n = p
    <3>1. p - (p - 1) = 1 /\ ~(p <= p - 1) /\ p \in 1..p
      OBVIOUS
    <3>2. c[p] = o[1]
      BY <1>5, <3>1
    <3> QED
      BY <1>4, <2>2, <3>2
  <2>3. n < p \/ n = p
    BY <2>0
  <2> QED
    BY <2>1, <2>2, <2>3
<1> HIDE DEF c
<1> DEFINE r == c \o b
<1>7. /\ r \in Seq(S) /\ Len(r) = Len(c) + Len(b)
      /\ \A n \in 1..(Len(c) + Len(b)) : r[n] = IF n <= Len(c) THEN c[n] ELSE b[n - Len(c)]
  BY <1>3, <1>5, ConcatProperties
<1>8. Len(c) + Len(b) = len + 1
  BY <1>1, <1>3, <1>5
<1>9. InsertAt(q, p, e) = r
  BY DEF InsertAt, r, c, a, b, o
<1> HIDE DEF r
<1>10. \A n \in 1..(len + 1) : r[n] = IF n < p THEN q[n] ELSE IF n = p THEN e ELSE q[n - 1]
  <2> SUFFICES ASSUME NEW n \in 1..(len + 1) PROVE r[n] = IF n < p THEN q[n] ELSE IF n = p THEN e ELSE q[n - 1]
    OBVIOUS
  <2>1. CASE n <= p
    BY <1>5, <1>6, <1>7, <1>8, <2>1
  <2>2. CASE n > p
    <3>1. n - p \in 1..(len - p + 1) /\ p + (n - p) - 1 = n - 1
      BY <1>1, <2>2
    <3>2. r[n] = b[n - p]
      BY <1>5, <1>7, <1>8, <2>2
    <3> QED
      BY <1>3, <2>2, <3>1, <3>2
  <2> QED
    BY <1>1, <2>1, <2>2
<1> QED
  BY <1>1, <1>7, <1>8, <1>9, <1>10 DEF len

LEMMA RemoveAtSeq ==
  ASSUME NEW S, NEW q \in Seq(S), NEW p \in 1..Len(q)
  PROVE  /\ RemoveAt(q, p) \in Seq(S) /\ Len(q) \in Nat /\ Len(RemoveAt(q, p)) = Len(q) - 1
         /\ \A n \in 1..(Len(q) - 1) : RemoveAt(q, p)[n] = IF n < p THEN q[n] ELSE q[n + 1]
<1>1. Len(q) \in Nat /\ \A n \in 1..Len(q) : q[n] \in S
  BY LenProperties, ElementOfSeq
<1> DEFINE len == Len(q)
           a == SubSeq(q, 1, p - 1)
           b == SubSeq(q, p + 1, len)
<1>2. a \in Seq(S) /\ Len(a) = p - 1 /\ \A n \in 1..(p - 1) : a[n] = q[n]
  <2>1. \A n \in 1..(p - 1) : q[n] \in S
    BY <1>1
  <2>2. /\ a \in Seq(S) /\ Len(a) = IF 1 <= p - 1 THEN (p - 1) - 1 + 1 ELSE 0
        /\ \A n \in 1..((p - 1) - 1 + 1) : a[n] = q[1 + n - 1]
    BY <1>1, <2>1, SubSeqProperties
  <2> HIDE DEF a
  <2> QED
    BY <1>1, <2>2
<1>3. b \in Seq(S) /\ Len(b) = len - p /\ \A n \in 1..(len - p) : b[n] = q[p + n]
  <2>1. \A n \in (p + 1)..len : q[n] \in S
    BY <1>1
  <2>2. /\ b \in Seq(S) /\ Len(b) = IF p + 1 <= len THEN len - (p + 1) + 1 ELSE 0
        /\ \A n \in 1..(len - (p + 1) + 1) : b[n] = q[(p + 1) + n - 1]
    BY <1>1, <2>1, SubSeqProperties
  <2> HIDE DEF b
  <2> QED
    BY <1>1, <2>2
<1> HIDE DEF a, b
<1> DEFINE r == a \o b
<1>4. /\ r \in Seq(S) /\ Len(r) = Len(a) + Len(b)
      /\ \A n \in 1..(Len(a) + Len(b)) : r[n] = IF n <= Len(a) THEN a[n] ELSE b[n - Len(a)]
  BY <1>2, <1>3, ConcatProperties
<1>5. Len(a) + Len(b) = len - 1
  BY <1>1, <1>2, <1>3
<1>6. RemoveAt(q, p) = r
  BY DEF RemoveAt, r, a, b
<1> HIDE DEF r
<1>7. \A n \in 1..(len - 1) : r[n] = IF n < p THEN q[n] ELSE q[n + 1]
  <2> SUFFICES ASSUME NEW n \in 1..(len - 1) PROVE r[n] = IF n < p THEN q[n] ELSE q[n + 1]
    OBVIOUS
  <2>1. CASE n < p
    BY <1>2, <1>4, <1>5, <2>1
  <2>2. CASE n >= p
    <3>1. n - (p - 1) \in 1..(len - p) /\ p + (n - (p - 1)) = n + 1 /\ ~(n <= p - 1)
      BY <1>1, <2>2
    <3>2. r[n] = b[n - (p - 1)]
      BY <1>2, <1>4, <1>5, <2>2, <3>1
    <3> QED
      BY <1>3, <2>2, <3>1, <3>2
  <2> QED
    BY <1>1, <2>1, <2>2
<1> QED
  BY <1>1, <1>4, <1>5, <1>6, <1>7 DEF len

(* q lists each of its elements once, sorted by f. *)
Sorted(q, f) ==
  /\ \A m, n \in 1..Len(q) : q[m] = q[n] => m = n
  /\ \A m, n \in 1..Len(q) : m < n => f[q[m]] <= f[q[n]]

LEMMA InsertSorted ==
  ASSUME NEW S, NEW q \in Seq(S), NEW e \in S, NEW p \in 1..(Len(q) + 1), NEW f, Sorted(q, f),
         f[e] \in Nat, \A n \in 1..Len(q) : f[q[n]] \in Nat /\ q[n] # e,
         \A n \in 1..Len(q) : IF n < p THEN f[q[n]] <= f[e] ELSE f[e] <= f[q[n]]
  PROVE  /\ InsertAt(q, p, e) \in Seq(S) /\ Sorted(InsertAt(q, p, e), f)
         /\ ToSet(InsertAt(q, p, e)) = ToSet(q) \cup {e}
<1> DEFINE r == InsertAt(q, p, e)
<1>1. PICK len \in Nat : len = Len(q)
  BY LenProperties
<1>2. /\ r \in Seq(S) /\ Len(r) = len + 1
      /\ \A n \in 1..(len + 1) : r[n] = IF n < p THEN q[n] ELSE IF n = p THEN e ELSE q[n - 1]
  <2>1. p \in 1..(Len(q) + 1)
    OBVIOUS
  <2>2. /\ r \in Seq(S) /\ Len(r) = Len(q) + 1
        /\ \A n \in 1..(Len(q) + 1) : r[n] = IF n < p THEN q[n] ELSE IF n = p THEN e ELSE q[n - 1]
    BY <2>1, InsertAtSeq
  <2> QED
    BY <1>1, <2>2
<1>3. DOMAIN q = 1..len /\ DOMAIN r = 1..(len + 1) /\ p \in 1..(len + 1)
  BY <1>1, <1>2, LenProperties
<1> HIDE DEF r
<1> DEFINE Old(n) == IF n < p THEN n ELSE n - 1
<1>4. \A n \in 1..(len + 1) : n # p => Old(n) \in 1..len /\ r[n] = q[Old(n)]
  BY <1>2, <1>3
<1>5. r[p] = e
  BY <1>2, <1>3
<1>6. \A m, n \in 1..(len + 1) : r[m] = r[n] => m = n
  <2> SUFFICES ASSUME NEW m \in 1..(len + 1), NEW n \in 1..(len + 1), r[m] = r[n] PROVE m = n
    OBVIOUS
  <2>1. CASE m = p \/ n = p
    BY <1>1, <1>4, <1>5, <2>1
  <2>2. CASE m # p /\ n # p
    <3>1. Old(m) = Old(n)
      BY <1>1, <1>4, <2>2 DEF Sorted
    <3> QED
      BY <1>3, <2>2, <3>1
  <2> QED
    BY <2>1, <2>2
<1>7. \A m, n \in 1..(len + 1) : m < n => f[r[m]] <= f[r[n]]
  <2> SUFFICES ASSUME NEW m \in 1..(len + 1), NEW n \in 1..(len + 1), m < n PROVE f[r[m]] <= f[r[n]]
    OBVIOUS
  <2>1. CASE m = p
    <3>1. n # p /\ Old(n) = n - 1 /\ ~(n - 1 < p) /\ n - 1 \in 1..len
      BY <1>3, <2>1
    <3> QED
      BY <1>1, <1>4, <1>5, <2>1, <3>1
  <2>2. CASE n = p
    <3>1. m # p /\ Old(m) = m /\ m < p /\ m \in 1..len
      BY <1>3, <2>2
    <3> QED
      BY <1>1, <1>4, <1>5, <2>2, <3>1
  <2>3. CASE m # p /\ n # p
    <3>1. Old(m) < Old(n) /\ Old(m) \in 1..len /\ Old(n) \in 1..len
      BY <1>3, <1>4, <2>3
    <3>2. f[q[Old(m)]] <= f[q[Old(n)]]
      BY <1>1, <3>1 DEF Sorted
    <3> QED
      BY <1>4, <2>3, <3>2
  <2> QED
    BY <2>1, <2>2, <2>3
<1>8. ToSet(r) = ToSet(q) \cup {e}
  <2>1. ASSUME NEW x \in ToSet(r) PROVE x \in ToSet(q) \cup {e}
    BY <1>3, <1>4, <1>5, <2>1 DEF ToSet
  <2>2. ASSUME NEW x \in ToSet(q) PROVE x \in ToSet(r)
    <3>1. PICK n \in 1..len : x = q[n]
      BY <1>3, <2>2 DEF ToSet
    <3>2. CASE n < p
      <4>1. n \in 1..(len + 1) /\ r[n] = x
        BY <1>2, <3>1, <3>2
      <4> QED
        BY <1>3, <4>1 DEF ToSet
    <3>3. CASE n >= p
      <4>1. n + 1 \in 1..(len + 1) /\ n + 1 # p /\ ~(n + 1 < p) /\ (n + 1) - 1 = n
        BY <1>3, <3>3
      <4>2. r[n + 1] = x
        BY <1>2, <3>1, <4>1
      <4> QED
        BY <1>3, <4>1, <4>2 DEF ToSet
    <3> QED
      BY <1>3, <3>2, <3>3
  <2>3. e \in ToSet(r)
    BY <1>3, <1>5 DEF ToSet
  <2> QED
    BY <2>1, <2>2, <2>3
<1>9. Sorted(r, f)
  BY <1>2, <1>6, <1>7 DEF Sorted
<1> QED
  BY <1>2, <1>8, <1>9 DEF r

LEMMA RemoveSorted ==
  ASSUME NEW S, NEW q \in Seq(S), NEW p \in 1..Len(q), NEW f, Sorted(q, f)
  PROVE  /\ RemoveAt(q, p) \in Seq(S) /\ Sorted(RemoveAt(q, p), f)
         /\ ToSet(RemoveAt(q, p)) = ToSet(q) \ {q[p]}
<1> DEFINE r == RemoveAt(q, p)
<1>1. PICK len \in Nat : len = Len(q)
  BY LenProperties
<1>2. /\ r \in Seq(S) /\ Len(r) = len - 1
      /\ \A n \in 1..(len - 1) : r[n] = IF n < p THEN q[n] ELSE q[n + 1]
  BY <1>1, RemoveAtSeq
<1>3. DOMAIN q = 1..len /\ DOMAIN r = 1..(len - 1) /\ p \in 1..len
  BY <1>1, <1>2, LenProperties
<1> HIDE DEF r
<1> DEFINE Old(n) == IF n < p THEN n ELSE n + 1
<1>4. \A n \in 1..(len - 1) : Old(n) \in 1..len /\ Old(n) # p /\ r[n] = q[Old(n)]
  BY <1>2, <1>3
<1>5. \A m, n \in 1..(len - 1) : /\ Old(m) = Old(n) => m = n
                                 /\ m < n => Old(m) < Old(n)
  BY <1>3
<1>6. Sorted(r, f)
  <2>1. \A m, n \in 1..len : (q[m] = q[n] => m = n) /\ (m < n => f[q[m]] <= f[q[n]])
    BY <1>1 DEF Sorted
  <2>2. ASSUME NEW m \in 1..(len - 1), NEW n \in 1..(len - 1)
        PROVE  (r[m] = r[n] => m = n) /\ (m < n => f[r[m]] <= f[r[n]])
    <3> HIDE DEF Old
    <3> QED
      BY <1>4, <1>5, <2>1
  <2> QED
    BY <1>2, <2>2 DEF Sorted
<1>7. ToSet(r) = ToSet(q) \ {q[p]}
  <2>1. ASSUME NEW x \in ToSet(r) PROVE x \in ToSet(q) \ {q[p]}
    <3>1. PICK n \in 1..(len - 1) : x = r[n]
      BY <1>3, <2>1 DEF ToSet
    <3>2. Old(n) \in 1..len /\ Old(n) # p /\ x = q[Old(n)]
      BY <1>4, <3>1
    <3> HIDE DEF Old
    <3> QED
      BY <1>1, <1>3, <3>2 DEF ToSet, Sorted
  <2>2. ASSUME NEW x \in ToSet(q) \ {q[p]} PROVE x \in ToSet(r)
    <3>1. PICK n \in 1..len : x = q[n] /\ n # p
      BY <1>3, <2>2 DEF ToSet
    <3>2. CASE n < p
      <4>1. n \in 1..(len - 1) /\ Old(n) = n
        BY <1>3, <3>2
      <4> QED
        BY <1>3, <1>4, <3>1, <4>1 DEF ToSet
    <3>3. CASE n > p
      <4>1. n - 1 \in 1..(len - 1) /\ Old(n - 1) = n
        BY <1>3, <3>3
      <4> QED
        BY <1>3, <1>4, <3>1, <4>1 DEF ToSet
    <3> QED
      BY <1>3, <3>1, <3>2, <3>3
  <2> QED
    BY <2>1, <2>2
<1> QED
  BY <1>2, <1>6, <1>7 DEF r

LEMMA SortedSame ==
  ASSUME NEW q, NEW f, NEW g, Sorted(q, f), \A n \in 1..Len(q) : g[q[n]] = f[q[n]]
  PROVE  Sorted(q, g)
BY DEF Sorted

-----------------------------------------------------------------------------
(* Identities have names, and those that calls are about are known *)

Listing ==
  /\ Sorted(identities, idName)
  /\ \A i \in Listed : i \in used /\ idName[i] # None

Known(c) ==
  /\ Awaiting(c) /\ c.awaits.do = "storeIdentity" => c.awaits.key \in used
  /\ c.op \in {"create", "join"} => c.id \in used /\ idName[c.id] # None
  /\ c.op = "create" => idName[c.id] = c.name /\ (c.step # "done" => c.id \notin Listed)

Born ==
  /\ \A i \in Own : idName[i] = None => chains[i] = {}
  /\ \A i \in Own : idDisk[i] # None => i \in used
  /\ \A s \in Slot : Known(call[s])
  /\ \A s, t \in Slot : call[s].op = "create" /\ call[t].op = "create" /\ call[s].id = call[t].id => s = t

Lists == Listing /\ Born

LEMMA ListingSame ==
  ASSUME Types, Listing, identities' = identities, used \subseteq used', \A i \in used : idName'[i] = idName[i]
  PROVE  Listing' /\ Listed' = Listed
<1>1. \A n \in 1..Len(identities) : identities[n] \in Listed /\ identities[n] \in used
  BY LenProperties, ElementOfSeq DEF Types, MemTypes, Listed, ToSet
<1>2. Sorted(identities, idName')
  BY <1>1, SortedSame DEF Listing
<1>3. Listed' = Listed
  BY DEF Listed
<1> QED
  BY <1>2, <1>3 DEF Listing

(* Everything but call s stays as it was. *)
LEMMA BornSame ==
  ASSUME Types, Lists, NEW s \in Slot, \A t \in Slot : t # s => call'[t] = call[t],
         \A i \in Own : idDisk'[i] # None => i \in used,
         used \subseteq used', \A i \in used : idName'[i] = idName[i],
         \A i \in Own : idName'[i] = None => chains'[i] = {},
         \A i \in Listed' : i \in Listed \/ (call[s].op = "create" /\ i = call[s].id),
         Known(call[s])',
         call'[s].op = "create" => \/ call[s].op = "create" /\ call'[s].id = call[s].id
                                   \/ call'[s].id \notin used
  PROVE  Born'
<1>1. \A t \in Slot : Known(call[t]) /\ call[t] \in CallType
  BY DEF Lists, Born, Types, CallTypes
<1>2. ASSUME NEW t \in Slot, t # s PROVE Known(call[t])'
  <2>1. call'[t] = call[t] /\ Known(call[t])
    BY <1>1, <1>2
  <2>2. Awaiting(call[t]) /\ call[t].awaits.do = "storeIdentity" => call[t].awaits.key \in used'
    BY <2>1 DEF Known
  <2>3. call[t].op \in {"create", "join"} => call[t].id \in used /\ idName'[call[t].id] # None
    BY <2>1 DEF Known
  <2>4. call[t].op = "create" => idName'[call[t].id] = call[t].name
    BY <2>1, <2>3 DEF Known
  <2>5. call[t].op = "create" /\ call[t].step # "done" => call[t].id \notin Listed'
    <3>1. call[t].op = "create" /\ call[s].op = "create" => call[t].id # call[s].id
      BY <1>2 DEF Lists, Born
    <3> QED
      BY <2>1, <3>1 DEF Known
  <2> QED
    BY <2>1, <2>2, <2>3, <2>4, <2>5 DEF Known, Awaiting
<1>3. \A t \in Slot : Known(call[t])'
  BY <1>2
<1>4. ASSUME NEW t \in Slot, NEW u \in Slot, call'[t].op = "create", call'[u].op = "create", call'[t].id = call'[u].id
      PROVE  t = u
  <2>1. \A x \in Slot : call[x].op = "create" => call[x].id \in used
    BY <1>1 DEF Known
  <2>2. CASE t # s /\ u # s
    BY <1>4, <2>2 DEF Lists, Born
  <2>3. CASE t = s /\ u # s
    BY <1>4, <2>1, <2>3 DEF Lists, Born
  <2>4. CASE t # s /\ u = s
    BY <1>4, <2>1, <2>4 DEF Lists, Born
  <2> QED
    BY <2>2, <2>3, <2>4
<1> QED
  BY <1>3, <1>4 DEF Born

(* What takes effect on the storage is about identities that exist. *)
LEMMA BornDisk ==
  ASSUME Types, Lists, NEW s \in Slot, NEW op, NEW step, Resume(s, op, step)
  PROVE  \A i \in Own : idDisk'[i] # None => i \in used
<1>1. Known(call[s]) /\ \A i \in Own : idDisk[i] # None => i \in used
  BY DEF Lists, Born
<1> SUFFICES ASSUME NEW i \in Own, idDisk'[i] # None PROVE i \in used
  OBVIOUS
<1>2. idDisk'[i] = IF Writes(IdentityOps, Ops[1], i) THEN Ops[1].data ELSE idDisk[i]
  BY Resumed
<1>3. CASE ~Writes(IdentityOps, Ops[1], i)
  BY <1>1, <1>2, <1>3
<1>4. CASE Writes(IdentityOps, Ops[1], i)
  <2>1. Ops[1] = call[s].awaits /\ Awaiting(call[s]) /\ Ops[1] \in OpType
    BY Resumed
  <2>2. Ops[1].do = "eraseIdentity" => Ops[1].data = None
    <3> DEFINE w == Ops[1]
    <3>1. w \in OpType
      BY <2>1
    <3> HIDE DEF w
    <3>2. w.do = "eraseIdentity" => w.data = None
      BY <3>1, OpKinds
    <3> QED
      BY <3>2 DEF w
  <2>3. Ops[1].do = "storeIdentity"
    BY <1>2, <1>4, <2>2 DEF Writes, IdentityOps
  <2> QED
    BY <1>1, <1>4, <2>1, <2>3 DEF Known, Writes
<1> QED
  BY <1>3, <1>4

-----------------------------------------------------------------------------
(* What a step of a call does to the channels and to the identities *)

Rec(i) == [name |-> idName[i], chains |-> chains[i]]

ChanKept(a) ==
  /\ \A k \in Key : channels'[k] = channels[k]
  /\ a = 1 => Ops'[Len(queue')].do \notin ChannelOps
ChanWritten(k, v) ==
  /\ channels'[k] = v /\ \A j \in Key \ {k} : channels'[j] = channels[j]
  /\ Writes(ChannelOps, Ops'[Len(queue')], k) /\ Ops'[Len(queue')].data = v
  /\ v # None => \A j \in Key \ {k} : channels[j] # v

IdKept(a) ==
  /\ \A i \in Own : i \in Listed' <=> i \in Listed
  /\ \A i \in Listed : idName'[i] = idName[i] /\ chains'[i] = chains[i]
  /\ a = 1 => Ops'[Len(queue')].do \notin IdentityOps
IdWritten(i) ==
  /\ \A j \in Own \ {i} : j \in Listed' <=> j \in Listed
  /\ \A j \in Listed \ {i} : idName'[j] = idName[j] /\ chains'[j] = chains[j]
  /\ Writes(IdentityOps, Ops'[Len(queue')], i)
  /\ IF i \in Listed' THEN Ops'[Len(queue')].data = Rec(i)'
                      ELSE Ops'[Len(queue')].data = None \/ i \in usedGone'
  /\ i \in Listed' /\ i \in Listed => idName'[i] = idName[i]
  /\ i \in Listed' /\ i \notin Listed => \A j \in Listed : idName[j] # idName'[i]

Effect ==
  /\ up = "yes" /\ up' = "yes" /\ usedGone \subseteq usedGone'
  /\ \E h, a \in {0, 1} :
       /\ Turn(h, a)
       /\ ChanKept(a) \/ (a = 1 /\ \E k \in Key, v \in Name \cup {None} : ChanWritten(k, v))
       /\ IdKept(a) \/ (a = 1 /\ \E i \in Own : IdWritten(i))

LEMMA Returning ==
  ASSUME Types, Lists, NEW s \in Slot, NEW op, NEW step, Resume(s, op, step), Return(s),
         UNCHANGED <<channels, identities, chains>>
  PROVE  Types' /\ Lists' /\ Effect
<1>1. /\ CallTypes' /\ Queued' /\ Turn(1, 0) /\ DiskTypes'
      /\ call'[s] = Idle /\ \A t \in Slot : t # s => call'[t] = call[t]
      /\ up = "yes" /\ UNCHANGED <<up, idName, used, usedGone>>
  BY Returned, Resumed
<1>2. Types'
  BY <1>1 DEF Types, MemTypes, Down
<1>3. Listing' /\ Listed' = Listed
  BY <1>1, ListingSame DEF Lists
<1>4. Born'
  <2>1. Known(call[s])'
    BY <1>1, IdleType DEF Known
  <2>2. call'[s].op # "create"
    BY <1>1, IdleType
  <2>3. \A i \in Own : idName'[i] = None => chains'[i] = {}
    BY <1>1 DEF Lists, Born
  <2> QED
    BY <1>1, <1>3, <2>1, <2>2, <2>3, BornDisk, BornSame
<1>5. ChanKept(0) /\ IdKept(0)
  BY <1>1, <1>3 DEF ChanKept, IdKept
<1> QED
  BY <1>1, <1>2, <1>3, <1>4, <1>5 DEF Effect, Lists

LEMMA AwaitCall ==
  ASSUME call \in [Slot -> CallType], NEW s \in Slot, NEW w \in OpType,
         NEW step \in {"begun", "invited", "saved", "done", "cleanup"}, Await(s, step, w)
  PROVE  /\ call' \in [Slot -> CallType] /\ (\A t \in Slot : t # s => call'[t] = call[t])
         /\ call'[s].op = call[s].op /\ call'[s].key = call[s].key /\ call'[s].id = call[s].id
         /\ call'[s].name = call[s].name /\ call'[s].at = call[s].at
         /\ call'[s].step = step /\ call'[s].awaits = w
         /\ queue' = Append(Tail(queue), s)
<1> DEFINE c == [call[s] EXCEPT !.step = step, !.awaits = w]
<1>1. call' = [call EXCEPT ![s] = c] /\ queue' = Append(Tail(queue), s)
  BY DEF Await
<1>2. /\ c \in CallType /\ c.op = call[s].op /\ c.key = call[s].key /\ c.id = call[s].id
      /\ c.name = call[s].name /\ c.at = call[s].at /\ c.step = step /\ c.awaits = w
  BY DEF CallType
<1> HIDE DEF c
<1> QED
  BY <1>1, <1>2

(* A call goes on to await w, which is not about identities. *)
LEMMA GoesOn ==
  ASSUME Types, Lists, NEW s \in Slot, NEW op, NEW step, Resume(s, op, step),
         NEW w \in OpType, NEW next \in {"begun", "saved", "done", "cleanup"}, Await(s, next, w),
         Fits(call'[s]), w.do \notin IdentityOps, UNCHANGED <<identities, chains>>, MemTypes',
         step # "done" \/ next = "done"
  PROVE  Types' /\ Lists' /\ IdKept(1) /\ Turn(1, 1) /\ up' = "yes" /\ up = "yes" /\ usedGone' = usedGone
         /\ Ops'[Len(queue')] = w
<1>1. /\ call[s].op = op /\ call[s].step = step /\ DiskTypes' /\ Awaiting(call[s])
      /\ up = "yes" /\ UNCHANGED <<up, idName, used, usedGone>>
  BY Resumed
<1>2. call[s].op # "idle"
  BY <1>1 DEF Awaiting
<1>3. /\ call' \in [Slot -> CallType] /\ (\A t \in Slot : t # s => call'[t] = call[t])
      /\ call'[s].op = call[s].op /\ call'[s].id = call[s].id /\ call'[s].name = call[s].name
      /\ call'[s].step = next /\ call'[s].awaits = w /\ queue' = Append(Tail(queue), s)
  BY AwaitCall DEF Types, CallTypes
<1>4. Awaiting(call'[s])
  BY <1>2, <1>3 DEF Awaiting
<1>5. /\ CallTypes' /\ Queued' /\ Turn(1, 1) /\ Ops'[Len(queue')] = w
  BY <1>3, <1>4, Awaited
<1>6. Types'
  BY <1>1, <1>5 DEF Types, Down
<1>7. Listing' /\ Listed' = Listed
  BY <1>1, ListingSame DEF Lists
<1>8. Born'
  <2>1. Known(call[s]) /\ \A i \in Own : idName[i] = None => chains[i] = {}
    BY DEF Lists, Born
  <2>2. Known(call[s])'
    BY <1>1, <1>3, <1>7, <2>1 DEF Known, IdentityOps
  <2> QED
    BY <1>1, <1>3, <1>7, <2>1, <2>2, BornDisk, BornSame
<1>9. IdKept(1)
  BY <1>1, <1>5, <1>7 DEF IdKept
<1> QED
  BY <1>1, <1>5, <1>6, <1>7, <1>8, <1>9 DEF Lists

LEMMA Adding ==
  ASSUME Types, Lists, NEW s \in Slot, NEW op \in {"create", "join"}, Resume(s, op, "begun"),
         AddChannel(s, call[s].key, call[s].name), UNCHANGED <<identities, chains>>
  PROVE  Types' /\ Lists' /\ Effect
<1>1. /\ call[s].op = op /\ call[s].step = "begun" /\ up = "yes" /\ Fits(call[s]) /\ Awaiting(call[s])
      /\ UNCHANGED <<up, idName, used, usedGone>>
  BY Resumed DEF Types, CallTypes
<1>2. CASE Return(s) /\ UNCHANGED channels
  BY <1>2, Returning
<1> DEFINE k == call[s].key
           name == call[s].name
           w == StoreChannel(k, name)
<1>3. CASE /\ channels' = [channels EXCEPT ![k] = name] /\ Await(s, "saved", w)
           /\ ~Refused(k, name) /\ channels[k] = None
  <2>1. k \in Key /\ name \in Name /\ Idle.op = "idle"
    BY <1>1, Constants, IdleType DEF Fits
  <2>2. /\ w \in OpType /\ w.do = "storeChannel" /\ w.key = k /\ w.data = name
    BY <2>1, OpTypes DEF StoreChannel, Op
  <2>3. /\ call'[s].op = op /\ call'[s].key = k /\ call'[s].id = call[s].id
        /\ call'[s].name = name /\ call'[s].step = "saved" /\ call'[s].awaits = w
    BY <1>1, <1>3, <2>2, AwaitCall DEF Types, CallTypes
  <2>4. Fits(call'[s])
    BY <1>1, <2>1, <2>3 DEF Fits
  <2>5. channels \in [Key -> Name \cup {None}] /\ channels' \in [Key -> Name \cup {None}]
        /\ channels'[k] = name /\ \A j \in Key \ {k} : channels'[j] = channels[j]
    BY <1>3, <2>1 DEF Types, MemTypes
  <2>6. MemTypes'
    BY <1>1, <2>5 DEF Types, MemTypes
  <2>7. Types' /\ Lists' /\ IdKept(1) /\ Turn(1, 1) /\ up' = "yes" /\ Ops'[Len(queue')] = w
    <3> HIDE DEF w, k, name
    <3>1. w.do \notin IdentityOps
      BY <2>2 DEF IdentityOps
    <3>2. Await(s, "saved", w) /\ "begun" # "done"
      BY <1>3
    <3>3. w \in OpType
      BY <2>2
    <3> QED
      BY <2>4, <2>6, <3>1, <3>2, <3>3, GoesOn
  <2>8. ChanWritten(k, name)
    <3> HIDE DEF w
    <3> QED
      BY <1>3, <2>2, <2>5, <2>7 DEF ChanWritten, Writes, ChannelOps, Refused
  <2> QED
    BY <1>1, <2>1, <2>7, <2>8 DEF Effect
<1> QED
  BY <1>2, <1>3 DEF AddChannel, Throw

LEMMA Inserted ==
  ASSUME Types, Listing, NEW i \in used, i \notin Listed, idName[i] # None,
         identities' = Insert(i), UNCHANGED <<idName, used>>
  PROVE  identities' \in Seq(used) /\ Listing' /\ Listed' = Listed \cup {i}
<1> DEFINE q == identities
           before == {n \in DOMAIN q : idName[q[n]] <= idName[i]}
           p == IF before = {} THEN 1 ELSE 1 + CHOOSE n \in before : \A m \in before : m <= n
<1>1. /\ q \in Seq(used) /\ used \subseteq Own /\ idName \in [Own -> Name \cup {None}] /\ Name \subseteq Nat
  BY Constants DEF Types, MemTypes
<1>2. PICK len \in Nat : len = Len(q)
  BY <1>1, LenProperties
<1>3. DOMAIN q = 1..len /\ \A n \in 1..len : q[n] \in used /\ q[n] \in Listed
  BY <1>1, <1>2, LenProperties, ElementOfSeq DEF Listed, ToSet
<1>4. idName[i] \in Nat /\ \A n \in 1..len : idName[q[n]] \in Nat /\ q[n] # i
  BY <1>1, <1>3 DEF Listing
<1>5. identities' = InsertAt(q, p, i)
  BY DEF Insert
<1> HIDE DEF q
<1>6. p \in 1..(len + 1) /\ \A n \in 1..len : IF n < p THEN idName[q[n]] <= idName[i] ELSE idName[i] <= idName[q[n]]
  <2>1. before \subseteq 1..len
    BY <1>3
  <2>2. \A n \in 1..len : n \in before <=> idName[q[n]] <= idName[i]
    BY <1>3
  <2>3. CASE before = {}
    <3>1. p = 1
      BY <2>3
    <3> HIDE DEF p, before
    <3>2. \A n \in 1..len : ~(idName[q[n]] <= idName[i])
      BY <2>2, <2>3
    <3> QED
      BY <1>2, <1>4, <3>1, <3>2
  <2>4. CASE before # {}
    <3> DEFINE g == CHOOSE n \in before : \A m \in before : m <= n
    <3>1. p = 1 + g
      BY <2>4
    <3> HIDE DEF p, before
    <3>2. before \in SUBSET Int /\ IsFiniteSet(before)
      <4>1. IsFiniteSet(1..len) /\ before \in SUBSET (1..len)
        BY <1>2, <2>1, FS_Interval
      <4>2. IsFiniteSet(before)
        BY <4>1, FS_Subset
      <4> QED
        BY <4>1, <4>2
    <3>3. g \in before /\ \A m \in before : m <= g
      BY <2>4, <3>2, MaximumExists
    <3> HIDE DEF g
    <3>4. g \in 1..len /\ p \in 1..(len + 1)
      BY <2>1, <3>1, <3>3
    <3>5. idName[q[g]] <= idName[i]
      BY <2>2, <3>3, <3>4
    <3>6. ASSUME NEW n \in 1..len, n < p PROVE idName[q[n]] <= idName[i]
      <4>1. n = g \/ n < g
        BY <3>1, <3>4, <3>6
      <4>2. idName[q[n]] <= idName[q[g]]
        <5>1. n < g => idName[q[n]] <= idName[q[g]]
          BY <1>2, <3>4 DEF Listing, Sorted, q
        <5> QED
          BY <1>4, <3>4, <4>1, <5>1
      <4> QED
        BY <1>4, <3>4, <3>5, <4>2
    <3>7. ASSUME NEW n \in 1..len, ~(n < p) PROVE idName[i] <= idName[q[n]]
      <4>1. n \notin before
        BY <3>1, <3>3, <3>4, <3>7
      <4> QED
        BY <1>4, <2>2, <4>1
    <3> QED
      BY <3>4, <3>6, <3>7
  <2> QED
    BY <2>3, <2>4
<1> HIDE DEF p
<1>7. /\ InsertAt(q, p, i) \in Seq(used) /\ Sorted(InsertAt(q, p, i), idName)
      /\ ToSet(InsertAt(q, p, i)) = ToSet(q) \cup {i}
  <2>1. Sorted(q, idName)
    BY DEF Listing, q
  <2> QED
    BY <1>1, <1>2, <1>4, <1>6, <2>1, InsertSorted
<1>8. Listed' = Listed \cup {i}
  BY <1>5, <1>7 DEF Listed, q
<1>9. Sorted(identities', idName')
  BY <1>5, <1>7
<1> QED
  BY <1>5, <1>7, <1>8, <1>9 DEF Listing

LEMMA Removed ==
  ASSUME Types, Listing, NEW i \in Listed, UNCHANGED <<idName, used>>,
         identities' = RemoveAt(identities, CHOOSE n \in DOMAIN identities : identities[n] = i)
  PROVE  identities' \in Seq(used) /\ Listing' /\ Listed' = Listed \ {i}
<1> DEFINE p == CHOOSE n \in DOMAIN identities : identities[n] = i
<1>1. identities \in Seq(used) /\ DOMAIN identities = 1..Len(identities)
  BY LenProperties DEF Types, MemTypes
<1>2. p \in 1..Len(identities) /\ identities[p] = i
  BY <1>1 DEF Listed, ToSet
<1> HIDE DEF p
<1>3. /\ RemoveAt(identities, p) \in Seq(used) /\ Sorted(RemoveAt(identities, p), idName)
      /\ ToSet(RemoveAt(identities, p)) = ToSet(identities) \ {identities[p]}
  BY <1>1, <1>2, RemoveSorted DEF Listing
<1>4. identities' = RemoveAt(identities, p)
  BY DEF p
<1>5. Listed' = Listed \ {i}
  BY <1>2, <1>3, <1>4 DEF Listed
<1> QED
  BY <1>3, <1>4, <1>5 DEF Listing

-----------------------------------------------------------------------------
(* The steps of calls *)

LEMMA CreateIdentityStep ==
  ASSUME Types, Lists, NEW s \in Slot, CreateIdentity(s)
  PROVE  Types' /\ Lists' /\ Effect
<1>0. Resume(s, "create", "saved") /\ UNCHANGED <<channels, chains>>
  BY DEF CreateIdentity
<1>1. /\ call[s].op = "create" /\ call[s].step = "saved" /\ up = "yes" /\ Fits(call[s]) /\ Awaiting(call[s])
      /\ DiskTypes' /\ UNCHANGED <<up, idName, used, usedGone>>
  BY <1>0, Resumed DEF Types, CallTypes
<1>i. PICK i \in Own : i = call[s].id
  BY <1>1, IdleType DEF Fits
<1> DEFINE w == StoreIdentity(i, chains[i])
<1>2. CASE Return(s) /\ UNCHANGED identities
  BY <1>0, <1>2, Returning
<1>3. CASE /\ identities' = Insert(i) /\ Await(s, "done", w)
           /\ \A j \in Listed : idName[j] # call[s].name
  <2>1. /\ i \in Own /\ i \in used /\ idName[i] # None /\ idName[i] = call[s].name /\ i \notin Listed
        /\ call[s].key \in Own /\ call[s].key = i
    <3>1. Known(call[s])
      BY DEF Lists, Born
    <3>2. call[s].key \in Own /\ call[s].key = call[s].id
      BY <1>1, IdleType DEF Fits
    <3> QED
      BY <1>1, <1>i, <3>1, <3>2 DEF Known
  <2>2. idName[i] \in Name /\ chains[i] \in SUBSET Key
    BY <2>1 DEF Types, MemTypes
  <2>3. w \in OpType /\ w.do = "storeIdentity" /\ w.key = i /\ w.data = Rec(i)
    BY <2>1, <2>2, OpTypes DEF StoreIdentity, Op, Rec
  <2> HIDE DEF w
  <2>4. /\ call' \in [Slot -> CallType] /\ (\A t \in Slot : t # s => call'[t] = call[t])
        /\ call'[s].op = "create" /\ call'[s].key = i /\ call'[s].id = i
        /\ call'[s].name = call[s].name /\ call'[s].step = "done" /\ call'[s].awaits = w
        /\ queue' = Append(Tail(queue), s)
    BY <1>1, <1>3, <1>i, <2>1, <2>3, AwaitCall DEF Types, CallTypes
  <2>5. Fits(call'[s]) /\ Awaiting(call'[s])
    <3>1. call[s].name \in OwnName
      BY <1>1, IdleType DEF Fits
    <3> QED
      BY <2>1, <2>3, <2>4, <3>1 DEF Fits, Awaiting
  <2>6. /\ CallTypes' /\ Queued' /\ Turn(1, 1) /\ Ops'[Len(queue')] = w
    BY <1>0, <2>4, <2>5, Awaited
  <2>7. identities' \in Seq(used) /\ Listing' /\ Listed' = Listed \cup {i}
    BY <1>1, <1>3, <2>1, Inserted DEF Lists
  <2>8. Types'
    BY <1>0, <1>1, <2>6, <2>7 DEF Types, MemTypes, Down
  <2>9. Born'
    <3>1. Known(call[s])'
      BY <1>1, <2>1, <2>3, <2>4 DEF Known
    <3>2. \A j \in Own : idName'[j] = None => chains'[j] = {}
      BY <1>0, <1>1 DEF Lists, Born
    <3>3. \A j \in Own : idDisk'[j] # None => j \in used
      BY <1>0, BornDisk
    <3>4. call'[s].id = call[s].id
      BY <1>i, <2>4
    <3> QED
      BY <1>1, <1>i, <2>4, <2>7, <3>1, <3>2, <3>3, <3>4, BornSame
  <2>10. ChanKept(1)
    BY <1>0, <2>3, <2>6 DEF ChanKept, ChannelOps
  <2>11. IdWritten(i)
    <3>1. Rec(i)' = Rec(i)
      BY <1>0, <1>1 DEF Rec
    <3>2. Writes(IdentityOps, Ops'[Len(queue')], i) /\ Ops'[Len(queue')].data = Rec(i)'
      BY <2>3, <2>6, <3>1 DEF Writes, IdentityOps
    <3> QED
      BY <1>0, <1>1, <1>3, <2>1, <2>7, <3>2 DEF IdWritten
  <2> QED
    BY <1>1, <2>1, <2>6, <2>7, <2>8, <2>9, <2>10, <2>11 DEF Effect, Lists
<1> QED
  BY <1>2, <1>3, <1>i DEF CreateIdentity, Throw

LEMMA CleanupStep ==
  ASSUME Types, Lists, NEW s \in Slot, Cleanup(s)
  PROVE  Types' /\ Lists' /\ Effect
<1>1. Resume(s, "removeChannel", "cleanup") /\ UNCHANGED <<channels, identities, excused>>
  BY DEF Cleanup
<1>2. /\ call[s].op = "removeChannel" /\ call[s].step = "cleanup" /\ up = "yes" /\ Fits(call[s]) /\ Awaiting(call[s])
      /\ DiskTypes' /\ call[s] \in CallType /\ UNCHANGED <<up, idName, used, usedGone>>
  BY <1>1, Resumed DEF Types, CallTypes
<1>3. PICK k \in Key : k = call[s].key
  BY <1>2, IdleType DEF Fits
<1> DEFINE left == {n \in DOMAIN identities : n >= call[s].at /\ k \in chains[identities[n]]}
<1>4. CASE Return(s) /\ UNCHANGED chains
  BY <1>1, <1>4, Returning
<1>5. CASE left # {} /\ ~(Return(s) /\ UNCHANGED chains)
  <2>1. /\ identities \in Seq(used) /\ used \subseteq Own /\ DOMAIN identities = 1..Len(identities) /\ Len(identities) \in Nat
        /\ chains \in [Own -> SUBSET Key] /\ idName \in [Own -> Name \cup {None}] /\ call[s].at \in Nat \ {0}
    BY <1>2, LenProperties DEF Types, MemTypes, CallType
  <2> DEFINE g == CHOOSE n \in left : \A m \in left : n <= m
  <2>2. g \in DOMAIN identities
    <3>1. \E n \in left : \A m \in left : n <= m
      <4>1. left \in SUBSET (1..Len(identities)) /\ left # {}
        BY <1>5, <2>1
      <4> HIDE DEF left
      <4>2. left \in SUBSET Nat
        BY <2>1, <4>1
      <4> QED
        BY <4>1, <4>2, MinProperty
    <3>2. g \in left
      BY <3>1
    <3> QED
      BY <3>2
  <2>3. PICK n \in Nat \ {0} : n = g
    BY <2>1, <2>2
  <2>4. PICK i \in Own : i = identities[n]
    BY <2>1, <2>2, <2>3, ElementOfSeq
  <2>5. i \in Listed /\ i \in used
    BY <2>1, <2>2, <2>3, <2>4, ElementOfSeq DEF Listed, ToSet
  <2>6. /\ chains' = [chains EXCEPT ![i] = RemoveChain(i, k)]
        /\ call' = [call EXCEPT ![s].at = n + 1, ![s].awaits = StoreIdentity(i, chains'[i])]
        /\ queue' = Append(Tail(queue), s)
    BY <1>3, <1>5, <2>3, <2>4 DEF Cleanup
  <2> HIDE DEF left, g
  <2>7. chains' \in [Own -> SUBSET Key] /\ \A j \in Own \ {i} : chains'[j] = chains[j]
    BY <2>1, <2>6 DEF RemoveChain
  <2>8. idName[i] \in Name /\ chains'[i] \in SUBSET Key
    BY <2>1, <2>5, <2>7 DEF Lists, Listing
  <2> DEFINE w == StoreIdentity(i, chains'[i])
  <2>9. w \in OpType /\ w.do = "storeIdentity" /\ w.key = i /\ w.data = [name |-> idName[i], chains |-> chains'[i]]
    BY <2>8, OpTypes DEF StoreIdentity, Op
  <2>10. /\ call' \in [Slot -> CallType] /\ (\A t \in Slot : t # s => call'[t] = call[t])
         /\ call'[s].op = "removeChannel" /\ call'[s].key = k /\ call'[s].step = "cleanup" /\ call'[s].awaits = w
    <3> DEFINE c == [call[s] EXCEPT !.at = n + 1, !.awaits = w]
    <3>0. call' = [call EXCEPT ![s].at = n + 1, ![s].awaits = w]
      BY <2>6, Zenon
    <3> HIDE DEF w
    <3>1. call' = [call EXCEPT ![s] = c]
      BY <3>0
    <3>2. c \in CallType /\ c.op = "removeChannel" /\ c.key = k /\ c.step = "cleanup" /\ c.awaits = w
      <4>1. n + 1 \in Nat \ {0}
        OBVIOUS
      <4>2. w \in OpType
        BY <2>9
      <4> QED
        BY <1>2, <1>3, <4>1, <4>2 DEF CallType
    <3> HIDE DEF c
    <3> QED
      BY <3>1, <3>2 DEF Types, CallTypes
  <2> HIDE DEF w
  <2>11. Fits(call'[s]) /\ Awaiting(call'[s])
    BY <2>9, <2>10 DEF Fits, Awaiting
  <2>12. CallTypes' /\ Queued' /\ Turn(1, 1) /\ Ops'[Len(queue')] = w
    BY <1>1, <2>6, <2>10, <2>11, Awaited
  <2>13. Types'
    BY <1>1, <1>2, <2>7, <2>12 DEF Types, MemTypes, Down
  <2>14. Listing' /\ Listed' = Listed
    BY <1>1, <1>2, ListingSame DEF Lists
  <2>15. Born'
    <3>1. Known(call[s])'
      BY <1>2, <2>5, <2>9, <2>10 DEF Known
    <3>2. \A j \in Own : idName'[j] = None => chains'[j] = {}
      <4>1. idName[i] # None
        BY <2>5 DEF Lists, Listing
      <4> QED
        BY <1>2, <2>7, <4>1 DEF Lists, Born
    <3>3. \A j \in Own : idDisk'[j] # None => j \in used
      BY <1>1, BornDisk
    <3> QED
      BY <1>2, <2>10, <2>14, <3>1, <3>2, <3>3, BornSame
  <2>16. ChanKept(1)
    BY <1>1, <2>9, <2>12 DEF ChanKept, ChannelOps
  <2>17. IdWritten(i)
    <3>1. Ops'[Len(queue')].data = Rec(i)'
      BY <1>2, <2>9, <2>12 DEF Rec
    <3>2. Writes(IdentityOps, Ops'[Len(queue')], i)
      BY <2>9, <2>12 DEF Writes, IdentityOps
    <3>3. \A j \in Listed : j \in Own
      BY <2>1 DEF Lists, Listing
    <3> QED
      BY <1>2, <2>5, <2>7, <2>14, <3>1, <3>2, <3>3 DEF IdWritten
  <2> QED
    BY <1>2, <2>12, <2>13, <2>14, <2>15, <2>16, <2>17 DEF Effect, Lists
<1> QED
  BY <1>3, <1>4, <1>5 DEF Cleanup

LEMMA InvitedStep ==
  ASSUME Types, Lists, NEW s \in Slot, Invited(s)
  PROVE  Types' /\ Lists' /\ Effect
<1>1. /\ call[s].step = "invited" /\ queue' = Append(queue, s)
      /\ UNCHANGED <<up, channels, identities, idName, chanDisk, idDisk, messages, used>>
  BY DEF Invited, disk
<1>2. /\ Fits(call[s]) /\ Known(call[s]) /\ ~Awaiting(call[s]) /\ call[s] \in CallType
  BY <1>1 DEF Types, CallTypes, Lists, Born, Awaiting
<1>3. /\ call[s].op = "join" /\ call[s].key \in Foreign /\ call[s].name \in ForeignName /\ call[s].id \in Own
  BY <1>1, <1>2 DEF Fits, Idle, Call
<1>4. PICK i \in Own, k \in Foreign : i = call[s].id /\ k = call[s].key
  BY <1>3
<1> DEFINE ch == chains[i] \cup {k}
           w == StoreIdentity(i, ch)
<1>5. /\ chains' = [chains EXCEPT ![i] = ch]
      /\ call' = [call EXCEPT ![s].step = "begun", ![s].awaits = w]
      /\ usedGone' = IF i \in Listed THEN usedGone ELSE usedGone \cup {i}
  BY <1>4 DEF Invited
<1>6. /\ identities \in Seq(used) /\ used \subseteq Own
      /\ chains \in [Own -> SUBSET Key] /\ idName \in [Own -> Name \cup {None}]
  BY DEF Types, MemTypes
<1>7. i \in used /\ idName[i] # None /\ idName[i] \in Name /\ ch \in SUBSET Key /\ k \in Key
  BY <1>2, <1>3, <1>4, <1>6, Constants DEF Known
<1>8. chains' \in [Own -> SUBSET Key] /\ chains'[i] = ch /\ \A j \in Own \ {i} : chains'[j] = chains[j]
  BY <1>5, <1>6, <1>7
<1>9. w \in OpType /\ w.do = "storeIdentity" /\ w.key = i /\ w.data = [name |-> idName[i], chains |-> ch]
  BY <1>7, OpTypes DEF StoreIdentity, Op
<1> HIDE DEF w
<1>10. /\ call' \in [Slot -> CallType] /\ (\A t \in Slot : t # s => call'[t] = call[t])
       /\ call'[s].op = "join" /\ call'[s].key = k /\ call'[s].id = i /\ call'[s].name = call[s].name
       /\ call'[s].step = "begun" /\ call'[s].awaits = w
  <2> DEFINE c == [call[s] EXCEPT !.step = "begun", !.awaits = w]
  <2>1. call' = [call EXCEPT ![s] = c]
    BY <1>5
  <2>2. /\ c \in CallType /\ c.op = "join" /\ c.key = k /\ c.id = i /\ c.name = call[s].name
        /\ c.step = "begun" /\ c.awaits = w
    BY <1>2, <1>3, <1>4, <1>9 DEF CallType
  <2> HIDE DEF c
  <2> QED
    BY <2>1, <2>2 DEF Types, CallTypes
<1>11. Fits(call'[s]) /\ Awaiting(call'[s])
  BY <1>3, <1>9, <1>10 DEF Fits, Awaiting
<1>12. CallTypes' /\ Queued' /\ DiskTypes' /\ Turn(0, 1) /\ Ops'[Len(queue')] = w
  BY <1>1, <1>2, <1>10, <1>11, Enqueued DEF disk
<1>13. up = "yes"
  BY <1>1 DEF Types, Down, Idle, Call
<1>14. Types'
  BY <1>1, <1>6, <1>8, <1>12, <1>13 DEF Types, MemTypes, Down
<1>15. Listing' /\ Listed' = Listed
  BY <1>1, ListingSame DEF Lists
<1>16. Born'
  <2>1. Known(call[s])'
    BY <1>1, <1>7, <1>9, <1>10 DEF Known
  <2>2. \A j \in Own : idName'[j] = None => chains'[j] = {}
    BY <1>1, <1>7, <1>8 DEF Lists, Born
  <2>3. \A j \in Own : idDisk'[j] # None => j \in used
    BY <1>1 DEF Lists, Born
  <2> QED
    BY <1>1, <1>10, <1>15, <2>1, <2>2, <2>3, BornSame
<1>17. ChanKept(1)
  BY <1>1, <1>9, <1>12 DEF ChanKept, ChannelOps
<1>18. IdWritten(i)
  <2>1. Ops'[Len(queue')].data = Rec(i)'
    BY <1>1, <1>8, <1>9, <1>12 DEF Rec
  <2>2. Writes(IdentityOps, Ops'[Len(queue')], i)
    BY <1>9, <1>12 DEF Writes, IdentityOps
  <2>3. \A j \in Listed : j \in Own
    BY <1>6 DEF Lists, Listing
  <2>4. i \in Listed' \/ i \in usedGone'
    BY <1>5, <1>15
  <2> QED
    BY <1>1, <1>8, <1>15, <2>1, <2>2, <2>3, <2>4 DEF IdWritten
<1> QED
  BY <1>1, <1>5, <1>12, <1>13, <1>14, <1>15, <1>16, <1>17, <1>18 DEF Effect, Lists

(* A call goes on without any change of the memory. *)
LEMMA QuietStep ==
  ASSUME Types, Lists, NEW s \in Slot, NEW op \in {"receive", "removeChannel"}, Resume(s, op, "begun"),
         NEW w \in OpType, NEW next \in {"begun", "done", "cleanup"}, Await(s, next, w),
         \/ op = "receive" /\ ((next = "begun" /\ w = Read) \/ (next = "done" /\ w = Op("addMessage", call[s].key, call[s].name)))
         \/ op = "removeChannel" /\ next = "cleanup" /\ w = Op("removeMessages", call[s].key, None),
         UNCHANGED <<channels, identities, chains>>
  PROVE  Types' /\ Lists' /\ Effect
<1>1. /\ call[s].op = op /\ call[s].step = "begun" /\ Fits(call[s])
      /\ UNCHANGED <<up, idName, used, usedGone>>
  BY Resumed DEF Types, CallTypes
<1>2. /\ call'[s].op = op /\ call'[s].key = call[s].key /\ call'[s].name = call[s].name
      /\ call'[s].step = next /\ call'[s].awaits = w
  BY <1>1, AwaitCall DEF Types, CallTypes
<1>3. Fits(call'[s])
  <2>1. CASE op = "receive"
    <3>1. call[s].key \in Foreign /\ call[s].name \in {"root", "next"}
      BY <1>1, <2>1, IdleType DEF Fits
    <3> QED
      BY <1>2, <2>1, <3>1 DEF Fits
  <2>2. CASE op = "removeChannel"
    <3>1. call[s].key \in Key
      BY <1>1, <2>2, IdleType DEF Fits
    <3> QED
      BY <1>2, <2>2, <3>1 DEF Fits
  <2> QED
    BY <2>1, <2>2
<1>4. w.do \notin IdentityOps /\ w.do \notin ChannelOps
  <2>1. w.do \in {"read", "addMessage", "removeMessages"}
    <3>1. CASE w = Read
      BY <3>1 DEF Read, Op
    <3>2. CASE w = Op("addMessage", call[s].key, call[s].name)
      BY <3>2 DEF Op
    <3>3. CASE w = Op("removeMessages", call[s].key, None)
      BY <3>3 DEF Op
    <3> QED
      BY <3>1, <3>2, <3>3
  <2> QED
    BY <2>1 DEF IdentityOps, ChannelOps
<1>5. MemTypes'
  BY <1>1 DEF Types, MemTypes
<1>6. /\ Types' /\ Lists' /\ IdKept(1) /\ Turn(1, 1) /\ up' = "yes" /\ up = "yes" /\ usedGone' = usedGone
      /\ Ops'[Len(queue')] = w
  <2>1. next \in {"begun", "saved", "done", "cleanup"} /\ "begun" # "done"
    OBVIOUS
  <2> QED
    BY <1>3, <1>4, <1>5, <2>1, GoesOn
<1>7. ChanKept(1)
  BY <1>4, <1>6 DEF ChanKept
<1> QED
  BY <1>6, <1>7 DEF Effect

LEMMA PlainSteps ==
  ASSUME Types, Lists, NEW s \in Slot,
         CreateChannel(s) \/ Join(s) \/ Saved(s) \/ ForgetMessages(s) \/ ReadMore(s) \/ AddMessage(s)
  PROVE  Types' /\ Lists' /\ Effect
<1>1. CASE CreateChannel(s)
  BY <1>1, Adding DEF CreateChannel
<1>2. CASE Join(s)
  BY <1>2, Adding DEF Join
<1>3. CASE Saved(s)
  <2>1. PICK op, step : Resume(s, op, step)
    BY <1>3 DEF Saved
  <2> QED
    BY <1>3, <2>1, Returning DEF Saved
<1>4. CASE ForgetMessages(s)
  <2>1. /\ Resume(s, "removeChannel", "begun") /\ Await(s, "cleanup", Op("removeMessages", call[s].key, None))
        /\ UNCHANGED <<channels, identities, chains>>
    BY <1>4 DEF ForgetMessages, Removals
  <2>2. PICK w : w = Op("removeMessages", call[s].key, None)
    OBVIOUS
  <2>3. w \in OpType
    <3>1. Fits(call[s]) /\ call[s].op = "removeChannel"
      BY <2>1, Resumed DEF Types, CallTypes
    <3>2. call[s].key \in Key
      BY <3>1, IdleType DEF Fits
    <3> QED
      BY <2>2, <3>2, OpTypes
  <2> QED
    BY <2>1, <2>2, <2>3, QuietStep
<1>5. CASE ReadMore(s)
  <2>1. Resume(s, "receive", "begun") /\ Await(s, "begun", Read) /\ UNCHANGED <<channels, identities, chains>>
    BY <1>5 DEF ReadMore
  <2> QED
    BY <2>1, OpTypes, QuietStep
<1>6. CASE AddMessage(s)
  <2>1. /\ Resume(s, "receive", "begun") /\ Await(s, "done", Op("addMessage", call[s].key, call[s].name))
        /\ UNCHANGED <<channels, identities, chains>>
    BY <1>6 DEF AddMessage
  <2>2. PICK w : w = Op("addMessage", call[s].key, call[s].name)
    OBVIOUS
  <2>3. w \in OpType
    <3>1. Fits(call[s]) /\ call[s].op = "receive"
      BY <2>1, Resumed DEF Types, CallTypes
    <3>2. call[s].key \in Key /\ call[s].name \in {"root", "next"}
      BY <3>1, Constants, IdleType DEF Fits
    <3> QED
      BY <2>2, <3>2, OpTypes
  <2> QED
    BY <2>1, <2>2, <2>3, QuietStep
<1> QED
  BY <1>1, <1>2, <1>3, <1>4, <1>5, <1>6

-----------------------------------------------------------------------------
(* Calls begin *)

LEMMA Begun ==
  ASSUME Types, NEW s \in Slot,
         NEW op \in {"create", "feed", "receive", "removeChannel", "removeIdentity"},
         NEW k \in Key \cup {None}, NEW i \in Own \cup {None}, NEW name \in Name \cup {None, "root", "next"},
         NEW w \in OpType, Begin(s, Call(op, k, i, name), w),
         \A c \in CallType : c.op = op /\ c.key = k /\ c.id = i /\ c.name = name /\ c.step = "begun" /\ c.awaits = w
                               => Fits(c)
  PROVE  /\ CallTypes' /\ Queued' /\ DiskTypes' /\ Turn(0, 1) /\ Ops'[Len(queue')] = w
         /\ up = "yes" /\ up' = "yes" /\ UNCHANGED <<chanDisk, idDisk, messages, usedGone, excused>>
         /\ call[s] = Idle /\ \A t \in Slot : t # s => call'[t] = call[t]
         /\ call'[s].op = op /\ call'[s].key = k /\ call'[s].id = i /\ call'[s].name = name
         /\ call'[s].step = "begun" /\ call'[s].awaits = w
<1> DEFINE c == [Call(op, k, i, name) EXCEPT !.awaits = w]
<1>1. /\ up = "yes" /\ call[s] = Idle /\ call' = [call EXCEPT ![s] = c] /\ queue' = Append(queue, s)
      /\ UNCHANGED <<up, chanDisk, idDisk, messages, usedGone, excused>>
  BY DEF Begin, disk
<1>2. /\ c \in CallType /\ c.op = op /\ c.key = k /\ c.id = i /\ c.name = name
      /\ c.step = "begun" /\ c.awaits = w
  <2>1. c = [op |-> op, key |-> k, id |-> i, name |-> name, step |-> "begun", at |-> 1, awaits |-> w]
    BY DEF Call
  <2> HIDE DEF c
  <2>2. /\ c.op = op /\ c.key = k /\ c.id = i /\ c.name = name
        /\ c.step = "begun" /\ c.at = 1 /\ c.awaits = w
    BY <2>1
  <2>3. c \in CallType
    <3>1. 1 \in Nat \ {0} /\ op \in {"idle", "create", "join", "feed", "receive", "removeChannel", "removeIdentity"}
      OBVIOUS
    <3> QED
      BY <2>1, <3>1 DEF CallType
  <2> QED
    BY <2>2, <2>3
<1> HIDE DEF c
<1>3. Fits(c) /\ Awaiting(c)
  BY <1>2 DEF Awaiting
<1>4. call' \in [Slot -> CallType] /\ call'[s] = c /\ \A t \in Slot : t # s => call'[t] = call[t]
  BY <1>1, <1>2 DEF Types, CallTypes
<1>5. CallTypes' /\ Queued' /\ DiskTypes' /\ Turn(0, 1) /\ Ops'[Len(queue')] = c.awaits
  BY <1>1, <1>3, <1>4, IdleType, Enqueued DEF disk
<1> QED
  BY <1>1, <1>2, <1>4, <1>5

(* A call begins that creates no identity and leaves them alone. *)
LEMMA BegunPlain ==
  ASSUME Types, Lists, NEW s \in Slot,
         call[s] = Idle, \A t \in Slot : t # s => call'[t] = call[t],
         call'[s].op \notin {"create", "join"}, call'[s].awaits.do \notin IdentityOps,
         UNCHANGED <<identities, idName, chains, used, idDisk>>, Ops'[Len(queue')] = call'[s].awaits
  PROVE  Lists' /\ IdKept(1)
<1>1. Listing' /\ Listed' = Listed
  BY ListingSame DEF Lists
<1>2. Born'
  <2>1. Known(call[s])'
    BY DEF Known, IdentityOps
  <2>2. \A j \in Own : idName'[j] = None => chains'[j] = {}
    BY DEF Lists, Born
  <2>3. \A j \in Own : idDisk'[j] # None => j \in used
    BY DEF Lists, Born
  <2> QED
    BY <1>1, <2>1, <2>2, <2>3, BornSame
<1>3. IdKept(1)
  BY <1>1 DEF IdKept
<1> QED
  BY <1>1, <1>2, <1>3 DEF Lists

LEMMA FeedStep ==
  ASSUME Types, Lists, NEW s \in Slot, NEW k \in Foreign, NEW name \in ForeignName, Feed(s, k, name)
  PROVE  Types' /\ Lists' /\ Effect
<1> DEFINE w == StoreChannel(k, name)
<1>1. /\ ~Refused(k, name) /\ channels' = [channels EXCEPT ![k] = name]
      /\ Begin(s, Call("feed", k, None, name), w) /\ UNCHANGED <<identities, idName, chains, used>>
  BY DEF Feed
<1>2. k \in Key /\ name \in Name
  BY Constants
<1>3. w \in OpType /\ w.do = "storeChannel" /\ w.key = k /\ w.data = name
  BY <1>2, OpTypes DEF StoreChannel, Op
<1>4. \A c \in CallType : c.op = "feed" /\ c.key = k /\ c.id = None /\ c.name = name /\ c.step = "begun" /\ c.awaits = w
                            => Fits(c)
  BY DEF Fits
<1> HIDE DEF w
<1>5. /\ CallTypes' /\ Queued' /\ DiskTypes' /\ Turn(0, 1) /\ Ops'[Len(queue')] = w
      /\ up = "yes" /\ up' = "yes" /\ UNCHANGED <<idDisk, usedGone>>
      /\ call[s] = Idle /\ \A t \in Slot : t # s => call'[t] = call[t]
      /\ call'[s].op = "feed" /\ call'[s].awaits = w
  <2>1. Begin(s, Call("feed", k, None, name), w) /\ w \in OpType
    BY <1>1, <1>3
  <2> QED
    BY <1>2, <1>4, <2>1, Begun
<1>6. /\ channels' \in [Key -> Name \cup {None}] /\ channels'[k] = name
      /\ \A j \in Key \ {k} : channels'[j] = channels[j]
  BY <1>1, <1>2 DEF Types, MemTypes
<1>7. Types'
  BY <1>1, <1>5, <1>6 DEF Types, MemTypes, Down
<1>8. Lists' /\ IdKept(1)
  BY <1>1, <1>3, <1>5, BegunPlain DEF IdentityOps
<1>9. ChanWritten(k, name)
  BY <1>1, <1>3, <1>5, <1>6 DEF ChanWritten, Writes, ChannelOps, Refused
<1> QED
  BY <1>2, <1>5, <1>7, <1>8, <1>9 DEF Effect

LEMMA RemoveChannelStep ==
  ASSUME Types, Lists, NEW s \in Slot, NEW k \in Key, RemoveChannel(s, k)
  PROVE  Types' /\ Lists' /\ Effect
<1> DEFINE w == Op("eraseChannel", k, None)
<1>1. /\ channels' = [channels EXCEPT ![k] = None]
      /\ Begin(s, Call("removeChannel", k, None, None), w) /\ UNCHANGED <<identities, idName, chains, used>>
  BY DEF RemoveChannel, Removals
<1>3. w \in OpType /\ w.do = "eraseChannel" /\ w.key = k /\ w.data = None
  BY OpTypes DEF Op
<1>4. \A c \in CallType : c.op = "removeChannel" /\ c.key = k /\ c.id = None /\ c.name = None /\ c.step = "begun" /\ c.awaits = w
                            => Fits(c)
  BY DEF Fits
<1> HIDE DEF w
<1>5. /\ CallTypes' /\ Queued' /\ DiskTypes' /\ Turn(0, 1) /\ Ops'[Len(queue')] = w
      /\ up = "yes" /\ up' = "yes" /\ UNCHANGED <<idDisk, usedGone>>
      /\ call[s] = Idle /\ \A t \in Slot : t # s => call'[t] = call[t]
      /\ call'[s].op = "removeChannel" /\ call'[s].awaits = w
  <2>1. Begin(s, Call("removeChannel", k, None, None), w) /\ w \in OpType
    BY <1>1, <1>3
  <2> QED
    BY <1>4, <2>1, Begun
<1>6. /\ channels' \in [Key -> Name \cup {None}] /\ channels'[k] = None
      /\ \A j \in Key \ {k} : channels'[j] = channels[j]
  BY <1>1 DEF Types, MemTypes
<1>7. Types'
  BY <1>1, <1>5, <1>6 DEF Types, MemTypes, Down
<1>8. Lists' /\ IdKept(1)
  BY <1>1, <1>3, <1>5, BegunPlain DEF IdentityOps
<1>9. ChanWritten(k, None)
  BY <1>3, <1>5, <1>6 DEF ChanWritten, Writes, ChannelOps
<1> QED
  BY <1>5, <1>7, <1>8, <1>9 DEF Effect

LEMMA ReceiveStep ==
  ASSUME Types, Lists, NEW s \in Slot, NEW k \in Foreign, NEW m \in {"root", "next"}, Receive(s, k, m)
  PROVE  Types' /\ Lists' /\ Effect
<1>1. /\ Begin(s, Call("receive", k, None, m), Read)
      /\ UNCHANGED <<channels, identities, idName, chains, used>>
  BY DEF Receive
<1>2. k \in Key
  BY Constants
<1>3. Read \in OpType /\ Read.do = "read"
  BY OpTypes DEF Read, Op
<1>4. \A c \in CallType : c.op = "receive" /\ c.key = k /\ c.id = None /\ c.name = m /\ c.step = "begun" /\ c.awaits = Read
                            => Fits(c)
  BY DEF Fits
<1>5. /\ CallTypes' /\ Queued' /\ DiskTypes' /\ Turn(0, 1) /\ Ops'[Len(queue')] = Read
      /\ up = "yes" /\ up' = "yes" /\ UNCHANGED <<idDisk, usedGone>>
      /\ call[s] = Idle /\ \A t \in Slot : t # s => call'[t] = call[t]
      /\ call'[s].op = "receive" /\ call'[s].awaits = Read
  BY <1>1, <1>2, <1>3, <1>4, Begun
<1>7. Types'
  BY <1>1, <1>5 DEF Types, MemTypes, Down
<1>8. Lists' /\ IdKept(1)
  BY <1>1, <1>3, <1>5, BegunPlain DEF IdentityOps
<1>9. ChanKept(1)
  BY <1>1, <1>3, <1>5 DEF ChanKept, ChannelOps
<1> QED
  BY <1>5, <1>7, <1>8, <1>9 DEF Effect

LEMMA CreateStep ==
  ASSUME Types, Lists, NEW s \in Slot, NEW i \in Own, NEW name \in OwnName, Create(s, i, name)
  PROVE  Types' /\ Lists' /\ Effect
<1>1. /\ i \notin used /\ used' = used \cup {i}
      /\ idName' = [idName EXCEPT ![i] = name] /\ chains' = [chains EXCEPT ![i] = {i}]
      /\ Begin(s, Call("create", i, i, name), Op("addMessage", i, "root"))
      /\ UNCHANGED <<channels, identities>>
  BY DEF Create
<1>2. PICK w : w = Op("addMessage", i, "root")
  OBVIOUS
<1>3. i \in Key /\ name \in Name /\ name # None
  BY Constants
<1>4. w \in OpType /\ w.do = "addMessage"
  BY <1>2, <1>3, OpTypes DEF Op
<1>5. \A c \in CallType : c.op = "create" /\ c.key = i /\ c.id = i /\ c.name = name /\ c.step = "begun" /\ c.awaits = w
                            => Fits(c)
  BY <1>2 DEF Fits
<1>6. /\ CallTypes' /\ Queued' /\ DiskTypes' /\ Turn(0, 1) /\ Ops'[Len(queue')] = w
      /\ up = "yes" /\ up' = "yes" /\ UNCHANGED <<idDisk, usedGone>>
      /\ call[s] = Idle /\ \A t \in Slot : t # s => call'[t] = call[t]
      /\ call'[s].op = "create" /\ call'[s].id = i /\ call'[s].name = name /\ call'[s].awaits = w
  <2>1. Begin(s, Call("create", i, i, name), w)
    BY <1>1, <1>2
  <2>2. /\ i \in Key \cup {None} /\ i \in Own \cup {None} /\ name \in Name \cup {None, "root", "next"} /\ w \in OpType
        /\ "create" \in {"create", "feed", "receive", "removeChannel", "removeIdentity"}
    BY <1>3, <1>4
  <2> QED
    BY <1>5, <2>1, <2>2, Begun
<1>7. /\ identities \in Seq(used) /\ used \subseteq Own
      /\ idName \in [Own -> Name \cup {None}] /\ chains \in [Own -> SUBSET Key]
  BY DEF Types, MemTypes
<1>8. /\ idName' \in [Own -> Name \cup {None}] /\ idName'[i] = name /\ \A j \in Own \ {i} : idName'[j] = idName[j]
      /\ chains' \in [Own -> SUBSET Key] /\ \A j \in Own \ {i} : chains'[j] = chains[j]
  <2>1. {i} \in SUBSET Key
    BY <1>3
  <2> QED
    BY <1>1, <1>3, <1>7, <2>1
<1>9. identities' \in Seq(used')
  <2>1. used \subseteq used'
    BY <1>1
  <2> QED
    BY <1>1, <1>7, <2>1, SeqMonotonic
<1>10. Types'
  <2>1. MemTypes'
    BY <1>1, <1>6, <1>7, <1>8, <1>9 DEF Types, MemTypes
  <2> QED
    BY <1>6, <2>1 DEF Types, Down
<1>11. Listing' /\ Listed' = Listed
  BY <1>1, <1>7, <1>8, ListingSame DEF Lists
<1>12. Born'
  <2>1. Known(call[s])'
    <3>1. i \notin Listed
      BY <1>1 DEF Lists, Listing
    <3> QED
      BY <1>1, <1>3, <1>4, <1>6, <1>8, <1>11, <3>1 DEF Known
  <2>2. \A j \in Own : idName'[j] = None => chains'[j] = {}
    BY <1>3, <1>8 DEF Lists, Born
  <2>3. \A j \in Own : idDisk'[j] # None => j \in used
    BY <1>6 DEF Lists, Born
  <2>4. used \subseteq used' /\ \A j \in used : idName'[j] = idName[j]
    BY <1>1, <1>7, <1>8
  <2>5. \A j \in Listed' : j \in Listed \/ (call[s].op = "create" /\ j = call[s].id)
    BY <1>11
  <2>6. call'[s].id \notin used
    BY <1>1, <1>6
  <2> QED
    BY <1>6, <2>1, <2>2, <2>3, <2>4, <2>5, <2>6, BornSame
<1>13. ChanKept(1)
  BY <1>1, <1>4, <1>6 DEF ChanKept, ChannelOps
<1>14. IdKept(1)
  <2>1. \A j \in Listed : j \in Own \ {i}
    BY <1>1, <1>7 DEF Lists, Listing
  <2> QED
    BY <1>4, <1>6, <1>8, <1>11, <2>1 DEF IdKept, IdentityOps
<1> QED
  BY <1>6, <1>10, <1>11, <1>12, <1>13, <1>14 DEF Effect, Lists

LEMMA RemoveIdentityStep ==
  ASSUME Types, Lists, NEW s \in Slot, NEW i \in Own, RemoveIdentity(s, i)
  PROVE  Types' /\ Lists' /\ Effect
<1>1. /\ i \in Listed
      /\ identities' = RemoveAt(identities, CHOOSE n \in DOMAIN identities : identities[n] = i)
      /\ Begin(s, Call("removeIdentity", None, i, None), Op("eraseIdentity", i, None))
      /\ UNCHANGED <<channels, idName, chains, used>>
  BY DEF RemoveIdentity
<1>2. PICK w : w = Op("eraseIdentity", i, None)
  OBVIOUS
<1>3. w \in OpType /\ w.do = "eraseIdentity" /\ w.key = i /\ w.data = None
  BY <1>2, OpTypes DEF Op
<1>4. \A c \in CallType : c.op = "removeIdentity" /\ c.key = None /\ c.id = i /\ c.name = None /\ c.step = "begun" /\ c.awaits = w
                            => Fits(c)
  BY <1>2 DEF Fits
<1>5. /\ CallTypes' /\ Queued' /\ DiskTypes' /\ Turn(0, 1) /\ Ops'[Len(queue')] = w
      /\ up = "yes" /\ up' = "yes" /\ UNCHANGED <<idDisk, usedGone>>
      /\ call[s] = Idle /\ \A t \in Slot : t # s => call'[t] = call[t]
      /\ call'[s].op = "removeIdentity" /\ call'[s].awaits = w
  <2>1. Begin(s, Call("removeIdentity", None, i, None), w)
    BY <1>1, <1>2
  <2>2. /\ i \in Own \cup {None} /\ None \in Key \cup {None} /\ None \in Name \cup {None, "root", "next"} /\ w \in OpType
        /\ "removeIdentity" \in {"create", "feed", "receive", "removeChannel", "removeIdentity"}
    BY <1>3
  <2> QED
    BY <1>4, <2>1, <2>2, Begun
<1>6. identities' \in Seq(used) /\ Listing' /\ Listed' = Listed \ {i}
  BY <1>1, Removed DEF Lists
<1>7. Types'
  BY <1>1, <1>5, <1>6 DEF Types, MemTypes, Down
<1>8. Born'
  <2>1. Known(call[s])'
    BY <1>3, <1>5 DEF Known
  <2>2. \A j \in Own : idName'[j] = None => chains'[j] = {}
    BY <1>1 DEF Lists, Born
  <2>3. \A j \in Own : idDisk'[j] # None => j \in used
    BY <1>5 DEF Lists, Born
  <2> QED
    BY <1>1, <1>5, <1>6, <2>1, <2>2, <2>3, BornSame
<1>9. ChanKept(1)
  BY <1>1, <1>3, <1>5 DEF ChanKept, ChannelOps
<1>10. IdWritten(i)
  BY <1>1, <1>3, <1>5, <1>6 DEF IdWritten, Writes, IdentityOps
<1> QED
  BY <1>5, <1>6, <1>7, <1>8, <1>9, <1>10 DEF Effect, Lists

LEMMA RequestStep ==
  ASSUME Types, Lists, NEW s \in Slot, NEW k \in Foreign, NEW i \in Own, NEW name \in ForeignName,
         Request(s, k, i, name)
  PROVE  Types' /\ Lists' /\ Effect
<1>1. /\ up = "yes" /\ call[s] = Idle /\ i \in Listed
      /\ call' = [call EXCEPT ![s] = [Call("join", k, i, name) EXCEPT !.step = "invited"]]
      /\ UNCHANGED <<up, channels, identities, idName, chains, queue, used, chanDisk, idDisk, messages, usedGone>>
  BY DEF Request, disk, history
<1> DEFINE c == [Call("join", k, i, name) EXCEPT !.step = "invited"]
<1>2. /\ c \in CallType /\ c.op = "join" /\ c.key = k /\ c.id = i /\ c.name = name
      /\ c.step = "invited" /\ c.awaits = Read
  <2>1. c = [op |-> "join", key |-> k, id |-> i, name |-> name, step |-> "invited", at |-> 1, awaits |-> Read]
    BY DEF Call
  <2> HIDE DEF c
  <2>2. c.op = "join" /\ c.key = k /\ c.id = i /\ c.name = name /\ c.step = "invited" /\ c.awaits = Read
    BY <2>1
  <2>3. Read \in OpType /\ k \in Key /\ name \in Name
    BY Constants, OpTypes
  <2>4. c \in CallType
    BY <2>1, <2>3 DEF CallType
  <2> QED
    BY <2>2, <2>4
<1>3. call' \in [Slot -> CallType] /\ call'[s] = c /\ \A t \in Slot : t # s => call'[t] = call[t]
  <2> HIDE DEF c
  <2>1. call' = [call EXCEPT ![s] = c]
    BY <1>1 DEF c
  <2> QED
    BY <1>2, <2>1 DEF Types, CallTypes
<1> HIDE DEF c
<1>4. Fits(c) /\ ~Awaiting(c)
  BY <1>2 DEF Fits, Awaiting
<1>5. CallTypes'
  <2>1. \A t \in Slot : Fits(call'[t])
    BY <1>3, <1>4 DEF Types, CallTypes
  <2> QED
    BY <1>3, <2>1 DEF CallTypes
<1>6. \A n \in 1..Len(queue) : queue[n] \in Slot /\ queue[n] # s
  BY <1>1, OpsAt, IdleType DEF Types, Queued
<1>7. Queued'
  <2>1. \A t \in Slot : Awaiting(call'[t]) <=> Awaiting(call[t])
    BY <1>1, <1>3, <1>4, IdleType
  <2> QED
    BY <1>1, <2>1 DEF Types, Queued
<1>8. Turn(0, 0)
  <2>1. \A n \in 1..Len(queue) : Ops'[n] = Ops[n]
    BY <1>1, <1>3, <1>6 DEF Ops
  <2>2. Len(queue) \in Nat
    BY OpsAt
  <2> QED
    BY <1>1, <2>1, <2>2 DEF Turn
<1>9. Types'
  BY <1>1, <1>5, <1>7 DEF Types, MemTypes, DiskTypes, Down
<1>10. Listing' /\ Listed' = Listed
  BY <1>1, ListingSame DEF Lists
<1>11. Born'
  <2>1. Known(call[s])'
    <3>1. i \in used /\ idName[i] # None
      BY <1>1 DEF Lists, Listing
    <3>2. used' = used /\ idName' = idName /\ call'[s] = c
      BY <1>1, <1>3
    <3>3. ~Awaiting(call'[s]) /\ call'[s].op = "join" /\ call'[s].id = i
      BY <1>2, <1>4, <3>2
    <3> QED
      BY <3>1, <3>2, <3>3 DEF Known
  <2>2. \A j \in Own : idName'[j] = None => chains'[j] = {}
    BY <1>1 DEF Lists, Born
  <2>3. \A j \in Own : idDisk'[j] # None => j \in used
    BY <1>1 DEF Lists, Born
  <2> QED
    BY <1>1, <1>2, <1>3, <1>10, <2>1, <2>2, <2>3, BornSame
<1>12. ChanKept(0) /\ IdKept(0)
  BY <1>1, <1>10 DEF ChanKept, IdKept
<1> QED
  BY <1>1, <1>8, <1>9, <1>10, <1>11, <1>12 DEF Effect, Lists

(* Any step of a call. *)
LEMMA CallStep ==
  ASSUME Types, Lists, NEW s \in Slot, User(s) \/ Step(s)
  PROVE  Types' /\ Lists' /\ Effect
<1>1. CASE \E i \in Own, name \in OwnName : Create(s, i, name)
  BY <1>1, CreateStep
<1>2. CASE \E k \in Foreign, i \in Own, name \in ForeignName : Request(s, k, i, name)
  BY <1>2, RequestStep
<1>3. CASE \E k \in Foreign, name \in ForeignName : Feed(s, k, name)
  BY <1>3, FeedStep
<1>4. CASE \E k \in Key : RemoveChannel(s, k)
  BY <1>4, RemoveChannelStep
<1>5. CASE \E i \in Own : RemoveIdentity(s, i)
  BY <1>5, RemoveIdentityStep
<1>6. CASE \E k \in Foreign, m \in {"root", "next"} : Receive(s, k, m)
  BY <1>6, ReceiveStep
<1>7. CASE CreateIdentity(s)
  BY <1>7, CreateIdentityStep
<1>8. CASE Invited(s)
  BY <1>8, InvitedStep
<1>9. CASE Cleanup(s)
  BY <1>9, CleanupStep
<1>10. CASE CreateChannel(s) \/ Join(s) \/ Saved(s) \/ ForgetMessages(s) \/ ReadMore(s) \/ AddMessage(s)
  BY <1>10, PlainSteps
<1> QED
  BY <1>1, <1>2, <1>3, <1>4, <1>5, <1>6, <1>7, <1>8, <1>9, <1>10 DEF User, Step

-----------------------------------------------------------------------------
(* Names are unique, in memory and after every prefix of the operations; the storage will *)
(* hold what the memory does.                                                              *)

Mem(k) == IF up = "yes" THEN channels[k] ELSE chanDisk[k]
ChanLine == \A k \in Key, v \in Name \cup {None} : ChanLast(k, v) => v = Mem(k)
NameLine == \A n \in 0..Len(queue), j, k \in Key, v \in Name : ChanAt(j, n, v) /\ ChanAt(k, n, v) => j = k
MemNames == \A j, k \in Key : Mem(j) = Mem(k) /\ Mem(j) # None => j = k

IdLine ==
  up = "yes" => \A i \in Own, v \in Data \cup {None} :
    IdLast(i, v) => IF i \in Listed THEN v = Rec(i) ELSE v = None \/ i \in usedGone
IdNames ==
  usedGone = {} => \A n \in 0..Len(queue), i, j \in Own, v, w \in Data :
    IdAt(i, n, v) /\ IdAt(j, n, w) /\ v.name = w.name => i = j
IdMem == usedGone = {} => \A i, j \in Listed : idName[i] = idName[j] => i = j

ChanNames == ChanLine /\ NameLine /\ MemNames
IdentityNames == IdLine /\ IdNames /\ IdMem

(* Either the operation after the n-th is one of those before, or it is the last one. *)
LEMMA TurnEnds ==
  ASSUME NEW h \in {0, 1}, NEW a \in {0, 1}, Turn(h, a), NEW n \in 0..Len(queue')
  PROVE  \/ n \in 0..(Len(queue) - h) /\ n + h \in 0..Len(queue)
         \/ n = Len(queue') /\ a = 1
<1>1. Len(queue) \in Nat /\ Len(queue') = Len(queue) - h + a /\ h <= Len(queue)
  BY DEF Turn
<1>2. CASE h = 0
  BY <1>1, <1>2
<1>3. CASE h = 1
  BY <1>1, <1>3
<1> QED
  BY <1>2, <1>3

LEMMA ChanStep ==
  ASSUME ChanNames, up = "yes", up' = "yes", NEW h \in {0, 1}, NEW a \in {0, 1}, Turn(h, a),
         ChanKept(a) \/ (a = 1 /\ \E k \in Key, v \in Name \cup {None} : ChanWritten(k, v))
  PROVE  ChanNames'
<1>1. \A k \in Key : Mem(k) = channels[k] /\ Mem(k)' = channels'[k]
  BY DEF Mem
<1>2. MemNames'
  <2>1. CASE ChanKept(a)
    BY <1>1, <2>1 DEF ChanKept, MemNames, ChanNames
  <2>2. CASE \E k \in Key, v \in Name \cup {None} : ChanWritten(k, v)
    <3>1. PICK k \in Key, v \in Name \cup {None} : ChanWritten(k, v)
      BY <2>2
    <3> QED
      BY <1>1, <3>1 DEF ChanWritten, MemNames, ChanNames
  <2> QED
    BY <2>1, <2>2
<1>3. ChanLine'
  <2> SUFFICES ASSUME NEW k \in Key, NEW v \in Name \cup {None}, ChanLast(k, v)' PROVE v = channels'[k]
    BY <1>1 DEF ChanLine
  <2>1. ChanLast(k, v) => v = channels[k]
    BY <1>1 DEF ChanNames, ChanLine
  <2>2. CASE a = 0
    <3>1. ChanLast(k, v)
      BY <2>2, TurnNone
    <3> QED
      BY <2>1, <2>2, <3>1 DEF ChanKept
  <2>3. CASE a = 1
    <3>1. IF Writes(ChannelOps, Ops'[Len(queue')], k) THEN v = Ops'[Len(queue')].data ELSE ChanLast(k, v)
      BY <2>3, TurnLast
    <3>2. CASE ChanKept(a)
      BY <2>1, <2>3, <3>1, <3>2 DEF ChanKept, Writes
    <3>3. CASE \E j \in Key, u \in Name \cup {None} : ChanWritten(j, u)
      <4>1. PICK j \in Key, u \in Name \cup {None} : ChanWritten(j, u)
        BY <3>3
      <4> QED
        BY <2>1, <3>1, <4>1 DEF ChanWritten, Writes
    <3> QED
      BY <3>2, <3>3
  <2> QED
    BY <2>2, <2>3
<1>4. NameLine'
  <2> SUFFICES ASSUME NEW n \in 0..Len(queue'), NEW j \in Key, NEW k \in Key, NEW v \in Name,
                      ChanAt(j, n, v)', ChanAt(k, n, v)'
               PROVE  j = k
    BY DEF NameLine
  <2>1. CASE n \in 0..(Len(queue) - h) /\ n + h \in 0..Len(queue)
    <3>1. ChanAt(j, n + h, v) /\ ChanAt(k, n + h, v)
      BY <2>1, TurnAt
    <3> QED
      BY <2>1, <3>1 DEF ChanNames, NameLine
  <2>2. CASE n = Len(queue')
    <3>1. ChanLast(j, v)' /\ ChanLast(k, v)'
      BY <2>2 DEF ChanAt, ChanLast
    <3>2. v = Mem(j)' /\ v = Mem(k)' /\ v # None
      BY <1>3, <3>1, Constants DEF ChanLine
    <3> QED
      BY <1>2, <3>2 DEF MemNames
  <2> QED
    BY <2>1, <2>2, TurnEnds
<1> QED
  BY <1>2, <1>3, <1>4 DEF ChanNames

LEMMA IdStep ==
  ASSUME IdentityNames, Types, Types', up = "yes", up' = "yes", usedGone \subseteq usedGone', NEW h \in {0, 1}, NEW a \in {0, 1}, Turn(h, a),
         IdKept(a) \/ (a = 1 /\ \E i \in Own : IdWritten(i))
  PROVE  IdentityNames'
<1>0. Listed \subseteq Own /\ Listed' \subseteq Own
  <2>1. identities \in Seq(Own) /\ identities' \in Seq(Own)
    BY SeqMonotonic DEF Types, MemTypes
  <2> QED
    BY <2>1, LenProperties DEF Listed, ToSet
<1>1. IdMem'
  <2> SUFFICES ASSUME usedGone' = {}, NEW i \in Listed', NEW j \in Listed', idName'[i] = idName'[j] PROVE i = j
    BY DEF IdMem
  <2>1. \A x, y \in Listed : idName[x] = idName[y] => x = y
    BY DEF IdentityNames, IdMem
  <2>2. CASE IdKept(a)
    BY <1>0, <2>1, <2>2 DEF IdKept
  <2>3. CASE \E x \in Own : IdWritten(x)
    <3>1. PICK x \in Own : IdWritten(x)
      BY <2>3
    <3>2. \A y \in Listed' \ {x} : y \in Listed /\ idName'[y] = idName[y]
      BY <1>0, <3>1 DEF IdWritten
    <3>3. x \in Listed' /\ x \in Listed => idName'[x] = idName[x]
      BY <3>1 DEF IdWritten
    <3>4. x \in Listed' /\ x \notin Listed => \A y \in Listed : idName[y] # idName'[x]
      BY <3>1 DEF IdWritten
    <3>5. CASE i = x /\ j # x
      BY <2>1, <3>2, <3>3, <3>4, <3>5
    <3>6. CASE i # x /\ j = x
      BY <2>1, <3>2, <3>3, <3>4, <3>6
    <3>7. CASE i # x /\ j # x
      BY <2>1, <3>2, <3>7
    <3> QED
      BY <3>5, <3>6, <3>7
  <2> QED
    BY <2>2, <2>3
<1>2. IdLine'
  <2> SUFFICES ASSUME NEW i \in Own, NEW v \in Data \cup {None}, IdLast(i, v)'
               PROVE  IF i \in Listed' THEN v = Rec(i)' ELSE v = None \/ i \in usedGone'
    BY DEF IdLine
  <2>1. IdLast(i, v) => IF i \in Listed THEN v = Rec(i) ELSE v = None \/ i \in usedGone
    BY DEF IdentityNames, IdLine
  <2>2. ASSUME IdKept(a)
        PROVE  (i \in Listed' <=> i \in Listed) /\ (i \in Listed => Rec(i)' = Rec(i))
    BY <1>0, <2>2 DEF IdKept, Rec
  <2>3. CASE a = 0
    <3>1. IdLast(i, v)
      BY <2>3, TurnNone
    <3> QED
      BY <2>1, <2>2, <2>3, <3>1
  <2>4. CASE a = 1
    <3>1. IF Writes(IdentityOps, Ops'[Len(queue')], i) THEN v = Ops'[Len(queue')].data ELSE IdLast(i, v)
      BY <2>4, TurnLast
    <3>2. CASE IdKept(a)
      <4>1. ~Writes(IdentityOps, Ops'[Len(queue')], i)
        BY <2>4, <3>2 DEF IdKept, Writes
      <4> QED
        BY <2>1, <2>2, <3>1, <3>2, <4>1
    <3>3. CASE \E x \in Own : IdWritten(x)
      <4>1. PICK x \in Own : IdWritten(x)
        BY <3>3
      <4>2. CASE i = x
        BY <3>1, <4>1, <4>2 DEF IdWritten
      <4>3. CASE i # x
        <5>1. ~Writes(IdentityOps, Ops'[Len(queue')], i)
          BY <4>1, <4>3 DEF IdWritten, Writes
        <5>2. (i \in Listed' <=> i \in Listed) /\ (i \in Listed => Rec(i)' = Rec(i))
          BY <4>1, <4>3 DEF IdWritten, Rec
        <5> QED
          BY <2>1, <3>1, <5>1, <5>2
      <4> QED
        BY <4>2, <4>3
    <3> QED
      BY <3>2, <3>3
  <2> QED
    BY <2>3, <2>4
<1>3. IdNames'
  <2> SUFFICES ASSUME usedGone' = {}, NEW n \in 0..Len(queue'), NEW i \in Own, NEW j \in Own, NEW v \in Data, NEW w \in Data,
                      IdAt(i, n, v)', IdAt(j, n, w)', v.name = w.name
               PROVE  i = j
    BY DEF IdNames
  <2>1. CASE n \in 0..(Len(queue) - h) /\ n + h \in 0..Len(queue)
    <3>1. IdAt(i, n + h, v) /\ IdAt(j, n + h, w)
      BY <2>1, TurnAt
    <3>2. usedGone = {}
      OBVIOUS
    <3> QED
      BY <2>1, <3>1, <3>2 DEF IdentityNames, IdNames
  <2>2. CASE n = Len(queue')
    <3>1. IdLast(i, v)' /\ IdLast(j, w)'
      BY <2>2 DEF IdAt, IdLast
    <3>2. v # None /\ w # None
      BY Constants
    <3>3. i \in Listed' /\ j \in Listed' /\ v = Rec(i)' /\ w = Rec(j)'
      BY <1>2, <3>1, <3>2 DEF IdLine
    <3>4. idName'[i] = idName'[j]
      BY <3>3 DEF Rec
    <3> QED
      BY <1>1, <3>3, <3>4 DEF IdMem
  <2> QED
    BY <2>1, <2>2, TurnEnds
<1> QED
  BY <1>1, <1>2, <1>3 DEF IdentityNames

-----------------------------------------------------------------------------
(* The process stops, and load() *)

RegInv == Types /\ Lists /\ ChanNames /\ IdentityNames /\ up # "failed"

(* Without calls in progress, the storage is what it is. *)
LEMMA NoCalls ==
  ASSUME Types, \A s \in Slot : call[s] = Idle
  PROVE  /\ queue = << >> /\ Len(queue) = 0
         /\ \A k \in Key : \A v : ChanLast(k, v) <=> v = chanDisk[k]
         /\ \A i \in Own : \A v : IdLast(i, v) <=> v = idDisk[i]
<1>1. queue \in Seq(Slot) /\ Len(queue) \in Nat
  BY LenProperties DEF Types, Queued
<1>2. Len(queue) = 0
  <2>1. \A n \in 1..Len(queue) : FALSE
    BY OpsAt, IdleType DEF Types, Queued
  <2> QED
    BY <1>1, <2>1
<1>3. queue = << >>
  BY <1>1, <1>2, EmptySeq
<1> QED
  BY <1>2, <1>3, AtZero DEF ChanLast, IdLast

LEMMA NothingListed ==
  ASSUME identities = << >>
  PROVE  Listed = {} /\ \A f : Sorted(identities, f)
BY DEF Listed, ToSet, Sorted

LEMMA CrashStep ==
  ASSUME RegInv, Crash
  PROVE  RegInv'
<1>1. /\ up = "yes" /\ up' = "no" /\ channels' = [k \in Key |-> None] /\ identities' = << >>
      /\ idName' = [i \in Own |-> None] /\ chains' = [i \in Own |-> {}]
      /\ call' = [s \in Slot |-> Idle] /\ queue' = << >>
      /\ UNCHANGED <<chanDisk, idDisk, messages, used, usedGone>>
  BY DEF Crash, disk
<1>2. Types'
  <2>1. << >> \in Seq(used) /\ << >> \in Seq(Slot) /\ Len(<< >>) = 0
    BY EmptySeq
  <2>2. MemTypes'
    BY <1>1, <2>1 DEF RegInv, Types, MemTypes
  <2>3. DiskTypes'
    BY <1>1 DEF RegInv, Types, DiskTypes
  <2>4. CallTypes'
    BY <1>1, IdleType DEF CallTypes
  <2>5. Queued'
    BY <1>1, <2>1, IdleType DEF Queued
  <2>6. Down'
    BY <1>1 DEF Down
  <2> QED
    BY <2>2, <2>3, <2>4, <2>5, <2>6 DEF Types
<1>3. Lists'
  <2>1. Listing'
    BY <1>1, NothingListed DEF Listing, Listed, ToSet, Sorted
  <2>2. \A s \in Slot : call'[s] = Idle
    BY <1>1
  <2>3. \A s \in Slot : Known(call[s])'
    BY <2>2, IdleType DEF Known
  <2>4. Born'
    BY <1>1, <2>2, <2>3, IdleType DEF RegInv, Lists, Born
  <2> QED
    BY <2>1, <2>4 DEF Lists
<1>4. \A k \in Key : \A v : (ChanLast(k, v)' <=> v = chanDisk[k]) /\ (ChanAt(k, 0, v)' <=> v = chanDisk[k])
  BY <1>1, AtZero DEF ChanLast, ChanAt
<1>5. \A i \in Own : \A v : (IdAt(i, 0, v)' <=> v = idDisk[i]) /\ (IdAt(i, 0, v) <=> v = idDisk[i])
  BY <1>1, AtZero DEF IdAt
<1>6. \A k \in Key : ChanAt(k, 0, chanDisk[k]) /\ Mem(k)' = chanDisk[k] /\ chanDisk[k] \in Name \cup {None}
  BY <1>1, AtZero DEF ChanAt, Mem, RegInv, Types, DiskTypes
<1>7. 0 \in 0..Len(queue) /\ Len(queue') = 0
  BY <1>1, OpsAt DEF RegInv
<1>8. ChanNames'
  <2>1. ChanLine'
    BY <1>4, <1>6 DEF ChanLine
  <2>2. \A j, k \in Key, v \in Name : ChanAt(j, 0, v) /\ ChanAt(k, 0, v) => j = k
    BY <1>7 DEF RegInv, ChanNames, NameLine
  <2>3. MemNames'
    BY <1>6, <2>2 DEF MemNames
  <2>4. NameLine'
    <3> SUFFICES ASSUME NEW n \in 0..Len(queue'), NEW j \in Key, NEW k \in Key, NEW v \in Name,
                        ChanAt(j, n, v)', ChanAt(k, n, v)'
                 PROVE  j = k
      BY DEF NameLine
    <3>1. n = 0
      BY <1>7
    <3>2. v = chanDisk[j] /\ v = chanDisk[k]
      BY <1>4, <3>1
    <3> QED
      BY <1>6, <2>2, <3>2
  <2> QED
    BY <2>1, <2>3, <2>4 DEF ChanNames
<1>9. IdentityNames'
  <2>1. IdLine'
    BY <1>1 DEF IdLine
  <2>2. IdMem'
    BY <1>1 DEF IdMem, Listed, ToSet
  <2>3. IdNames'
    <3> SUFFICES ASSUME usedGone' = {}, NEW n \in 0..Len(queue'), NEW i \in Own, NEW j \in Own, NEW v \in Data, NEW w \in Data,
                        IdAt(i, n, v)', IdAt(j, n, w)', v.name = w.name
                 PROVE  i = j
      BY DEF IdNames
    <3>1. n = 0
      BY <1>7
    <3>2. IdAt(i, 0, v) /\ IdAt(j, 0, w) /\ usedGone = {}
      BY <1>1, <1>5, <3>1
    <3> QED
      BY <1>7, <3>2 DEF RegInv, IdentityNames, IdNames
  <2> QED
    BY <2>1, <2>2, <2>3 DEF IdentityNames
<1> QED
  BY <1>1, <1>2, <1>3, <1>8, <1>9 DEF RegInv

LEMMA Loaded ==
  ASSUME NEW X, IsFiniteSet(X), NEW t \in SetToSeqs(X), NEW f, \A m, n \in DOMAIN t : m < n => f[t[m]] <= f[t[n]]
  PROVE  t \in Seq(X) /\ ToSet(t) = X /\ Sorted(t, f)
<1>1. PICK c \in Nat : c = Cardinality(X)
  BY FS_CardinalityType
<1>2. t \in [1..c -> X] /\ \A m, n \in 1..c : m # n => t[m] # t[n]
  BY <1>1 DEF SetToSeqs
<1>3. t \in Seq(X) /\ Len(t) = c /\ DOMAIN t = 1..c
  BY <1>2
<1>4. t \in Injection(1..c, X)
  BY <1>2 DEF Injection, IsInjective
<1>5. Cardinality(1..c) = Cardinality(X)
  BY <1>1, FS_Interval
<1>6. t \in Surjection(1..c, X)
  BY <1>4, <1>5, FS_Injection
<1>7. ToSet(t) = X
  BY <1>2, <1>3, <1>6 DEF Surjection, ToSet
<1> QED
  BY <1>2, <1>3, <1>7 DEF Sorted

LEMMA LoadStep ==
  ASSUME RegInv, Load
  PROVE  RegInv'
<1>1. up = "no" /\ UNCHANGED <<call, queue, chanDisk, idDisk, messages, used, usedGone>>
  BY DEF Load, disk, history
<1>2. \A k \in Key : Mem(k) = chanDisk[k]
  BY <1>1 DEF Mem
<1>3. ~SameName
  BY <1>2 DEF SameName, RegInv, ChanNames, MemNames
<1> DEFINE X == {i \in Own : idDisk[i] # None}
<1>4. /\ up' = "yes" /\ channels' = chanDisk
      /\ idName' = [i \in Own |-> IF idDisk[i] = None THEN None ELSE idDisk[i].name]
      /\ chains' = [i \in Own |-> IF idDisk[i] = None THEN {} ELSE idDisk[i].chains]
      /\ identities' \in SetToSeqs(X)
      /\ \A m, n \in DOMAIN identities' : m < n => idName'[identities'[m]] <= idName'[identities'[n]]
  BY <1>3 DEF Load
<1>5. /\ \A s \in Slot : call[s] = Idle /\ call'[s] = Idle
      /\ idDisk \in [Own -> Data \cup {None}] /\ chanDisk \in [Key -> Name \cup {None}] /\ used \subseteq Own
  BY <1>1 DEF RegInv, Types, Down, DiskTypes, MemTypes
<1>6. \A i \in X : i \in used /\ idDisk[i] \in Data /\ idDisk[i] = [name |-> idDisk[i].name, chains |-> idDisk[i].chains]
                   /\ idDisk[i].name \in Name /\ idDisk[i].chains \subseteq Key
  BY <1>5 DEF RegInv, Lists, Born, Data
<1>7. identities' \in Seq(X) /\ ToSet(identities') = X /\ Sorted(identities', idName')
  <2>1. IsFiniteSet(X)
    BY Constants, FS_Subset
  <2> QED
    BY <1>4, <2>1, Loaded
<1>8. \A i \in X : idName'[i] = idDisk[i].name /\ chains'[i] = idDisk[i].chains /\ Rec(i)' = idDisk[i]
  BY <1>4, <1>6 DEF Rec
<1>9. \A i \in Own \ X : idName'[i] = None /\ chains'[i] = {}
  BY <1>4
<1>10. Listed' = X
  BY <1>7 DEF Listed
<1>11. Types'
  <2>1. identities' \in Seq(used')
    BY <1>1, <1>6, <1>7, SeqMonotonic
  <2>2. idName' \in [Own -> Name \cup {None}] /\ chains' \in [Own -> SUBSET Key]
    BY <1>4, <1>6
  <2>3. MemTypes'
    BY <1>1, <1>4, <1>5, <2>1, <2>2 DEF MemTypes
  <2> QED
    BY <1>1, <1>4, <2>3 DEF RegInv, Types, DiskTypes, CallTypes, Queued, Down
<1>12. Lists'
  <2>1. \A i \in X : i \in used' /\ idName'[i] # None
    BY <1>1, <1>6, <1>8, Constants
  <2>2. Listing'
    BY <1>7, <1>10, <2>1 DEF Listing
  <2>3. \A s \in Slot : Known(call[s])'
    BY <1>5, IdleType DEF Known
  <2>4. \A s, t \in Slot : call'[s].op # "create"
    BY <1>5, IdleType
  <2>5. \A i \in Own : idName'[i] = None => chains'[i] = {}
    BY <1>9, <2>1
  <2>6. \A i \in Own : idDisk'[i] # None => i \in used'
    BY <1>1 DEF RegInv, Lists, Born
  <2> QED
    BY <2>2, <2>3, <2>4, <2>5, <2>6 DEF Lists, Born
<1>13. ChanNames'
  <2>1. \A k \in Key : Mem(k)' = Mem(k)
    BY <1>2, <1>4 DEF Mem
  <2>2. Ops' = Ops /\ Len(queue') = Len(queue)
    BY <1>1 DEF Ops
  <2>3. \A k \in Key : \A v : ChanLast(k, v)' <=> ChanLast(k, v)
    BY <1>1, <2>2 DEF ChanLast
  <2>4. \A k \in Key, n \in 0..Len(queue) : \A v : ChanAt(k, n, v)' <=> ChanAt(k, n, v)
    BY <1>1, <2>2 DEF ChanAt
  <2> QED
    BY <2>1, <2>2, <2>3, <2>4 DEF RegInv, ChanNames, ChanLine, NameLine, MemNames
<1>14. IdentityNames'
  <2>1. Ops' = Ops /\ Len(queue') = Len(queue) /\ Len(queue) = 0
    BY <1>1, <1>5, NoCalls DEF Ops, RegInv
  <2>2. \A i \in Own : \A v : (IdAt(i, 0, v)' <=> v = idDisk[i]) /\ (IdLast(i, v)' <=> v = idDisk[i]) /\ (IdAt(i, 0, v) <=> v = idDisk[i])
    BY <1>1, <2>1, AtZero DEF IdAt, IdLast
  <2>3. usedGone = {} => \A i, j \in X : idDisk[i].name = idDisk[j].name => i = j
    <3> SUFFICES ASSUME usedGone = {}, NEW i \in X, NEW j \in X, idDisk[i].name = idDisk[j].name PROVE i = j
      OBVIOUS
    <3>1. 0 \in 0..Len(queue)
      BY <2>1
    <3>2. i \in Own /\ j \in Own /\ idDisk[i] \in Data /\ idDisk[j] \in Data
      BY <1>6
    <3>3. IdAt(i, 0, idDisk[i]) /\ IdAt(j, 0, idDisk[j])
      BY <2>2, <3>2
    <3> QED
      BY <3>1, <3>2, <3>3 DEF RegInv, IdentityNames, IdNames
  <2>4. IdMem'
    BY <1>1, <1>8, <1>10, <2>3 DEF IdMem
  <2>5. IdLine'
    BY <1>8, <1>10, <2>2 DEF IdLine
  <2>6. IdNames'
    <3> SUFFICES ASSUME usedGone' = {}, NEW n \in 0..Len(queue'), NEW i \in Own, NEW j \in Own, NEW v \in Data, NEW w \in Data,
                        IdAt(i, n, v)', IdAt(j, n, w)', v.name = w.name
                 PROVE  i = j
      BY DEF IdNames
    <3>1. n = 0
      BY <2>1
    <3>2. v = idDisk[i] /\ w = idDisk[j] /\ v # None /\ w # None
      BY <2>2, <3>1, Constants
    <3> QED
      BY <1>1, <2>3, <3>2
  <2> QED
    BY <2>4, <2>5, <2>6 DEF IdentityNames
<1> QED
  BY <1>4, <1>11, <1>12, <1>13, <1>14 DEF RegInv

-----------------------------------------------------------------------------
(* The invariant *)

LEMMA RegInit == Init => RegInv
<1> SUFFICES ASSUME Init PROVE RegInv
  OBVIOUS
<1>1. /\ up = "yes" /\ channels = [k \in Key |-> None] /\ identities = << >>
      /\ idName = [i \in Own |-> None] /\ chains = [i \in Own |-> {}]
      /\ call = [s \in Slot |-> Idle] /\ queue = << >>
      /\ chanDisk = [k \in Key |-> None] /\ idDisk = [i \in Own |-> None]
      /\ messages = [k \in Key |-> {}] /\ used = {}
  BY DEF Init
<1>2. Types
  <2>1. << >> \in Seq(used) /\ << >> \in Seq(Slot) /\ Len(<< >>) = 0
    BY EmptySeq
  <2>2. MemTypes
    BY <1>1, <2>1 DEF MemTypes
  <2>3. DiskTypes
    BY <1>1 DEF DiskTypes
  <2>4. CallTypes
    BY <1>1, IdleType DEF CallTypes
  <2>5. Queued
    BY <1>1, <2>1, IdleType DEF Queued
  <2>6. Down
    BY <1>1 DEF Down
  <2> QED
    BY <2>2, <2>3, <2>4, <2>5, <2>6 DEF Types
<1>3. Lists
  <2>1. Listing
    BY <1>1, NothingListed DEF Listing
  <2>2. \A s \in Slot : call[s] = Idle /\ Known(call[s])
    BY <1>1, IdleType DEF Known
  <2> QED
    BY <1>1, <2>1, <2>2, IdleType DEF Lists, Born
<1>4. \A s \in Slot : call[s] = Idle
  BY <1>1
<1>5. /\ Len(queue) = 0 /\ (\A k \in Key : \A v : ChanLast(k, v) <=> v = None)
      /\ (\A i \in Own : \A v : IdLast(i, v) <=> v = None)
  BY <1>1, <1>2, <1>4, NoCalls
<1>6. \A n \in 0..Len(queue) : /\ \A k \in Key : \A v : ChanAt(k, n, v) <=> v = None
                               /\ \A i \in Own : \A v : IdAt(i, n, v) <=> v = None
  BY <1>5 DEF ChanAt, ChanLast, IdAt, IdLast
<1>7. \A k \in Key : Mem(k) = None
  BY <1>1 DEF Mem
<1>8. ChanNames
  BY <1>5, <1>6, <1>7, Constants DEF ChanNames, ChanLine, NameLine, MemNames
<1>9. IdentityNames
  <2>1. Listed = {}
    BY <1>1, NothingListed
  <2> QED
    BY <1>5, <1>6, <2>1, Constants DEF IdentityNames, IdLine, IdNames, IdMem
<1> QED
  BY <1>1, <1>2, <1>3, <1>8, <1>9 DEF RegInv

LEMMA RegNext == RegInv /\ [Next]_vars => RegInv'
<1> SUFFICES ASSUME RegInv, [Next]_vars PROVE RegInv'
  OBVIOUS
<1>1. CASE Crash
  BY <1>1, CrashStep
<1>2. CASE Load
  BY <1>2, LoadStep
<1>3. CASE \E s \in Slot : User(s) \/ Step(s)
  <2>1. Types' /\ Lists' /\ Effect
    BY <1>3, CallStep DEF RegInv
  <2>2. PICK h \in {0, 1}, a \in {0, 1} :
          /\ up = "yes" /\ up' = "yes" /\ usedGone \subseteq usedGone' /\ Turn(h, a)
          /\ ChanKept(a) \/ (a = 1 /\ \E k \in Key, v \in Name \cup {None} : ChanWritten(k, v))
          /\ IdKept(a) \/ (a = 1 /\ \E i \in Own : IdWritten(i))
    BY <2>1 DEF Effect
  <2>3. ChanNames'
    BY <2>2, ChanStep DEF RegInv
  <2>4. IdentityNames'
    BY <2>1, <2>2, IdStep DEF RegInv
  <2> QED
    BY <2>1, <2>2, <2>3, <2>4 DEF RegInv
<1>4. CASE UNCHANGED vars
  <2>1. UNCHANGED <<up, channels, identities, idName, chains, call, queue, chanDisk, idDisk, messages, used, usedGone>>
    BY <1>4 DEF vars, memory, disk, history
  <2>2. Types'
    BY <2>1 DEF RegInv, Types, MemTypes, DiskTypes, CallTypes, Queued, Down
  <2>3. Listed' = Listed /\ Ops' = Ops
    BY <2>1 DEF Listed, Ops
  <2>4. Lists'
    BY <2>1, <2>3 DEF RegInv, Lists, Listing, Born, Known
  <2>5. ChanNames'
    BY <2>1, <2>3 DEF RegInv, ChanNames, ChanLine, ChanLast, NameLine, ChanAt, MemNames, Mem
  <2>6. IdentityNames'
    BY <2>1, <2>3 DEF RegInv, IdentityNames, IdLine, IdLast, IdNames, IdAt, IdMem, Rec
  <2> QED
    BY <2>1, <2>2, <2>4, <2>5, <2>6 DEF RegInv
<1> QED
  BY <1>1, <1>2, <1>3, <1>4 DEF Next

-----------------------------------------------------------------------------
(* Calls that overlap with the removal of a channel, and the messages of channels *)

Removing(s, k) == call[s].op = "removeChannel" /\ call[s].key = k
NoClash ==
  \A k \in Key \ overlapped, s, t \in Slot :
    Removing(s, k) /\ s # t /\ Awaiting(call[t]) => call[t].key # k /\ call[t].op # "removeIdentity"
Closed ==
  \A k \in Key \ overlapped :
    /\ "next" \in messages[k] => "root" \in messages[k]
    /\ \A s \in Slot : call[s].op = "receive" /\ call[s].key = k /\ call[s].name = "next" => "root" \in messages[k]

(* Call s begins to await the storage, goes on or returns, or waits for an invite. *)
Starts(s) ==
  /\ ~Awaiting(call[s]) /\ Awaiting(call'[s]) /\ messages' = messages /\ overlapped \subseteq overlapped'
  /\ \A t \in Slot : Awaiting(call[t]) => Clash(call'[s], call[t]) \cup Clash(call[t], call'[s]) \subseteq overlapped'
  /\ call'[s].op = "receive" /\ call'[s].name = "next" => "root" \in messages[call'[s].key]
Goes(s) ==
  /\ Awaiting(call[s]) /\ overlapped' = overlapped
  /\ call'[s] = Idle \/ (call'[s].op = call[s].op /\ call'[s].key = call[s].key /\ call'[s].name = call[s].name)
  /\ \A k \in Key :
       messages'[k] = IF call[s].awaits.do = "addMessage" /\ call[s].awaits.key = k THEN messages[k] \cup {call[s].awaits.data}
                      ELSE IF call[s].awaits.do = "removeMessages" /\ call[s].awaits.key = k THEN {} ELSE messages[k]
Waits(s) ==
  call'[s].op = "join" /\ ~Awaiting(call'[s]) /\ messages' = messages /\ overlapped' = overlapped
Moves(s) == Starts(s) \/ Goes(s) \/ Waits(s)

LEMMA BeginMoves ==
  ASSUME Types, NEW s \in Slot,
         NEW op \in {"create", "feed", "receive", "removeChannel", "removeIdentity"},
         NEW k, NEW i, NEW name, NEW w, Begin(s, Call(op, k, i, name), w),
         op = "receive" /\ name = "next" => "root" \in messages[k]
  PROVE  Starts(s) /\ \A t \in Slot : t # s => call'[t] = call[t]
<1> DEFINE b == Call(op, k, i, name)
           c == [b EXCEPT !.awaits = w]
<1>1. /\ call[s] = Idle /\ call' = [call EXCEPT ![s] = c] /\ messages' = messages
      /\ overlapped' = overlapped \cup UNION {Clash(b, call[t]) \cup Clash(call[t], b) : t \in ToSet(queue)}
  BY DEF Begin, Overlap, disk
<1>2. /\ c.op = op /\ c.key = k /\ c.name = name /\ c.step = "begun" /\ b.op = op /\ b.key = k
  BY DEF Call
<1> HIDE DEF b, c
<1>3. call'[s] = c /\ \A t \in Slot : t # s => call'[t] = call[t]
  BY <1>1 DEF Types, CallTypes
<1>4. ~Awaiting(call[s]) /\ Awaiting(call'[s])
  BY <1>1, <1>2, <1>3, IdleType DEF Awaiting
<1>5. ASSUME NEW t \in Slot, Awaiting(call[t])
      PROVE  Clash(call'[s], call[t]) \cup Clash(call[t], call'[s]) \subseteq overlapped'
  <2>1. t \in ToSet(queue)
    BY <1>5, LenProperties DEF Types, Queued, ToSet
  <2>2. Clash(call'[s], call[t]) = Clash(b, call[t]) /\ Clash(call[t], call'[s]) = Clash(call[t], b)
    BY <1>2, <1>3 DEF Clash
  <2> QED
    BY <1>1, <2>1, <2>2
<1>6. overlapped \subseteq overlapped'
  BY <1>1
<1> QED
  BY <1>1, <1>2, <1>3, <1>4, <1>5, <1>6 DEF Starts

LEMMA CallExcept ==
  ASSUME NEW c \in CallType, NEW x, NEW w
  PROVE  /\ LET d == [c EXCEPT !.step = x, !.awaits = w]
            IN  d.op = c.op /\ d.key = c.key /\ d.name = c.name
         /\ LET d == [c EXCEPT !.at = x, !.awaits = w]
            IN  d.op = c.op /\ d.key = c.key /\ d.name = c.name
BY DEF CallType

LEMMA ResumeMoves ==
  ASSUME Types, NEW s \in Slot, NEW op, NEW step, Resume(s, op, step),
         \/ Return(s)
         \/ \E next, w : Await(s, next, w)
         \/ \E n, w : call' = [call EXCEPT ![s].at = n, ![s].awaits = w]
  PROVE  Goes(s) /\ \A t \in Slot : t # s => call'[t] = call[t]
<1>1. /\ Awaiting(call[s]) /\ overlapped' = overlapped /\ Ops[1] = call[s].awaits
      /\ \A k \in Key : messages'[k] = IF Ops[1].do = "addMessage" /\ Ops[1].key = k THEN messages[k] \cup {Ops[1].data}
                                       ELSE IF Ops[1].do = "removeMessages" /\ Ops[1].key = k THEN {} ELSE messages[k]
  BY Resumed
<1>2. call \in [Slot -> CallType]
  BY DEF Types, CallTypes
<1>3. CASE Return(s)
  <2>1. call'[s] = Idle /\ \A t \in Slot : t # s => call'[t] = call[t]
    BY <1>3, Returned
  <2> QED
    BY <1>1, <2>1 DEF Goes
<1>4. CASE \E next, w : Await(s, next, w)
  <2>1. PICK next, w : Await(s, next, w)
    BY <1>4
  <2>2. PICK c : c = [call[s] EXCEPT !.step = next, !.awaits = w]
    OBVIOUS
  <2>3. call' = [call EXCEPT ![s] = c]
    BY <2>1, <2>2 DEF Await
  <2>4. c.op = call[s].op /\ c.key = call[s].key /\ c.name = call[s].name
    <3>1. call[s] \in CallType
      BY <1>2
    <3> QED
      BY <2>2, <3>1, CallExcept
  <2>5. call'[s] = c /\ \A t \in Slot : t # s => call'[t] = call[t]
    BY <1>2, <2>3
  <2> QED
    BY <1>1, <2>4, <2>5 DEF Goes
<1>5. CASE \E n, w : call' = [call EXCEPT ![s].at = n, ![s].awaits = w]
  <2>1. PICK n, w : call' = [call EXCEPT ![s].at = n, ![s].awaits = w]
    BY <1>5
  <2>2. PICK c : c = [call[s] EXCEPT !.at = n, !.awaits = w]
    OBVIOUS
  <2>3. call' = [call EXCEPT ![s] = c]
    BY <2>1, <2>2
  <2>4. c.op = call[s].op /\ c.key = call[s].key /\ c.name = call[s].name
    <3>1. call[s] \in CallType
      BY <1>2
    <3> QED
      BY <2>2, <3>1, CallExcept
  <2>5. call'[s] = c /\ \A t \in Slot : t # s => call'[t] = call[t]
    BY <1>2, <2>3
  <2> QED
    BY <1>1, <2>4, <2>5 DEF Goes
<1> QED
  BY <1>3, <1>4, <1>5

LEMMA InvitedMoves ==
  ASSUME Types, NEW s \in Slot, Invited(s)
  PROVE  Starts(s) /\ \A t \in Slot : t # s => call'[t] = call[t]
<1>1. /\ call[s].step = "invited" /\ messages' = messages
      /\ overlapped' = overlapped \cup UNION {Clash(call[s], call[t]) \cup Clash(call[t], call[s]) : t \in ToSet(queue)}
  BY DEF Invited, Overlap, disk
<1>2. PICK c : /\ c = [call[s] EXCEPT !.step = "begun", !.awaits = c.awaits]
               /\ call' = [call EXCEPT ![s] = c]
  <2>1. PICK w : call' = [call EXCEPT ![s].step = "begun", ![s].awaits = w]
    BY DEF Invited
  <2>2. PICK c : c = [call[s] EXCEPT !.step = "begun", !.awaits = w]
    OBVIOUS
  <2>3. call' = [call EXCEPT ![s] = c]
    BY <2>1, <2>2
  <2>4. c.awaits = w
    BY <2>2 DEF Types, CallTypes, CallType
  <2> QED
    BY <2>2, <2>3, <2>4
<1>3. Fits(call[s]) /\ call \in [Slot -> CallType]
  BY DEF Types, CallTypes
<1>4. call[s].op = "join"
  BY <1>1, <1>3 DEF Fits, Idle, Call
<1>5. c.op = "join" /\ c.key = call[s].key /\ c.step = "begun"
  BY <1>2, <1>3, <1>4 DEF CallType
<1>6. call'[s] = c /\ \A t \in Slot : t # s => call'[t] = call[t]
  BY <1>2, <1>3
<1>7. ~Awaiting(call[s]) /\ Awaiting(call'[s])
  BY <1>1, <1>5, <1>6 DEF Awaiting
<1>8. ASSUME NEW t \in Slot, Awaiting(call[t])
      PROVE  Clash(call'[s], call[t]) \cup Clash(call[t], call'[s]) \subseteq overlapped'
  <2>1. t \in ToSet(queue)
    BY <1>8, LenProperties DEF Types, Queued, ToSet
  <2>2. Clash(call'[s], call[t]) = Clash(call[s], call[t]) /\ Clash(call[t], call'[s]) = Clash(call[t], call[s])
    BY <1>4, <1>5, <1>6 DEF Clash
  <2> QED
    BY <1>1, <2>1, <2>2
<1>9. overlapped \subseteq overlapped'
  BY <1>1
<1> QED
  BY <1>1, <1>5, <1>6, <1>7, <1>8, <1>9 DEF Starts

LEMMA RequestMoves ==
  ASSUME Types, NEW s \in Slot, NEW k, NEW i, NEW name, Request(s, k, i, name)
  PROVE  Waits(s) /\ \A t \in Slot : t # s => call'[t] = call[t]
<1>1. PICK c : c = [Call("join", k, i, name) EXCEPT !.step = "invited"]
  OBVIOUS
<1>2. call' = [call EXCEPT ![s] = c] /\ messages' = messages /\ overlapped' = overlapped
  BY <1>1 DEF Request, disk, history
<1>3. c.op = "join" /\ c.step = "invited"
  BY <1>1 DEF Call
<1>4. call'[s] = c /\ \A t \in Slot : t # s => call'[t] = call[t]
  BY <1>2 DEF Types, CallTypes
<1> QED
  BY <1>2, <1>3, <1>4 DEF Waits, Awaiting

LEMMA CallMoves ==
  ASSUME Types, NEW s \in Slot, User(s) \/ Step(s)
  PROVE  Moves(s) /\ \A t \in Slot : t # s => call'[t] = call[t]
<1>1. CASE \E i \in Own, name \in OwnName : Create(s, i, name)
  BY <1>1, BeginMoves DEF Create, Moves
<1>2. CASE \E k \in Foreign, i \in Own, name \in ForeignName : Request(s, k, i, name)
  BY <1>2, RequestMoves DEF Moves
<1>3. CASE \E k \in Foreign, name \in ForeignName : Feed(s, k, name)
  BY <1>3, BeginMoves DEF Feed, Moves
<1>4. CASE \E k \in Key : RemoveChannel(s, k)
  BY <1>4, BeginMoves DEF RemoveChannel, Moves
<1>5. CASE \E i \in Own : RemoveIdentity(s, i)
  BY <1>5, BeginMoves DEF RemoveIdentity, Moves
<1>6. CASE \E k \in Foreign, m \in {"root", "next"} : Receive(s, k, m)
  <2>1. PICK k \in Foreign, m \in {"root", "next"} : Receive(s, k, m)
    BY <1>6
  <2>2. Begin(s, Call("receive", k, None, m), Read) /\ (m = "next" => "root" \in messages[k])
    BY <2>1 DEF Receive, ParentsStored
  <2> QED
    BY <2>2, BeginMoves DEF Moves
<1>7. CASE CreateChannel(s) \/ Join(s)
  <2>1. PICK op : Resume(s, op, "begun")
    BY <1>7 DEF CreateChannel, Join
  <2>2. Return(s) \/ \E next, w : Await(s, next, w)
    BY <1>7 DEF CreateChannel, Join, AddChannel, Throw
  <2> QED
    BY <2>1, <2>2, ResumeMoves DEF Moves
<1>8. CASE CreateIdentity(s)
  <2>1. Return(s) \/ \E next, w : Await(s, next, w)
    BY <1>8 DEF CreateIdentity, Throw
  <2> QED
    BY <1>8, <2>1, ResumeMoves DEF CreateIdentity, Moves
<1>9. CASE Invited(s)
  BY <1>9, InvitedMoves DEF Moves
<1>10. CASE Saved(s)
  BY <1>10, ResumeMoves DEF Saved, Moves
<1>11. CASE ForgetMessages(s)
  BY <1>11, ResumeMoves DEF ForgetMessages, Moves
<1>12. CASE Cleanup(s)
  <2>1. Return(s) \/ \E n, w : call' = [call EXCEPT ![s].at = n, ![s].awaits = w]
    BY <1>12 DEF Cleanup
  <2> QED
    BY <1>12, <2>1, ResumeMoves DEF Cleanup, Moves
<1>13. CASE ReadMore(s) \/ AddMessage(s)
  BY <1>13, ResumeMoves DEF ReadMore, AddMessage, Moves
<1> QED
  BY <1>1, <1>2, <1>3, <1>4, <1>5, <1>6, <1>7, <1>8, <1>9, <1>10, <1>11, <1>12, <1>13 DEF User, Step

(* What a call that has begun is about does not change until it returns. *)
LEMMA SameCall ==
  ASSUME Types, NEW s \in Slot, Goes(s), \A t \in Slot : t # s => call'[t] = call[t], NEW t \in Slot
  PROVE  /\ call'[t] = Idle \/ (call'[t].op = call[t].op /\ call'[t].key = call[t].key /\ call'[t].name = call[t].name)
         /\ Awaiting(call'[t]) => Awaiting(call[t])
<1>1. CASE t = s
  BY <1>1, IdleType DEF Goes
<1>2. CASE t # s
  BY <1>2
<1> QED
  BY <1>1, <1>2

LEMMA ClashStep ==
  ASSUME Types, Types', NoClash, NEW s \in Slot, Moves(s), \A t \in Slot : t # s => call'[t] = call[t]
  PROVE  NoClash'
<1> SUFFICES ASSUME NEW k \in Key \ overlapped', NEW u \in Slot, NEW t \in Slot,
                    call'[u].op = "removeChannel", call'[u].key = k, u # t, Awaiting(call'[t])
             PROVE  call'[t].key # k /\ call'[t].op # "removeIdentity"
  BY DEF NoClash, Removing
<1>0. Awaiting(call'[u])
  <2>1. Fits(call'[u]) /\ call'[u].op # "join"
    BY DEF Types, CallTypes
  <2>2. call'[u].step # "invited"
    BY <2>1, IdleType DEF Fits
  <2> QED
    BY <2>2 DEF Awaiting
<1>1. CASE Starts(s)
  <2>1. k \in Key \ overlapped
    BY <1>1 DEF Starts
  <2>2. CASE u # s /\ t # s
    <3>1. Removing(u, k) /\ Awaiting(call[t]) /\ call'[t] = call[t]
      BY <2>2 DEF Removing
    <3> QED
      BY <2>1, <3>1 DEF NoClash
  <2>3. CASE u = s
    <3>1. call'[t] = call[t] /\ Awaiting(call[t])
      BY <2>3
    <3>2. Clash(call'[s], call[t]) \subseteq overlapped'
      BY <1>1, <3>1 DEF Starts
    <3> QED
      BY <2>3, <3>1, <3>2 DEF Clash
  <2>4. CASE t = s
    <3>1. call'[u] = call[u] /\ Awaiting(call[u])
      BY <1>0, <2>4
    <3>2. Clash(call[u], call'[s]) \subseteq overlapped'
      BY <1>1, <3>1 DEF Starts
    <3> QED
      BY <2>4, <3>1, <3>2 DEF Clash
  <2> QED
    BY <2>2, <2>3, <2>4
<1>2. CASE Goes(s)
  <2>1. k \in Key \ overlapped /\ Awaiting(call[t])
    BY <1>2, SameCall DEF Goes
  <2>2. call'[u] # Idle /\ call'[t] # Idle
    BY <1>0, IdleType
  <2>3. Removing(u, k) /\ call'[t].key = call[t].key /\ call'[t].op = call[t].op
    BY <1>2, <2>2, SameCall DEF Removing
  <2> QED
    BY <2>1, <2>3 DEF NoClash
<1>3. CASE Waits(s)
  <2>1. k \in Key \ overlapped /\ u # s /\ t # s
    BY <1>3 DEF Waits
  <2>2. Removing(u, k) /\ Awaiting(call[t]) /\ call'[t] = call[t]
    BY <2>1 DEF Removing
  <2> QED
    BY <2>1, <2>2 DEF NoClash
<1> QED
  BY <1>1, <1>2, <1>3 DEF Moves

(* Messages are added by calls that create or receive, and removed by removeChannel. *)
LEMMA FitsOp ==
  ASSUME NEW c \in CallType, Fits(c)
  PROVE  /\ c.awaits.do = "addMessage" =>
              \/ c.op = "create" /\ c.awaits.data = "root"
              \/ c.op = "receive" /\ c.awaits.key = c.key /\ c.awaits.data = c.name
         /\ c.awaits.do = "removeMessages" => c.op = "removeChannel" /\ c.awaits.key = c.key
         /\ c.op = "receive" => Awaiting(c)
<1>2. Idle.op = "idle" /\ Idle.awaits = Read
  BY DEF Idle, Call
<1>3. CASE c.op = "idle"
  <2>1. c = Idle
    BY <1>3 DEF Fits
  <2> QED
    BY <1>2, <2>1 DEF Op, StoreChannel, Read
<1>4. CASE c.op = "create"
  <2>1. \/ c.awaits = Op("addMessage", c.key, "root") \/ c.awaits = StoreChannel(c.key, c.name)
       \/ c.awaits.do = "storeIdentity"
    BY <1>2, <1>4 DEF Fits
  <2>2. CASE c.awaits = Op("addMessage", c.key, "root")
    BY <1>4, <2>1, <2>2 DEF Op, StoreChannel, Read
  <2>3. CASE c.awaits = StoreChannel(c.key, c.name)
    BY <1>4, <2>1, <2>3 DEF Op, StoreChannel, Read
  <2>4. CASE c.awaits.do = "storeIdentity"
    BY <1>4, <2>1, <2>4 DEF Op, StoreChannel, Read
  <2> QED
    BY <2>1, <2>2, <2>3, <2>4
<1>5. CASE c.op = "join"
  <2>1. c.awaits = Read \/ c.awaits.do = "storeIdentity" \/ c.awaits = StoreChannel(c.key, c.name)
    BY <1>2, <1>5 DEF Fits
  <2>2. CASE c.awaits = Read
    BY <1>5, <2>1, <2>2 DEF Op, StoreChannel, Read
  <2>3. CASE c.awaits.do = "storeIdentity"
    BY <1>5, <2>1, <2>3 DEF Op, StoreChannel, Read
  <2>4. CASE c.awaits = StoreChannel(c.key, c.name)
    BY <1>5, <2>1, <2>4 DEF Op, StoreChannel, Read
  <2> QED
    BY <2>1, <2>2, <2>3, <2>4
<1>6. CASE c.op = "feed"
  <2>1. c.awaits = StoreChannel(c.key, c.name)
    BY <1>2, <1>6 DEF Fits
  <2> QED
    BY <1>6, <2>1 DEF Op, StoreChannel, Read
<1>7. CASE c.op = "receive"
  <2>1. c.step \in {"begun", "done"} /\ (c.awaits = Read \/ c.awaits = Op("addMessage", c.key, c.name))
    BY <1>2, <1>7 DEF Fits
  <2>2. CASE c.awaits = Read
    BY <1>7, <2>1, <2>2 DEF Op, StoreChannel, Read, Awaiting
  <2>3. CASE c.awaits = Op("addMessage", c.key, c.name)
    BY <1>7, <2>1, <2>3 DEF Op, StoreChannel, Read, Awaiting
  <2> QED
    BY <2>1, <2>2, <2>3
<1>8. CASE c.op = "removeChannel"
  <2>1. \/ c.awaits = Op("eraseChannel", c.key, None) \/ c.awaits = Op("removeMessages", c.key, None)
       \/ c.awaits.do = "storeIdentity"
    BY <1>2, <1>8 DEF Fits
  <2>2. CASE c.awaits = Op("eraseChannel", c.key, None)
    BY <1>8, <2>1, <2>2 DEF Op, StoreChannel, Read
  <2>3. CASE c.awaits = Op("removeMessages", c.key, None)
    BY <1>8, <2>1, <2>3 DEF Op, StoreChannel, Read
  <2>4. CASE c.awaits.do = "storeIdentity"
    BY <1>8, <2>1, <2>4 DEF Op, StoreChannel, Read
  <2> QED
    BY <2>1, <2>2, <2>3, <2>4
<1>9. CASE c.op = "removeIdentity"
  <2>1. c.awaits = Op("eraseIdentity", c.id, None)
    BY <1>2, <1>9 DEF Fits
  <2> QED
    BY <1>9, <2>1 DEF Op, StoreChannel, Read
<1>10. c.op \in {"idle", "create", "join", "feed", "receive", "removeChannel", "removeIdentity"}
  BY DEF CallType
<1> QED
  BY <1>3, <1>4, <1>5, <1>6, <1>7, <1>8, <1>9, <1>10

LEMMA ClosedStep ==
  ASSUME Types, NoClash, Closed, NEW s \in Slot, Moves(s), \A t \in Slot : t # s => call'[t] = call[t]
  PROVE  Closed'
<1> SUFFICES ASSUME NEW k \in Key \ overlapped'
             PROVE  /\ "next" \in messages'[k] => "root" \in messages'[k]
                    /\ \A t \in Slot : call'[t].op = "receive" /\ call'[t].key = k /\ call'[t].name = "next" => "root" \in messages'[k]
  BY DEF Closed
<1>1. CASE Starts(s)
  <2>1. k \in Key \ overlapped /\ messages'[k] = messages[k]
    BY <1>1 DEF Starts
  <2>2. /\ "next" \in messages[k] => "root" \in messages[k]
        /\ \A t \in Slot : call[t].op = "receive" /\ call[t].key = k /\ call[t].name = "next" => "root" \in messages[k]
    BY <2>1 DEF Closed
  <2>3. ASSUME NEW t \in Slot, call'[t].op = "receive" /\ call'[t].key = k /\ call'[t].name = "next"
        PROVE  "root" \in messages[k]
    <3>1. CASE t = s
      BY <1>1, <2>3, <3>1 DEF Starts
    <3>2. CASE t # s
      BY <2>2, <2>3, <3>2
    <3> QED
      BY <3>1, <3>2
  <2> QED
    BY <2>1, <2>2, <2>3
<1>2. CASE Waits(s)
  <2>1. k \in Key \ overlapped /\ messages'[k] = messages[k]
    BY <1>2 DEF Waits
  <2>2. \A t \in Slot : call'[t].op = "receive" => call'[t] = call[t]
    BY <1>2 DEF Waits
  <2> QED
    BY <2>1, <2>2 DEF Closed
<1>3. CASE Goes(s)
  <2>0. call[s] \in CallType /\ Fits(call[s])
    BY DEF Types, CallTypes
  <2>1. k \in Key \ overlapped /\ Awaiting(call[s]) /\ Fits(call[s])
    BY <1>3 DEF Goes, Types, CallTypes
  <2>2. /\ "next" \in messages[k] => "root" \in messages[k]
        /\ \A t \in Slot : call[t].op = "receive" /\ call[t].key = k /\ call[t].name = "next" => "root" \in messages[k]
    BY <2>1 DEF Closed
  <2>3. ASSUME NEW t \in Slot, call'[t].op = "receive" /\ call'[t].key = k /\ call'[t].name = "next"
        PROVE  call[t].op = "receive" /\ call[t].key = k /\ call[t].name = "next"
    <3>1. call'[t] # Idle
      BY <2>3, IdleType
    <3> QED
      BY <1>3, <2>3, <3>1, SameCall
  <2>4. CASE call[s].awaits.do = "addMessage" /\ call[s].awaits.key = k
    <3>1. messages'[k] = messages[k] \cup {call[s].awaits.data}
      BY <1>3, <2>4 DEF Goes
    <3>2. call[s].awaits.data = "next" => call[s].op = "receive" /\ call[s].key = k /\ call[s].name = "next"
      BY <2>0, <2>4, FitsOp
    <3> QED
      BY <2>2, <2>3, <3>1, <3>2
  <2>5. CASE call[s].awaits.do = "removeMessages" /\ call[s].awaits.key = k
    <3>1. messages'[k] = {}
      BY <1>3, <2>5 DEF Goes
    <3>2. call[s].op = "removeChannel" /\ call[s].key = k
      BY <2>0, <2>5, FitsOp
    <3>4. Removing(s, k)
      BY <2>1, <2>5, <3>2 DEF Removing
    <3>5. ASSUME NEW t \in Slot, call[t].op = "receive", call[t].key = k PROVE FALSE
      <4>1. call[t] \in CallType /\ Fits(call[t]) /\ t # s
        BY <3>2, <3>5 DEF Types, CallTypes
      <4>2. Awaiting(call[t])
        BY <3>5, <4>1, FitsOp
      <4> QED
        BY <2>1, <3>4, <3>5, <4>1, <4>2 DEF NoClash
    <3> QED
      BY <2>3, <3>1, <3>5
  <2>6. CASE messages'[k] = messages[k]
    BY <2>2, <2>3, <2>6
  <2> QED
    BY <1>3, <2>4, <2>5, <2>6 DEF Goes
<1> QED
  BY <1>1, <1>2, <1>3 DEF Moves

MessageInv == NoClash /\ Closed

LEMMA MessageInit == Init => MessageInv
<1> SUFFICES ASSUME Init PROVE MessageInv
  OBVIOUS
<1>1. (\A s \in Slot : call[s] = Idle) /\ \A k \in Key : messages[k] = {}
  BY DEF Init
<1> QED
  BY <1>1, IdleType DEF MessageInv, NoClash, Closed, Removing

LEMMA MessageNext == RegInv /\ RegInv' /\ MessageInv /\ [Next]_vars => MessageInv'
<1> SUFFICES ASSUME RegInv, RegInv', MessageInv, [Next]_vars PROVE MessageInv'
  OBVIOUS
<1>1. CASE Crash
  <2>1. (\A s \in Slot : call'[s] = Idle) /\ messages' = messages /\ overlapped' = overlapped
    BY <1>1 DEF Crash, disk
  <2> QED
    BY <2>1, IdleType DEF MessageInv, NoClash, Closed, Removing
<1>2. CASE Load
  <2>1. UNCHANGED <<call, messages, overlapped>>
    BY <1>2 DEF Load, disk, history
  <2> QED
    BY <2>1 DEF MessageInv, NoClash, Closed, Removing
<1>3. CASE \E s \in Slot : User(s) \/ Step(s)
  <2>1. PICK s \in Slot : User(s) \/ Step(s)
    BY <1>3
  <2>2. Moves(s) /\ \A t \in Slot : t # s => call'[t] = call[t]
    BY <2>1, CallMoves DEF RegInv
  <2> QED
    BY <2>2, ClashStep, ClosedStep DEF RegInv, MessageInv
<1>4. CASE UNCHANGED vars
  <2>1. UNCHANGED <<call, messages, overlapped>>
    BY <1>4 DEF vars, memory, disk, history
  <2> QED
    BY <2>1 DEF MessageInv, NoClash, Closed, Removing
<1> QED
  BY <1>1, <1>2, <1>3, <1>4 DEF Next

-----------------------------------------------------------------------------
(* What each step of a call does, beyond what it awaits *)

(* h operations take effect, which is that of call s, and a are added, by call s. *)
Shifted(s, h, a) ==
  /\ Turn(h, a) /\ (h = 1 => queue[1] = s) /\ (h = 0 => ~Awaiting(call[s]))
  /\ \A n \in 1..(Len(queue) - h) : queue'[n] = queue[n + h] /\ queue[n + h] # s
  /\ a = 1 => queue'[Len(queue')] = s

LEMMA ShiftedBegin ==
  ASSUME Types, Types', NEW s \in Slot, \A t \in Slot : t # s => call'[t] = call[t],
         ~Awaiting(call[s]), queue' = Append(queue, s), UNCHANGED disk
  PROVE  Shifted(s, 0, 1)
<1>1. Len(queue) \in Nat /\ Len(queue') = Len(queue) + 1 /\ queue'[Len(queue) + 1] = s
  BY AppendProperties DEF Types, Queued
<1>2. Len(queue) + 1 \in 1..Len(queue')
  BY <1>1
<1>3. Awaiting(call'[s])
  BY <1>1, <1>2 DEF Types, Queued
<1>4. /\ Turn(0, 1) /\ queue'[Len(queue')] = s
      /\ \A n \in 1..Len(queue) : queue'[n] = queue[n] /\ queue[n] # s
  BY <1>3, Enqueued DEF Types, CallTypes
<1>5. \A n \in 1..(Len(queue) - 0) : n \in 1..Len(queue) /\ n + 0 = n
  BY <1>1
<1> QED
  BY <1>4, <1>5 DEF Shifted

LEMMA ShiftedAwait ==
  ASSUME Types, Types', NEW s \in Slot, \A t \in Slot : t # s => call'[t] = call[t],
         NEW op, NEW step, Resume(s, op, step), queue' = Append(Tail(queue), s)
  PROVE  Shifted(s, 1, 1)
<1>1. queue \in Seq(Slot) /\ queue # << >>
  BY DEF Resume, Types, Queued
<1>2. PICK q \in Seq(Slot) : q = Tail(queue)
  BY <1>1, HeadTailProperties
<1>3. Len(q) \in Nat /\ Len(queue') = Len(q) + 1 /\ queue'[Len(q) + 1] = s
  BY <1>2, LenProperties, AppendProperties
<1>4. Len(q) + 1 \in 1..Len(queue')
  BY <1>3
<1>5. Awaiting(call'[s])
  BY <1>3, <1>4 DEF Types, Queued
<1>6. /\ Turn(1, 1) /\ Len(queue') = Len(queue) /\ queue'[Len(queue)] = s
      /\ \A n \in 1..(Len(queue) - 1) : queue'[n] = queue[n + 1] /\ queue[n + 1] # s
  BY <1>5, Awaited DEF Types, CallTypes
<1>7. queue[1] = s
  BY Resumed
<1> QED
  BY <1>6, <1>7 DEF Shifted

LEMMA ShiftedReturn ==
  ASSUME Types, NEW s \in Slot, NEW op, NEW step, Resume(s, op, step), Return(s)
  PROVE  Shifted(s, 1, 0)
BY Returned, Resumed DEF Shifted

LEMMA ShiftedRequest ==
  ASSUME Types, NEW s \in Slot, \A t \in Slot : t # s => call'[t] = call[t],
         call[s] = Idle, queue' = queue, UNCHANGED disk
  PROVE  Shifted(s, 0, 0)
<1>1. Len(queue) \in Nat /\ \A n \in 1..Len(queue) : queue[n] \in Slot /\ queue[n] # s
  BY OpsAt, IdleType DEF Types, Queued
<1>2. \A n \in 1..Len(queue) : Ops'[n] = Ops[n]
  BY <1>1 DEF Ops
<1>3. \A n \in 1..(Len(queue) - 0) : n \in 1..Len(queue) /\ n + 0 = n
  BY <1>1
<1>4. Turn(0, 0)
  BY <1>1, <1>2, <1>3 DEF Turn, disk
<1> QED
  BY <1>1, <1>3, <1>4, IdleType DEF Shifted

LEMMA CallShifts ==
  ASSUME Types, Types', NEW s \in Slot, User(s) \/ Step(s)
  PROVE  \E h, a \in {0, 1} : Shifted(s, h, a)
<1>0. \A t \in Slot : t # s => call'[t] = call[t]
  BY CallMoves
<1>1. ASSUME NEW c, NEW w, Begin(s, c, w) PROVE Shifted(s, 0, 1)
  BY <1>0, <1>1, IdleType, ShiftedBegin DEF Begin
<1>2. ASSUME NEW op, NEW step, Resume(s, op, step), Return(s) PROVE Shifted(s, 1, 0)
  BY <1>2, ShiftedReturn
<1>3. ASSUME NEW op, NEW step, Resume(s, op, step), queue' = Append(Tail(queue), s) PROVE Shifted(s, 1, 1)
  BY <1>0, <1>3, ShiftedAwait
<1>4. CASE \E i \in Own, name \in OwnName : Create(s, i, name)
  BY <1>1, <1>4 DEF Create
<1>5. CASE \E k \in Foreign, i \in Own, name \in ForeignName : Request(s, k, i, name)
  BY <1>0, <1>5, ShiftedRequest DEF Request
<1>6. CASE \E k \in Foreign, name \in ForeignName : Feed(s, k, name)
  BY <1>1, <1>6 DEF Feed
<1>7. CASE \E k \in Key : RemoveChannel(s, k)
  BY <1>1, <1>7 DEF RemoveChannel
<1>8. CASE \E i \in Own : RemoveIdentity(s, i)
  BY <1>1, <1>8 DEF RemoveIdentity
<1>9. CASE \E k \in Foreign, m \in {"root", "next"} : Receive(s, k, m)
  BY <1>1, <1>9 DEF Receive
<1>10. CASE CreateChannel(s) \/ Join(s)
  <2>1. PICK op : Resume(s, op, "begun")
    BY <1>10 DEF CreateChannel, Join
  <2>2. Return(s) \/ queue' = Append(Tail(queue), s)
    BY <1>10 DEF CreateChannel, Join, AddChannel, Throw, Await
  <2> QED
    BY <1>2, <1>3, <2>1, <2>2
<1>11. CASE CreateIdentity(s)
  <2>1. Resume(s, "create", "saved") /\ (Return(s) \/ queue' = Append(Tail(queue), s))
    BY <1>11 DEF CreateIdentity, Throw, Await
  <2> QED
    BY <1>2, <1>3, <2>1
<1>12. CASE Invited(s)
  <2>1. ~Awaiting(call[s]) /\ queue' = Append(queue, s) /\ UNCHANGED disk
    BY <1>12 DEF Invited, Awaiting
  <2> QED
    BY <1>0, <2>1, ShiftedBegin
<1>13. CASE Saved(s)
  BY <1>2, <1>13 DEF Saved
<1>14. CASE ForgetMessages(s)
  BY <1>3, <1>14 DEF ForgetMessages, Await
<1>15. CASE Cleanup(s)
  <2>1. Resume(s, "removeChannel", "cleanup") /\ (Return(s) \/ queue' = Append(Tail(queue), s))
    BY <1>15 DEF Cleanup
  <2> QED
    BY <1>2, <1>3, <2>1
<1>16. CASE ReadMore(s) \/ AddMessage(s)
  BY <1>3, <1>16 DEF ReadMore, AddMessage, Await
<1> QED
  BY <1>4, <1>5, <1>6, <1>7, <1>8, <1>9, <1>10, <1>11, <1>12, <1>13, <1>14, <1>15, <1>16 DEF User, Step

-----------------------------------------------------------------------------
(* What each step does to the call, the channels, the identities and their chains *)

Starting(s, op, k) ==
  /\ call[s] = Idle /\ call'[s].op = op /\ call'[s].key = k /\ call'[s].step = "begun" /\ call'[s].at = 1
Proceeding(s, step) ==
  /\ call'[s].op = call[s].op /\ call'[s].key = call[s].key /\ call'[s].id = call[s].id /\ call'[s].step = step
NewName(k) ==
  channels[k] = None /\ channels'[k] # None /\ \A j \in Key \ {k} : channels'[j] = channels[j]
NewChains(i, ch) == chains'[i] = ch /\ \A j \in Own \ {i} : chains'[j] = chains[j]

(* Identities that stay listed do not move towards the start of the list. *)
MovedUp == \A q \in 1..Len(identities) : \E r \in 1..Len(identities') : r >= q /\ identities'[r] = identities[q]

Creates(s) ==
  \E i \in Own : /\ Starting(s, "create", i) /\ call'[s].id = i /\ i \notin used /\ used' = used \cup {i}
                 /\ NewChains(i, {i}) /\ UNCHANGED <<channels, identities>>
Adds(s) ==
  /\ call[s].op \in {"create", "join"} /\ call[s].step = "begun" /\ call[s].key \in Key
  /\ UNCHANGED <<identities, chains, used>>
  /\ \/ call'[s] = Idle /\ channels' = channels /\ (call[s].key \in excused' \/ channels[call[s].key] # None)
     \/ Proceeding(s, "saved") /\ NewName(call[s].key)
Enlists(s) ==
  /\ call[s].op = "create" /\ call[s].step = "saved" /\ UNCHANGED <<channels, chains, used>>
  /\ \/ call'[s] = Idle /\ identities' = identities /\ call[s].key \in excused'
     \/ Proceeding(s, "done") /\ Listed' = Listed \cup {call[s].id} /\ MovedUp
Requests(s) ==
  /\ call[s] = Idle /\ call'[s].op = "join" /\ call'[s].step = "invited" /\ call'[s].id \in Listed
  /\ UNCHANGED <<channels, identities, chains, used>>
Invites(s) ==
  /\ call[s].op = "join" /\ call[s].step = "invited" /\ call[s].id \in Own /\ Proceeding(s, "begun")
  /\ NewChains(call[s].id, chains[call[s].id] \cup {call[s].key}) /\ UNCHANGED <<channels, identities, used>>
Feeds(s) ==
  \E k \in Foreign : Starting(s, "feed", k) /\ NewName(k) /\ UNCHANGED <<identities, chains, used>>
Ends(s) ==
  /\ call'[s] = Idle /\ UNCHANGED <<channels, identities, chains, used>>
  /\ \/ call[s].op = "join" /\ call[s].step = "saved"
     \/ call[s].op = "create" /\ call[s].step = "done"
     \/ call[s].op \in {"feed", "receive", "removeIdentity"}
Removes(s) ==
  \E k \in Key : /\ Starting(s, "removeChannel", k) /\ UNCHANGED <<identities, chains, used>>
                 /\ channels[k] # None /\ channels'[k] = None /\ \A j \in Key \ {k} : channels'[j] = channels[j]
Forgets(s) ==
  /\ call[s].op = "removeChannel" /\ call[s].step = "begun" /\ Proceeding(s, "cleanup")
  /\ call'[s].at = call[s].at /\ call'[s].awaits.do = "removeMessages"
  /\ UNCHANGED <<channels, identities, chains, used>>
HasNone(s, m) == m >= call[s].at => call[s].key \notin chains[identities[m]]
CleansUp(s) ==
  /\ call[s].op = "removeChannel" /\ call[s].step = "cleanup" /\ UNCHANGED <<channels, identities, used>>
  /\ \/ call'[s] = Idle /\ chains' = chains /\ \A m \in 1..Len(identities) : HasNone(s, m)
     \/ \E n \in 1..Len(identities) :
          /\ Proceeding(s, "cleanup") /\ call'[s].at = n + 1 /\ \A m \in 1..(n - 1) : HasNone(s, m)
          /\ NewChains(identities[n], chains[identities[n]] \ {call[s].key})
Drops(s) ==
  \E i \in Own : /\ Starting(s, "removeIdentity", None) /\ i \in gone' /\ Listed' = Listed \ {i}
                 /\ UNCHANGED <<channels, chains, used>>
Hears(s) ==
  /\ call'[s].op = "receive" /\ UNCHANGED <<channels, identities, chains, used>>
  /\ \/ call[s] = Idle /\ call'[s].key \in Key /\ channels[call'[s].key] # None
     \/ call[s].op = "receive" /\ call'[s].key = call[s].key

Does(s) ==
  \/ Creates(s) \/ Adds(s) \/ Enlists(s) \/ Requests(s) \/ Invites(s) \/ Feeds(s) \/ Ends(s) \/ Removes(s)
  \/ Forgets(s) \/ CleansUp(s) \/ Drops(s) \/ Hears(s)

LEMMA BeginStarts ==
  ASSUME Types, NEW s \in Slot, NEW op, NEW k, NEW i, NEW name, NEW w, Begin(s, Call(op, k, i, name), w)
  PROVE  /\ Starting(s, op, k) /\ call'[s].id = i
         /\ gone' = IF op = "removeIdentity" THEN gone \cup {i} ELSE gone
<1>1. PICK c : c = [Call(op, k, i, name) EXCEPT !.awaits = w]
  OBVIOUS
<1>2. c.op = op /\ c.key = k /\ c.id = i /\ c.step = "begun" /\ c.at = 1
  BY <1>1 DEF Call
<1>3. call[s] = Idle /\ call' = [call EXCEPT ![s] = c]
  BY <1>1 DEF Begin
<1>4. call'[s] = c
  BY <1>3 DEF Types, CallTypes
<1>5. gone' = IF op = "removeIdentity" THEN gone \cup {i} ELSE gone
  BY DEF Begin, Call
<1> QED
  BY <1>2, <1>3, <1>4, <1>5 DEF Starting

LEMMA AwaitProceeds ==
  ASSUME Types, NEW s \in Slot, NEW step, NEW w, Await(s, step, w)
  PROVE  Proceeding(s, step) /\ call'[s].at = call[s].at /\ call'[s].awaits = w
<1>1. PICK c : c = [call[s] EXCEPT !.step = step, !.awaits = w]
  OBVIOUS
<1>2. call' = [call EXCEPT ![s] = c] /\ call[s] \in CallType
  BY <1>1 DEF Await, Types, CallTypes
<1>3. c.op = call[s].op /\ c.key = call[s].key /\ c.id = call[s].id /\ c.step = step /\ c.at = call[s].at /\ c.awaits = w
  BY <1>1, <1>2 DEF CallType
<1>4. call'[s] = c
  BY <1>2 DEF Types, CallTypes
<1> QED
  BY <1>3, <1>4 DEF Proceeding

LEMMA ReturnIdle ==
  ASSUME Types, NEW s \in Slot, Return(s)
  PROVE  call'[s] = Idle
BY DEF Return, Types, CallTypes

LEMMA AddsStep ==
  ASSUME Types, NEW s \in Slot, CreateChannel(s) \/ Join(s)
  PROVE  Adds(s)
<1>1. PICK op \in {"create", "join"} : Resume(s, op, "begun") /\ AddChannel(s, call[s].key, call[s].name)
  BY DEF CreateChannel, Join
<1>2. /\ call[s].op = op /\ call[s].step = "begun" /\ UNCHANGED <<identities, chains, used>>
  BY <1>1, Resumed DEF CreateChannel, Join
<1>3. call[s].key \in Key /\ call[s].name \in Name
  <2>1. Fits(call[s]) /\ call[s].op # "idle"
    BY <1>1, <1>2 DEF Types, CallTypes
  <2> QED
    BY <1>2, <2>1, Constants, IdleType DEF Fits
<1>4. CASE Throw(s) /\ UNCHANGED channels
  <2>1. call'[s] = Idle /\ call[s].key \in excused'
    BY <1>4, ReturnIdle DEF Throw
  <2> QED
    BY <1>2, <1>3, <1>4, <2>1 DEF Adds
<1>5. CASE channels[call[s].key] # None /\ Return(s) /\ UNCHANGED channels
  BY <1>2, <1>3, <1>5, ReturnIdle DEF Adds
<1>6. CASE /\ channels[call[s].key] = None /\ channels' = [channels EXCEPT ![call[s].key] = call[s].name]
           /\ Await(s, "saved", StoreChannel(call[s].key, call[s].name))
  <2>1. Proceeding(s, "saved")
    BY <1>6, AwaitProceeds
  <2>2. NewName(call[s].key)
    BY <1>3, <1>6, Constants DEF NewName, Types, MemTypes
  <2> QED
    BY <1>2, <1>3, <2>1, <2>2 DEF Adds
<1> QED
  BY <1>1, <1>4, <1>5, <1>6 DEF AddChannel

LEMMA InsertMovesUp ==
  ASSUME Types, NEW i \in used, identities' = Insert(i)
  PROVE  MovedUp
<1> DEFINE q == identities
           before == {n \in DOMAIN q : idName[q[n]] <= idName[i]}
           p == IF before = {} THEN 1 ELSE 1 + CHOOSE n \in before : \A m \in before : m <= n
<1>1. q \in Seq(used) /\ Len(q) \in Nat /\ DOMAIN q = 1..Len(q)
  BY LenProperties DEF Types, MemTypes
<1>2. identities' = InsertAt(q, p, i)
  BY DEF Insert
<1>3. p \in 1..(Len(q) + 1)
  <2>1. CASE before = {}
    BY <1>1, <2>1
  <2>2. CASE before # {}
    <3> DEFINE g == CHOOSE n \in before : \A m \in before : m <= n
    <3>1. before \in SUBSET (1..Len(q)) /\ IsFiniteSet(1..Len(q))
      BY <1>1, FS_Interval
    <3>2. p = 1 + g
      BY <2>2
    <3> HIDE DEF p, before
    <3>3. before \in SUBSET Int /\ IsFiniteSet(before)
      <4>1. IsFiniteSet(before)
        BY <3>1, FS_Subset
      <4>2. 1..Len(q) \subseteq Int
        OBVIOUS
      <4> QED
        BY <3>1, <4>1, <4>2
    <3>4. g \in before
      BY <2>2, <3>3, MaximumExists
    <3> HIDE DEF g
    <3> QED
      BY <1>1, <3>1, <3>2, <3>4
  <2> QED
    BY <2>1, <2>2
<1> HIDE DEF p, q
<1>4. /\ Len(InsertAt(q, p, i)) = Len(q) + 1
      /\ \A n \in 1..(Len(q) + 1) : InsertAt(q, p, i)[n] = IF n < p THEN q[n] ELSE IF n = p THEN i ELSE q[n - 1]
  BY <1>1, <1>3, InsertAtSeq, SMTT(30)
<1>5. ASSUME NEW n \in 1..Len(q)
      PROVE  \E r \in 1..Len(identities') : r >= n /\ identities'[r] = q[n]
  <2>1. CASE n < p
    <3>1. n \in 1..(Len(q) + 1)
      BY <1>1
    <3> QED
      BY <1>2, <1>4, <2>1, <3>1
  <2>2. CASE ~(n < p)
    <3>1. n + 1 \in 1..(Len(q) + 1) /\ ~(n + 1 < p) /\ n + 1 # p /\ (n + 1) - 1 = n /\ n + 1 >= n
      BY <1>1, <1>3, <2>2
    <3> QED
      BY <1>2, <1>4, <3>1
  <2> QED
    BY <2>1, <2>2
<1> QED
  BY <1>5 DEF MovedUp, q

LEMMA EnlistsStep ==
  ASSUME Types, Lists, NEW s \in Slot, CreateIdentity(s)
  PROVE  Enlists(s)
<1>1. /\ Resume(s, "create", "saved") /\ UNCHANGED <<channels, chains>>
      /\ call[s].op = "create" /\ call[s].step = "saved" /\ used' = used /\ idName' = idName
  BY Resumed DEF CreateIdentity
<1>2. CASE Throw(s) /\ UNCHANGED identities
  BY <1>1, <1>2, ReturnIdle DEF Throw, Enlists
<1>3. CASE identities' = Insert(call[s].id) /\ Await(s, "done", StoreIdentity(call[s].id, chains[call[s].id]))
  <2>1. Known(call[s])
    BY DEF Lists, Born
  <2>2. call[s].id \in used /\ idName[call[s].id] # None /\ call[s].id \notin Listed
    BY <1>1, <2>1 DEF Known
  <2>3. Listed' = Listed \cup {call[s].id}
    BY <1>1, <1>3, <2>2, Inserted DEF Lists
  <2> QED
    BY <1>1, <1>3, <2>2, <2>3, InsertMovesUp, AwaitProceeds DEF Enlists
<1> QED
  BY <1>2, <1>3 DEF CreateIdentity

LEMMA InvitesStep ==
  ASSUME Types, NEW s \in Slot, Invited(s)
  PROVE  Invites(s)
<1>1. /\ call[s].step = "invited" /\ UNCHANGED <<channels, identities, used>>
  BY DEF Invited
<1>2. Fits(call[s]) /\ call[s] \in CallType
  BY DEF Types, CallTypes
<1>3. call[s].op = "join" /\ call[s].id \in Own
  BY <1>1, <1>2 DEF Fits, Idle, Call
<1>4. PICK i, ch, w : /\ i \in Own /\ i = call[s].id /\ ch = chains[i] \cup {call[s].key}
                      /\ chains' = [chains EXCEPT ![i] = ch]
                      /\ call' = [call EXCEPT ![s].step = "begun", ![s].awaits = w]
  BY <1>3 DEF Invited
<1>5. NewChains(i, ch)
  BY <1>4 DEF NewChains, Types, MemTypes
<1>6. Proceeding(s, "begun")
  <2>1. PICK c : c = [call[s] EXCEPT !.step = "begun", !.awaits = w]
    OBVIOUS
  <2>2. call' = [call EXCEPT ![s] = c]
    BY <1>4, <2>1
  <2>3. c.op = call[s].op /\ c.key = call[s].key /\ c.id = call[s].id /\ c.step = "begun"
    BY <1>2, <2>1 DEF CallType
  <2>4. call'[s] = c
    BY <2>2 DEF Types, CallTypes
  <2> QED
    BY <2>3, <2>4 DEF Proceeding
<1> QED
  BY <1>1, <1>3, <1>4, <1>5, <1>6 DEF Invites

LEMMA CleansUpStep ==
  ASSUME Types, NEW s \in Slot, Cleanup(s)
  PROVE  CleansUp(s)
<1>1. /\ Resume(s, "removeChannel", "cleanup") /\ UNCHANGED <<channels, identities>>
      /\ call[s].op = "removeChannel" /\ call[s].step = "cleanup" /\ used' = used /\ call[s] \in CallType
  BY Resumed DEF Cleanup, Types, CallTypes
<1>2. PICK k : k = call[s].key
  OBVIOUS
<1>3. /\ identities \in Seq(used) /\ used \subseteq Own /\ DOMAIN identities = 1..Len(identities) /\ Len(identities) \in Nat
      /\ chains \in [Own -> SUBSET Key] /\ call[s].at \in Nat
  BY <1>1, LenProperties DEF Types, MemTypes, CallType
<1> DEFINE left == {n \in DOMAIN identities : n >= call[s].at /\ k \in chains[identities[n]]}
<1>4. \A m \in 1..Len(identities) : m \in left \/ HasNone(s, m)
  BY <1>2, <1>3 DEF HasNone
<1>5. CASE left = {} /\ Return(s) /\ UNCHANGED chains
  <2>1. \A m \in 1..Len(identities) : HasNone(s, m)
    BY <1>4, <1>5
  <2> QED
    BY <1>1, <1>5, <2>1, ReturnIdle DEF CleansUp
<1>6. CASE left # {}
  <2> DEFINE g == CHOOSE n \in left : \A m \in left : n <= m
  <2>1. /\ chains' = [chains EXCEPT ![identities[g]] = RemoveChain(identities[g], k)]
        /\ call' = [call EXCEPT ![s].at = g + 1, ![s].awaits = StoreIdentity(identities[g], chains'[identities[g]])]
    BY <1>2, <1>6 DEF Cleanup
  <2>2. \E n \in left : \A m \in left : n <= m
    <3>1. left \in SUBSET Nat /\ left # {}
      BY <1>3, <1>6
    <3> HIDE DEF left
    <3> QED
      BY <3>1, MinProperty
  <2>3. g \in left /\ \A m \in left : g <= m
    BY <2>2
  <2>4. left \subseteq 1..Len(identities)
    BY <1>3
  <2> HIDE DEF left, g
  <2>5. PICK n \in 1..Len(identities) : n = g
    BY <2>3, <2>4
  <2>6. PICK i \in Own : i = identities[n]
    BY <1>3, ElementOfSeq
  <2>7. NewChains(i, chains[i] \ {k})
    BY <1>3, <2>1, <2>5, <2>6 DEF NewChains, RemoveChain
  <2>8. PICK c, w : c = [call[s] EXCEPT !.at = n + 1, !.awaits = w] /\ call' = [call EXCEPT ![s] = c]
    <3>1. PICK w : call' = [call EXCEPT ![s].at = n + 1, ![s].awaits = w]
      BY <2>1, <2>5
    <3> QED
      BY <3>1
  <2>9. c.op = call[s].op /\ c.key = call[s].key /\ c.id = call[s].id /\ c.step = call[s].step /\ c.at = n + 1
    BY <1>1, <2>8 DEF CallType
  <2>10. call'[s] = c
    BY <2>8 DEF Types, CallTypes
  <2>11. Proceeding(s, "cleanup") /\ call'[s].at = n + 1
    BY <1>1, <2>9, <2>10 DEF Proceeding
  <2>12. \A m \in 1..(n - 1) : HasNone(s, m)
    BY <1>3, <1>4, <2>3, <2>5
  <2> QED
    BY <1>1, <1>2, <2>6, <2>7, <2>11, <2>12 DEF CleansUp
<1> QED
  BY <1>2, <1>5, <1>6 DEF Cleanup

LEMMA CallDoes ==
  ASSUME Types, Lists, NEW s \in Slot, User(s) \/ Step(s)
  PROVE  Does(s)
<1>1. CASE \E i \in Own, name \in OwnName : Create(s, i, name)
  <2>1. PICK i \in Own, name \in OwnName : Create(s, i, name)
    BY <1>1
  <2>2. Starting(s, "create", i) /\ call'[s].id = i
    BY <2>1, BeginStarts DEF Create
  <2>3. NewChains(i, {i})
    BY <2>1 DEF Create, NewChains, Types, MemTypes
  <2> QED
    BY <2>1, <2>2, <2>3 DEF Create, Creates, Does
<1>2. CASE \E k \in Foreign, i \in Own, name \in ForeignName : Request(s, k, i, name)
  <2>1. PICK k \in Foreign, i \in Own, name \in ForeignName : Request(s, k, i, name)
    BY <1>2
  <2>2. PICK c : c = [Call("join", k, i, name) EXCEPT !.step = "invited"]
    OBVIOUS
  <2>3. c.op = "join" /\ c.step = "invited" /\ c.id = i
    BY <2>2 DEF Call
  <2>4. call'[s] = c
    BY <2>1, <2>2 DEF Request, Types, CallTypes
  <2> QED
    BY <2>1, <2>3, <2>4 DEF Request, Requests, Does
<1>3. CASE \E k \in Foreign, name \in ForeignName : Feed(s, k, name)
  <2>1. PICK k \in Foreign, name \in ForeignName : Feed(s, k, name)
    BY <1>3
  <2>2. Starting(s, "feed", k)
    BY <2>1, BeginStarts DEF Feed
  <2>3. NewName(k)
    BY <2>1, Constants DEF Feed, NewName, Types, MemTypes
  <2> QED
    BY <2>1, <2>2, <2>3 DEF Feed, Feeds, Does
<1>4. CASE \E k \in Key : RemoveChannel(s, k)
  <2>1. PICK k \in Key : RemoveChannel(s, k)
    BY <1>4
  <2>2. Starting(s, "removeChannel", k)
    BY <2>1, BeginStarts DEF RemoveChannel
  <2>3. channels[k] # None /\ channels'[k] = None /\ \A j \in Key \ {k} : channels'[j] = channels[j]
    BY <2>1 DEF RemoveChannel, Types, MemTypes
  <2> QED
    BY <2>1, <2>2, <2>3 DEF RemoveChannel, Removes, Does
<1>5. CASE \E i \in Own : RemoveIdentity(s, i)
  <2>1. PICK i \in Own : RemoveIdentity(s, i)
    BY <1>5
  <2>2. Starting(s, "removeIdentity", None) /\ i \in gone'
    BY <2>1, BeginStarts DEF RemoveIdentity
  <2>3. Listed' = Listed \ {i}
    BY <2>1, Removed DEF RemoveIdentity, Lists
  <2> QED
    BY <2>1, <2>2, <2>3 DEF RemoveIdentity, Drops, Does
<1>6. CASE \E k \in Foreign, m \in {"root", "next"} : Receive(s, k, m)
  <2>1. PICK k \in Foreign, m \in {"root", "next"} : Receive(s, k, m)
    BY <1>6
  <2>2. Starting(s, "receive", k)
    BY <2>1, BeginStarts DEF Receive
  <2> QED
    BY <2>1, <2>2, Constants DEF Receive, Starting, Hears, Does
<1>7. CASE CreateIdentity(s)
  BY <1>7, EnlistsStep DEF Does
<1>8. CASE Invited(s)
  BY <1>8, InvitesStep DEF Does
<1>9. CASE Cleanup(s)
  BY <1>9, CleansUpStep DEF Does
<1>10. CASE CreateChannel(s) \/ Join(s)
  BY <1>10, AddsStep DEF Does
<1>11. CASE Saved(s)
  <2>1. call'[s] = Idle /\ UNCHANGED <<channels, identities, chains>>
    BY <1>11, ReturnIdle DEF Saved
  <2>2. PICK op, step : /\ Resume(s, op, step)
                        /\ \/ op = "join" /\ step = "saved"
                           \/ op = "create" /\ step = "done"
                           \/ op \in {"feed", "receive", "removeIdentity"}
    BY <1>11 DEF Saved
  <2> QED
    BY <2>1, <2>2, Resumed DEF Ends, Does
<1>12. CASE ForgetMessages(s)
  <2>1. /\ Resume(s, "removeChannel", "begun") /\ Await(s, "cleanup", Op("removeMessages", call[s].key, None))
        /\ UNCHANGED <<channels, identities, chains>>
    BY <1>12 DEF ForgetMessages, Removals
  <2>2. call'[s].awaits.do = "removeMessages"
    BY <2>1, AwaitProceeds DEF Op
  <2> QED
    BY <2>1, <2>2, Resumed, AwaitProceeds DEF Forgets, Does
<1>13. CASE ReadMore(s) \/ AddMessage(s)
  <2>1. /\ Resume(s, "receive", "begun") /\ (\E step, w : Await(s, step, w))
        /\ UNCHANGED <<channels, identities, chains>>
    BY <1>13 DEF ReadMore, AddMessage
  <2> QED
    BY <2>1, Resumed, AwaitProceeds DEF Proceeding, Hears, Does
<1> QED
  BY <1>1, <1>2, <1>3, <1>4, <1>5, <1>6, <1>7, <1>8, <1>9, <1>10, <1>11, <1>12, <1>13 DEF User, Step

-----------------------------------------------------------------------------
(* What is left behind *)

Fine(k) == k \notin excused \cup overlapped

(* An identity that is being created has only the chain of its own channel, and is unknown *)
(* to other calls; its channel stays until the call ends.                                   *)
Making ==
  /\ \A s \in Slot : call[s].op = "create" /\ call[s].step # "done" =>
       chains[call[s].id] = {call[s].id} /\ \A t \in Slot : call[t].op = "join" => call[t].id # call[s].id
  /\ \A s \in Slot : call[s].op = "create" /\ call[s].step # "begun" /\ Fine(call[s].key) =>
       channels[call[s].key] # None
  /\ \A s \in Slot : call[s].op = "removeChannel" /\ call[s].step = "begun" => call[s].at = 1

(* Messages of a channel that does not exist are those of one that is being made or removed. *)
MessagesPass ==
  \A k \in Key : Fine(k) /\ Mem(k) = None =>
    /\ \A s \in Slot : ~(call[s].op = "receive" /\ call[s].key = k)
    /\ messages[k] # {} => \E s \in Slot :
         \/ call[s].op = "create" /\ call[s].key = k /\ call[s].step = "begun"
         \/ Removing(s, k) /\ (call[s].step = "begun" \/ call[s].awaits.do = "removeMessages")

(* Chains for a channel that does not exist: it is about to be added, its removal has just   *)
(* begun, or the loop over the identities will come to the one that has the chain.           *)
NotYet(k) ==
  \E s \in Slot : \/ call[s].op = "join" /\ call[s].key = k /\ call[s].step = "begun"
                  \/ Removing(s, k) /\ call[s].step = "begun"
Cleaning(p, k) == p \in 1..Len(queue) /\ Removing(queue[p], k) /\ call[queue[p]].step = "cleanup"
Ahead(p, i) == \E q \in 1..Len(identities) : q >= call[queue[p]].at /\ identities[q] = i
ChainsPass ==
  \A k \in Key, i \in Listed \ usedGone : Fine(k) /\ Mem(k) = None /\ k \in chains[i] =>
    NotYet(k) \/ \E p \in Nat : Cleaning(p, k) /\ Ahead(p, i)

(* The same for what the storage will have for an identity after n operations. *)
RecordsPass ==
  \A k \in Key, i \in Own \ usedGone, n \in 0..Len(queue), v \in Data :
    Fine(k) /\ Mem(k) = None /\ IdAt(i, n, v) /\ k \in v.chains =>
      NotYet(k) \/ \E p \in Nat : Cleaning(p, k) /\ (n < p \/ (Ahead(p, i) /\ k \in chains[i]))

LeftInv == Making /\ MessagesPass /\ ChainsPass /\ RecordsPass

(* A step of a call, and all that is known before and after it. *)
Stepping(s) ==
  /\ Types /\ Lists /\ NoClash /\ Types' /\ NoClash' /\ Does(s) /\ Moves(s)
  /\ up = "yes" /\ up' = "yes" /\ \A t \in Slot : t # s => call'[t] = call[t]
  /\ excused \subseteq excused' /\ overlapped \subseteq overlapped' /\ usedGone \subseteq usedGone'

(* How channels come and go. *)
LEMMA ChannelComes ==
  ASSUME NEW s \in Slot, Stepping(s), NEW k \in Key, channels[k] = None, channels'[k] # None
  PROVE  /\ call'[s].key = k
         /\ \/ call[s] = Idle /\ k \in Foreign
            \/ call[s].op \in {"create", "join"} /\ call[s].key = k /\ call[s].step = "begun" /\ Proceeding(s, "saved")
BY DEF Stepping, Does, Creates, Adds, Enlists, Requests, Invites,
       Feeds, Ends, Removes, Forgets, CleansUp, Drops, Hears, NewName, Proceeding, Starting

LEMMA ChannelGoes ==
  ASSUME NEW s \in Slot, Stepping(s), NEW k \in Key, channels[k] # None, channels'[k] = None
  PROVE  /\ Starting(s, "removeChannel", k) /\ UNCHANGED <<identities, chains, used>>
         /\ \A t \in Slot : t # s /\ Awaiting(call[t]) /\ Fine(k)' => call[t].key # k
<1>1. Starting(s, "removeChannel", k) /\ UNCHANGED <<identities, chains, used>>
  BY DEF Stepping, Does, Creates, Adds, Enlists, Requests, Invites,
         Feeds, Ends, Removes, Forgets, CleansUp, Drops, Hears, NewName, Starting
<1>2. Removing(s, k)'
  BY <1>1 DEF Removing, Starting
<1>3. ASSUME NEW t \in Slot, t # s, Awaiting(call[t]), Fine(k)' PROVE call[t].key # k
  BY <1>2, <1>3 DEF Stepping, NoClash, Fine
<1> QED
  BY <1>1, <1>3

LEMMA MakingStep ==
  ASSUME NEW s \in Slot, Stepping(s), Making
  PROVE  Making'
<1>1. ASSUME NEW t \in Slot PROVE Known(call[t]) /\ Fits(call[t]) /\ Fits(call'[t])
  BY DEF Stepping, Lists, Born, Types, CallTypes
<1>2. Listed \subseteq used /\ used \subseteq Own /\ (\A n \in 1..Len(identities) : identities[n] \in Listed)
  <2>1. DOMAIN identities = 1..Len(identities)
    BY LenProperties DEF Stepping, Types, MemTypes
  <2> QED
    BY <2>1 DEF Stepping, Lists, Listing, Types, MemTypes, Listed, ToSet
<1>3. ASSUME NEW t \in Slot, call'[t].op = "create", call'[t].step # "done"
      PROVE  chains'[call'[t].id] = {call'[t].id} /\ \A u \in Slot : call'[u].op = "join" => call'[u].id # call'[t].id
  <2>1. CASE Creates(s) /\ t = s
    <3>1. call'[s].id \notin used /\ chains'[call'[s].id] = {call'[s].id} /\ call'[s].op # "join"
      BY <2>1 DEF Creates, Starting, NewChains
    <3> QED
      BY <1>1, <2>1, <3>1 DEF Stepping, Known
  <2>2. CASE ~(Creates(s) /\ t = s)
    <3>1. call[t].op = "create" /\ call[t].step # "done" /\ call'[t].id = call[t].id
      BY <1>3, <2>2, IdleType DEF Stepping, Does, Creates, Adds, Enlists, Requests, Invites,
           Feeds, Ends, Removes, Forgets, CleansUp, Drops, Hears, NewName, Starting, Proceeding
    <3>2. PICK i \in Own : i = call[t].id /\ i \in used /\ i \notin Listed
      BY <1>1, <1>2, <3>1 DEF Known
    <3>3. chains[i] = {i} /\ \A u \in Slot : call[u].op = "join" => call[u].id # i
      BY <3>1, <3>2 DEF Making
    <3>4. chains'[i] = chains[i]
      BY <1>2, <3>2, <3>3 DEF Stepping, Does, Creates, Adds, Enlists, Requests, Invites,
           Feeds, Ends, Removes, Forgets, CleansUp, Drops, Hears, NewChains
    <3>5. ASSUME NEW u \in Slot, call'[u].op = "join" PROVE call'[u].id # i
      <4>1. \/ call[u].op = "join" /\ call'[u].id = call[u].id
            \/ call'[u].id \in Listed
        BY <3>5, IdleType DEF Stepping, Does, Creates, Adds, Enlists, Requests, Invites,
           Feeds, Ends, Removes, Forgets, CleansUp, Drops, Hears, Starting, Proceeding
      <4> QED
        BY <3>2, <3>3, <4>1
    <3> QED
      BY <3>1, <3>2, <3>3, <3>4, <3>5
  <2> QED
    BY <2>1, <2>2
<1>4. ASSUME NEW t \in Slot, call'[t].op = "create", call'[t].step # "begun", Fine(call[t].key)'
      PROVE  channels'[call'[t].key] # None
  <2>1. call'[t].key \in Key
    BY <1>1, <1>4, Constants, IdleType DEF Fits
  <2>2. CASE t = s /\ call[s].step = "begun"
    BY <1>4, <2>2, IdleType DEF Stepping, Does, Creates, Adds, Enlists, Requests, Invites,
           Feeds, Ends, Removes, Forgets, CleansUp, Drops, Hears, Starting, Proceeding, NewName
  <2>3. CASE ~(t = s /\ call[s].step = "begun")
    <3>1. call[t].op = "create" /\ call[t].step # "begun" /\ call[t].key = call'[t].key
      BY <1>4, <2>3, IdleType DEF Stepping, Does, Creates, Adds, Enlists, Requests, Invites,
           Feeds, Ends, Removes, Forgets, CleansUp, Drops, Hears, Starting, Proceeding
    <3>2. channels[call[t].key] # None
      BY <1>4, <3>1 DEF Making, Fine, Stepping
    <3>3. Awaiting(call[t])
      BY <1>1, <3>1, IdleType DEF Fits, Awaiting
    <3>4. CASE channels'[call[t].key] = None
      <4>1. Starting(s, "removeChannel", call[t].key) /\ (t # s => call[t].key # call[t].key)
        BY <1>4, <2>1, <3>1, <3>2, <3>3, <3>4, ChannelGoes
      <4> QED
        BY <1>4, <4>1 DEF Starting
    <3> QED
      BY <3>1, <3>4
  <2> QED
    BY <2>2, <2>3
<1>5. ASSUME NEW t \in Slot, call'[t].op = "removeChannel", call'[t].step = "begun"
      PROVE  call'[t].at = 1
  <2>1. CASE t # s
    BY <1>5, <2>1 DEF Making, Stepping
  <2>2. CASE t = s
    BY <1>5, <2>2, IdleType DEF Stepping, Does, Creates, Adds, Enlists, Requests, Invites,
           Feeds, Ends, Removes, Forgets, CleansUp, Drops, Hears, Starting, Proceeding
  <2> QED
    BY <2>1, <2>2
<1> QED
  BY <1>3, <1>4, <1>5 DEF Making

(* The operations that write messages, a channel or an identity come from calls about it. *)
LEMMA OpCalls ==
  ASSUME NEW c \in CallType, Fits(c)
  PROVE  /\ c.awaits.do = "addMessage" =>
              /\ c.awaits.key = c.key
              /\ (c.op = "create" /\ c.step = "begun") \/ c.op = "receive"
         /\ c.awaits.do \in ChannelOps => c.awaits.key = c.key
<1>1. CASE c.op = "idle"
  BY <1>1, FitsOp DEF Fits, Idle, Call, Op, Read, ChannelOps
<1>2. CASE c.op = "create"
  <2>1. \/ c.step = "begun" /\ c.awaits = Op("addMessage", c.key, "root")
        \/ c.awaits = StoreChannel(c.key, c.name)
        \/ c.awaits.do = "storeIdentity"
    BY <1>2, IdleType DEF Fits
  <2> QED
    BY <1>2, <2>1 DEF Op, StoreChannel, ChannelOps
<1>3. CASE c.op = "join"
  <2>1. c.awaits = Read \/ c.awaits.do = "storeIdentity" \/ c.awaits = StoreChannel(c.key, c.name)
    BY <1>3, IdleType DEF Fits
  <2> QED
    BY <2>1 DEF Op, StoreChannel, ChannelOps, Read
<1>4. CASE c.op = "feed"
  <2>1. c.awaits = StoreChannel(c.key, c.name)
    BY <1>4, IdleType DEF Fits
  <2> QED
    BY <2>1 DEF Op, StoreChannel, ChannelOps
<1>5. CASE c.op = "receive"
  <2>1. c.awaits = Read \/ c.awaits = Op("addMessage", c.key, c.name)
    BY <1>5, IdleType DEF Fits
  <2> QED
    BY <1>5, <2>1 DEF Op, ChannelOps, Read
<1>6. CASE c.op = "removeChannel"
  <2>1. \/ c.awaits = Op("eraseChannel", c.key, None) \/ c.awaits = Op("removeMessages", c.key, None)
        \/ c.awaits.do = "storeIdentity"
    BY <1>6, IdleType DEF Fits
  <2> QED
    BY <2>1 DEF Op, ChannelOps
<1>7. CASE c.op = "removeIdentity"
  <2>1. c.awaits = Op("eraseIdentity", c.id, None)
    BY <1>7, IdleType DEF Fits
  <2> QED
    BY <2>1 DEF Op, ChannelOps
<1>8. c.op \in {"idle", "create", "join", "feed", "receive", "removeChannel", "removeIdentity"}
  BY DEF CallType
<1> QED
  BY <1>1, <1>2, <1>3, <1>4, <1>5, <1>6, <1>7, <1>8

LEMMA MessagesStep ==
  ASSUME NEW s \in Slot, Stepping(s), MessagesPass
  PROVE  MessagesPass'
<1> SUFFICES ASSUME NEW k \in Key, Fine(k)', channels'[k] = None
             PROVE  /\ \A t \in Slot : ~(call'[t].op = "receive" /\ call'[t].key = k)
                    /\ messages'[k] # {} => \E t \in Slot :
                         \/ call'[t].op = "create" /\ call'[t].key = k /\ call'[t].step = "begun"
                         \/ Removing(t, k)' /\ (call'[t].step = "begun" \/ call'[t].awaits.do = "removeMessages")
  BY DEF MessagesPass, Mem, Stepping
<1>1. ASSUME NEW t \in Slot PROVE call[t] \in CallType /\ Fits(call[t])
  BY DEF Stepping, Types, CallTypes
<1>2. /\ \A t \in Slot : t # s => call'[t] = call[t]
      /\ Fine(k)
  BY DEF Stepping, Fine
<1>3. messages'[k] = messages[k] \/ Goes(s)
  BY DEF Stepping, Moves, Starts, Waits
<1>4. CASE channels[k] # None
  <2>1. /\ Starting(s, "removeChannel", k)
        /\ \A t \in Slot : t # s /\ Awaiting(call[t]) => call[t].key # k
    BY <1>4, ChannelGoes
  <2>2. ASSUME NEW t \in Slot, call'[t].op = "receive", call'[t].key = k PROVE FALSE
    <3>1. t # s
      BY <2>1, <2>2 DEF Starting
    <3>2. Awaiting(call[t])
      BY <1>1, <1>2, <2>2, <3>1, FitsOp
    <3> QED
      BY <1>2, <2>1, <2>2, <3>1, <3>2
  <2>3. Removing(s, k)' /\ call'[s].step = "begun"
    BY <2>1 DEF Starting, Removing
  <2> QED
    BY <2>2, <2>3
<1>5. CASE channels[k] = None
  <2>1. /\ \A t \in Slot : ~(call[t].op = "receive" /\ call[t].key = k)
        /\ messages[k] # {} => \E t \in Slot :
             \/ call[t].op = "create" /\ call[t].key = k /\ call[t].step = "begun"
             \/ Removing(t, k) /\ (call[t].step = "begun" \/ call[t].awaits.do = "removeMessages")
    BY <1>2, <1>5 DEF MessagesPass, Mem, Stepping
  <2>2. ASSUME NEW t \in Slot, call'[t].op = "receive", call'[t].key = k PROVE FALSE
    <3>1. t = s
      BY <1>2, <2>1, <2>2
    <3> QED
      BY <1>5, <2>1, <2>2, <3>1, IdleType DEF Stepping, Does, Creates, Adds, Enlists, Requests, Invites,
           Feeds, Ends, Removes, Forgets, CleansUp, Drops, Hears, Starting, Proceeding
  <2>3. ~(call[s].op = "create" /\ call[s].key = k /\ call[s].step = "begun")
    <3> SUFFICES ASSUME call[s].op = "create", call[s].key = k, call[s].step = "begun" PROVE FALSE
      OBVIOUS
    <3>1. Adds(s)
      BY IdleType DEF Stepping, Does, Creates, Adds, Enlists, Requests, Invites,
           Feeds, Ends, Removes, Forgets, CleansUp, Drops, Hears, Starting, Proceeding
    <3> QED
      BY <1>5, <3>1 DEF Adds, NewName, Fine
  <2>4. ASSUME messages'[k] # {}
        PROVE  \E t \in Slot :
                 \/ call'[t].op = "create" /\ call'[t].key = k /\ call'[t].step = "begun"
                 \/ Removing(t, k)' /\ (call'[t].step = "begun" \/ call'[t].awaits.do = "removeMessages")
    <3>1. messages[k] # {}
      <4>1. CASE Goes(s) /\ call[s].awaits.do = "addMessage" /\ call[s].awaits.key = k
        <5>1. call[s].key = k /\ ((call[s].op = "create" /\ call[s].step = "begun") \/ call[s].op = "receive")
          BY <1>1, <4>1, OpCalls
        <5> QED
          BY <2>1, <2>3, <5>1
      <4>2. CASE Goes(s) /\ ~(call[s].awaits.do = "addMessage" /\ call[s].awaits.key = k)
        BY <2>4, <4>2 DEF Goes
      <4> QED
        BY <1>3, <2>4, <4>1, <4>2
    <3>2. PICK t \in Slot : \/ call[t].op = "create" /\ call[t].key = k /\ call[t].step = "begun"
                            \/ Removing(t, k) /\ (call[t].step = "begun" \/ call[t].awaits.do = "removeMessages")
      BY <2>1, <3>1
    <3>3. CASE t # s
      BY <1>2, <3>2, <3>3 DEF Removing
    <3>4. CASE t = s
      <4>1. Removing(s, k) /\ (call[s].step = "begun" \/ call[s].awaits.do = "removeMessages")
        BY <2>3, <3>2, <3>4
      <4>2. CASE call[s].step = "begun"
        <5>1. Forgets(s)
          BY <4>1, <4>2, IdleType DEF Stepping, Does, Creates, Adds, Enlists, Requests, Invites,
             Feeds, Ends, Removes, Forgets, CleansUp, Drops, Hears, Starting, Proceeding, Removing
        <5> QED
          BY <4>1, <5>1 DEF Forgets, Removing, Proceeding
      <4>3. CASE call[s].awaits.do = "removeMessages"
        <5>1. Awaiting(call[s]) /\ call[s].awaits.key = k
          <6>1. call[s].awaits.key = k
            BY <1>1, <4>1, <4>3, FitsOp DEF Removing
          <6>2. call[s].step # "invited"
            BY <1>1, <4>1, IdleType DEF Fits, Removing
          <6> QED
            BY <4>1, <6>1, <6>2 DEF Removing, Awaiting
        <5>2. Goes(s)
          <6>1. call[s].op # "join" /\ call[s] # Idle
            BY <4>1, IdleType DEF Removing
          <6>2. ~Requests(s)
            BY <6>1 DEF Requests
          <6>3. ~Waits(s)
            BY <6>1, IdleType DEF Waits, Stepping, Does, Creates, Adds, Enlists, Requests, Invites,
               Feeds, Ends, Removes, Forgets, CleansUp, Drops, Hears, Starting, Proceeding
          <6> QED
            BY <5>1, <6>3 DEF Stepping, Moves, Starts
        <5>3. messages'[k] = {}
          BY <4>3, <5>1, <5>2 DEF Goes
        <5> QED
          BY <2>4, <5>3
      <4> QED
        BY <4>1, <4>2, <4>3
    <3> QED
      BY <3>3, <3>4
  <2> QED
    BY <2>2, <2>4
<1> QED
  BY <1>4, <1>5

(* A call that awaits the storage after its step is the last in the queue. *)
LEMMA AwaitsLast ==
  ASSUME NEW s \in Slot, Types, Types', NEW h \in {0, 1}, NEW a \in {0, 1}, Shifted(s, h, a), Awaiting(call'[s])
  PROVE  Len(queue') \in Nat \ {0} /\ queue'[Len(queue')] = s
<1>1. PICK n \in 1..Len(queue') : queue'[n] = s
  BY DEF Types, Queued
<1>2. Len(queue) \in Nat /\ h <= Len(queue) /\ Len(queue') = Len(queue) - h + a
  BY DEF Shifted, Turn
<1>3. a = 1
  <2>1. CASE a = 0
    <3>1. n \in 1..(Len(queue) - h)
      BY <1>2, <2>1
    <3>2. queue'[n] = queue[n + h] /\ queue[n + h] # s
      BY <3>1 DEF Shifted
    <3> QED
      BY <1>1, <3>2
  <2> QED
    BY <2>1
<1> QED
  BY <1>2, <1>3 DEF Shifted

LEMMA CleaningMoves ==
  ASSUME NEW s \in Slot, Stepping(s), NEW h \in {0, 1}, NEW a \in {0, 1}, Shifted(s, h, a),
         NEW k \in Key, NEW p \in Nat, Cleaning(p, k), queue[p] # s
  PROVE  p - h \in Nat /\ queue'[p - h] = queue[p] /\ call'[queue[p]] = call[queue[p]] /\ Cleaning(p - h, k)'
<1>1. Len(queue) \in Nat /\ h <= Len(queue) /\ Len(queue') = Len(queue) - h + a /\ p \in 1..Len(queue)
  BY DEF Shifted, Turn, Cleaning
<1>2. queue[p] \in Slot
  BY <1>1, OpsAt DEF Stepping
<1>3. p - h \in 1..(Len(queue) - h) /\ p - h \in 1..Len(queue') /\ (p - h) + h = p
  <2>1. h = 1 => p # 1
    BY DEF Shifted
  <2>2. CASE h = 0
    BY <1>1, <2>2
  <2>3. CASE h = 1
    BY <1>1, <2>1, <2>3
  <2> QED
    BY <2>2, <2>3
<1>4. queue'[p - h] = queue[p]
  BY <1>3 DEF Shifted
<1>5. call'[queue[p]] = call[queue[p]]
  BY <1>2 DEF Stepping
<1> QED
  BY <1>3, <1>4, <1>5 DEF Cleaning, Removing

(* The call that removes the channel is at its turn. *)
LEMMA CleaningTurn ==
  ASSUME NEW s \in Slot, Stepping(s), NEW h \in {0, 1}, NEW a \in {0, 1}, Shifted(s, h, a),
         NEW k \in Key, NEW p \in Nat, Cleaning(p, k), queue[p] = s
  PROVE  h = 1 /\ p = 1 /\ CleansUp(s) /\ call[s].key = k
<1>1. p \in 1..Len(queue) /\ call[s].op = "removeChannel" /\ call[s].step = "cleanup" /\ call[s].key = k
  BY DEF Cleaning, Removing
<1>2. Awaiting(call[s])
  BY <1>1 DEF Awaiting
<1>3. h = 1 /\ queue[1] = s
  BY <1>2 DEF Shifted
<1>4. p = 1
  <2>1. 1 \in 1..Len(queue)
    BY <1>1, LenProperties DEF Stepping, Types, Queued
  <2> QED
    BY <1>1, <1>3, <2>1 DEF Stepping, Types, Queued
<1>5. CleansUp(s)
  BY <1>1, IdleType DEF Stepping, Does, Creates, Adds, Enlists, Requests, Invites,
     Feeds, Ends, Removes, Forgets, CleansUp, Drops, Hears, Starting, Proceeding
<1> QED
  BY <1>1, <1>3, <1>4, <1>5

LEMMA NotYetStep ==
  ASSUME NEW s \in Slot, Stepping(s), Making, NEW h \in {0, 1}, NEW a \in {0, 1}, Shifted(s, h, a),
         NEW k \in Key, Fine(k)', channels'[k] = None, NotYet(k)
  PROVE  \/ NotYet(k)'
         \/ Cleaning(Len(queue), k)' /\ call'[queue'[Len(queue')]].at = 1 /\ Len(queue') \in Nat
<1>1. PICK t \in Slot : \/ call[t].op = "join" /\ call[t].key = k /\ call[t].step = "begun"
                        \/ Removing(t, k) /\ call[t].step = "begun"
  BY DEF NotYet
<1>2. CASE t # s
  <2>1. call'[t] = call[t]
    BY <1>2 DEF Stepping
  <2> QED
    BY <1>1, <2>1 DEF NotYet, Removing
<1>3. CASE t = s /\ call[s].op = "join"
  <2>1. Adds(s)
    BY <1>1, <1>3, IdleType DEF Removing, Stepping, Does, Creates, Adds, Enlists, Requests, Invites,
     Feeds, Ends, Removes, Forgets, CleansUp, Drops, Hears, Starting, Proceeding
  <2> QED
    BY <1>1, <1>3, <2>1 DEF Adds, NewName, Fine, Removing
<1>4. CASE t = s /\ Removing(s, k)
  <2>1. Forgets(s)
    BY <1>1, <1>4, IdleType DEF Removing, Stepping, Does, Creates, Adds, Enlists, Requests, Invites,
     Feeds, Ends, Removes, Forgets, CleansUp, Drops, Hears, Starting, Proceeding
  <2>2. call'[s].op = "removeChannel" /\ call'[s].key = k /\ call'[s].step = "cleanup" /\ call'[s].at = 1
    BY <1>4, <2>1 DEF Forgets, Proceeding, Removing, Making
  <2>3. Len(queue') \in Nat \ {0} /\ queue'[Len(queue')] = s
    BY <2>2, AwaitsLast DEF Awaiting, Stepping
  <2> QED
    BY <2>2, <2>3 DEF Cleaning, Removing
<1> QED
  BY <1>1, <1>2, <1>3, <1>4 DEF Removing

LEMMA InList ==
  ASSUME Types, Lists
  PROVE  /\ Listed \subseteq used /\ used \subseteq Own /\ \A n \in 1..Len(identities) : identities[n] \in Listed
         /\ \A i \in Listed : \E n \in 1..Len(identities) : identities[n] = i
<1>1. DOMAIN identities = 1..Len(identities)
  BY LenProperties DEF Types, MemTypes
<1> QED
  BY <1>1 DEF Lists, Listing, Types, MemTypes, Listed, ToSet

(* The loop of another call misses no identity, and no other call takes its chain. *)
LEMMA AheadStays ==
  ASSUME NEW s \in Slot, Stepping(s), NEW h \in {0, 1}, NEW a \in {0, 1}, Shifted(s, h, a),
         NEW k \in Key, Fine(k)', NEW p \in Nat, Cleaning(p, k), queue[p] # s, NEW i, Ahead(p, i)
  PROVE  Ahead(p - h, i)' /\ (k \in chains[i] => k \in chains'[i])
<1>1. p - h \in Nat /\ queue'[p - h] = queue[p] /\ call'[queue[p]] = call[queue[p]] /\ Cleaning(p - h, k)'
  BY CleaningMoves
<1>2. PICK t \in Slot : t = queue[p]
  BY OpsAt DEF Cleaning, Stepping
<1>3. ~(Awaiting(call'[s]) /\ (call'[s].key = k \/ call'[s].op = "removeIdentity"))
  <2>1. Removing(t, k)' /\ t # s
    BY <1>1, <1>2 DEF Cleaning, Removing
  <2> QED
    BY <1>2, <2>1 DEF Stepping, NoClash, Fine
<1>4. Len(identities) \in Nat
  BY LenProperties DEF Stepping, Types, MemTypes
<1>5. PICK q \in 1..Len(identities) : q >= call[queue[p]].at /\ identities[q] = i
  BY DEF Ahead
<1>6. MovedUp
  <2>1. CASE identities' = identities
    BY <1>4, <2>1 DEF MovedUp
  <2>2. CASE identities' # identities
    BY <1>3, <2>2 DEF Stepping, Does, Creates, Adds, Enlists, Requests, Invites,
       Feeds, Ends, Removes, Forgets, CleansUp, Drops, Hears, Starting, Awaiting
  <2> QED
    BY <2>1, <2>2
<1>7. Ahead(p - h, i)'
  <2>1. PICK r \in 1..Len(identities') : r >= q /\ identities'[r] = identities[q]
    BY <1>6 DEF MovedUp
  <2>2. Len(identities') \in Nat /\ call[queue[p]].at \in Nat
    BY <1>2, LenProperties DEF Stepping, Types, MemTypes, CallTypes, CallType
  <2>3. r >= call'[queue'[p - h]].at
    BY <1>1, <1>4, <1>5, <2>1, <2>2
  <2> QED
    BY <1>5, <2>1, <2>3 DEF Ahead
<1>8. ASSUME k \in chains[i] PROVE k \in chains'[i]
  <2>1. i \in Listed /\ i \in used /\ i \in Own
    BY <1>5, InList DEF Stepping
  <2>2. ~Removing(s, k)
    <3>1. Removing(queue[p], k) /\ Fine(k)
      BY DEF Cleaning, Fine, Stepping
    <3>2. Awaiting(call[queue[p]])
      BY <3>1 DEF Cleaning, Removing, Awaiting
    <3> QED
      BY <1>2, <3>1, <3>2 DEF Stepping, NoClash, Fine, Removing
  <2> QED
    BY <1>8, <2>1, <2>2 DEF Stepping, Does, Creates, Adds, Enlists, Requests, Invites,
       Feeds, Ends, Removes, Forgets, CleansUp, Drops, Hears, NewChains, Removing
<1> QED
  BY <1>7, <1>8

LEMMA ChainsStep ==
  ASSUME NEW s \in Slot, Stepping(s), Lists', Making, ChainsPass, NEW h \in {0, 1}, NEW a \in {0, 1}, Shifted(s, h, a)
  PROVE  ChainsPass'
<1> SUFFICES ASSUME NEW k \in Key, NEW i \in Listed' \ usedGone', Fine(k)', channels'[k] = None, k \in chains'[i]
             PROVE  NotYet(k)' \/ \E p \in Nat : Cleaning(p, k)' /\ Ahead(p, i)'
  BY DEF ChainsPass, Mem, Stepping
<1>1. Fine(k) /\ i \notin usedGone
  BY DEF Stepping, Fine
<1>2. CASE channels[k] # None
  BY <1>2, ChannelGoes DEF Starting, NotYet, Removing
<1>3. CASE channels[k] = None /\ (k \notin chains[i] \/ i \notin Listed)
  <2>1. Listed \subseteq used /\ used \subseteq Own /\ \A n \in 1..Len(identities) : identities[n] \in Listed
    BY InList DEF Stepping
  <2>2. ~Enlists(s)
    <3> SUFFICES ASSUME Enlists(s) PROVE FALSE
      OBVIOUS
    <3>1. chains' = chains /\ i \notin Listed /\ Listed' = Listed \cup {call[s].id}
      BY <1>3 DEF Enlists, Listed
    <3>2. i = call[s].id /\ call[s].op = "create" /\ call[s].step = "saved"
      BY <3>1 DEF Enlists
    <3>3. k = i /\ call[s].key = i
      <4>1. chains[i] = {i}
        BY <3>2 DEF Making
      <4>2. Fits(call[s])
        BY DEF Stepping, Types, CallTypes
      <4> QED
        BY <3>1, <3>2, <4>1, <4>2, IdleType DEF Fits
    <3> QED
      BY <1>1, <1>3, <3>2, <3>3 DEF Making
  <2>3. CASE Invites(s)
    <3>1. chains'[call[s].id] = chains[call[s].id] \cup {call[s].key} /\ \A j \in Own \ {call[s].id} : chains'[j] = chains[j]
      BY <2>3 DEF Invites, NewChains
    <3>2. i \in Listed
      BY <2>3 DEF Invites, Listed
    <3>3. k = call[s].key
      BY <1>3, <2>1, <3>1, <3>2
    <3> QED
      BY <2>3, <3>3 DEF Invites, Proceeding, NotYet
  <2>4. CASE ~Invites(s)
    <3>1. CASE Creates(s)
      <4>1. i \in Listed
        BY <3>1 DEF Creates, Listed
      <4> QED
        BY <1>3, <2>1, <3>1, <4>1 DEF Creates, NewChains
    <3>2. CASE CleansUp(s)
      <4>1. i \in Listed
        BY <3>2 DEF CleansUp, Listed
      <4> QED
        BY <1>3, <2>1, <3>2, <4>1 DEF CleansUp, NewChains
    <3>3. CASE Drops(s)
      BY <1>3, <3>3 DEF Drops
    <3>4. CASE chains' = chains /\ identities' = identities
      BY <1>3, <3>4 DEF Listed
    <3> QED
      BY <2>2, <2>4, <3>1, <3>2, <3>3, <3>4 DEF Stepping, Does, Adds, Requests, Feeds, Ends, Removes, Forgets, Hears
  <2> QED
    BY <2>3, <2>4
<1>4. CASE channels[k] = None /\ k \in chains[i] /\ i \in Listed
  <2>1. NotYet(k) \/ \E p \in Nat : Cleaning(p, k) /\ Ahead(p, i)
    BY <1>1, <1>4 DEF ChainsPass, Mem, Stepping
  <2>2. CASE NotYet(k)
    <3>1. \E q \in 1..Len(identities') : identities'[q] = i
      <4>1. DOMAIN identities' = 1..Len(identities')
        BY LenProperties DEF Stepping, Types, MemTypes
      <4> QED
        BY <4>1 DEF Listed, ToSet
    <3>2. Len(identities') \in Nat
      BY LenProperties DEF Stepping, Types, MemTypes
    <3>3. CASE Cleaning(Len(queue), k)' /\ call'[queue'[Len(queue')]].at = 1 /\ Len(queue') \in Nat
      BY <3>1, <3>2, <3>3 DEF Ahead
    <3> QED
      BY <2>2, <3>3, NotYetStep
  <2>3. ASSUME NEW p \in Nat, Cleaning(p, k), Ahead(p, i)
        PROVE  \E r \in Nat : Cleaning(r, k)' /\ Ahead(r, i)'
    <3>1. CASE queue[p] # s
      BY <2>3, <3>1, CleaningMoves, AheadStays
    <3>2. CASE queue[p] = s
      <4>1. CleansUp(s) /\ call[s].key = k
        BY <2>3, <3>2, CleaningTurn
      <4>2. PICK q \in 1..Len(identities) : q >= call[s].at /\ identities[q] = i
        BY <2>3, <3>2 DEF Ahead
      <4>3. ~HasNone(s, q)
        BY <1>4, <4>1, <4>2 DEF HasNone
      <4>4. PICK n \in 1..Len(identities) :
              /\ Proceeding(s, "cleanup") /\ call'[s].at = n + 1 /\ \A m \in 1..(n - 1) : HasNone(s, m)
              /\ NewChains(identities[n], chains[identities[n]] \ {k})
        BY <4>1, <4>3 DEF CleansUp
      <4>5. q # n
        BY <4>2, <4>4 DEF NewChains
      <4>6. q >= n + 1
        <5>1. Len(identities) \in Nat
          BY LenProperties DEF Stepping, Types, MemTypes
        <5> QED
          BY <4>3, <4>4, <4>5, <5>1
      <4>7. call'[s].op = "removeChannel" /\ call'[s].key = k /\ call'[s].step = "cleanup" /\ identities' = identities
        BY <4>1, <4>4 DEF CleansUp, Proceeding
      <4>8. Len(queue') \in Nat \ {0} /\ queue'[Len(queue')] = s
        BY <4>7, AwaitsLast DEF Awaiting, Stepping
      <4>9. Cleaning(Len(queue), k)'
        BY <4>7, <4>8 DEF Cleaning, Removing
      <4>10. Ahead(Len(queue), i)'
        BY <4>2, <4>4, <4>6, <4>7, <4>8 DEF Ahead
      <4> QED
        BY <4>8, <4>9, <4>10
    <3> QED
      BY <3>1, <3>2
  <2> QED
    BY <2>1, <2>2, <2>3
<1> QED
  BY <1>2, <1>3, <1>4

LEMMA RecordsStep ==
  ASSUME NEW s \in Slot, Stepping(s), Lists', IdLine', Making, ChainsPass', RecordsPass,
         NEW h \in {0, 1}, NEW a \in {0, 1}, Shifted(s, h, a)
  PROVE  RecordsPass'
<1> SUFFICES ASSUME NEW k \in Key, NEW i \in Own \ usedGone', NEW n \in 0..Len(queue'), NEW v \in Data,
                    Fine(k)', channels'[k] = None, IdAt(i, n, v)', k \in v.chains
             PROVE  NotYet(k)' \/ \E p \in Nat : Cleaning(p, k)' /\ (n < p \/ (Ahead(p, i)' /\ k \in chains'[i]))
  BY DEF RecordsPass, Mem, Stepping
<1>1. Fine(k) /\ i \notin usedGone
  BY DEF Stepping, Fine
<1>2. CASE channels[k] # None
  BY <1>2, ChannelGoes DEF Starting, NotYet, Removing
<1>3. CASE n = Len(queue')
  <2>1. IdLast(i, v)' /\ v # None
    BY <1>3, Constants DEF IdLast, IdAt
  <2>2. i \in Listed' /\ v = Rec(i)'
    BY <2>1 DEF IdLine, Stepping
  <2>3. k \in chains'[i]
    BY <2>2 DEF Rec
  <2> QED
    BY <2>2, <2>3 DEF ChainsPass, Mem, Stepping
<1>4. CASE channels[k] = None /\ n # Len(queue') /\ n \in 0..(Len(queue) - h) /\ n + h \in 0..Len(queue)
  <2>1. IdAt(i, n + h, v)
    BY <1>4, TurnAt DEF Shifted
  <2>2. NotYet(k) \/ \E p \in Nat : Cleaning(p, k) /\ (n + h < p \/ (Ahead(p, i) /\ k \in chains[i]))
    BY <1>1, <1>4, <2>1 DEF RecordsPass, Mem, Stepping
  <2>3. n < Len(queue')
    BY <1>4, LenProperties DEF Stepping, Types, Queued
  <2>4. CASE NotYet(k)
    BY <2>3, <2>4, NotYetStep
  <2>5. ASSUME NEW p \in Nat, Cleaning(p, k), n + h < p \/ (Ahead(p, i) /\ k \in chains[i])
        PROVE  \E r \in Nat : Cleaning(r, k)' /\ (n < r \/ (Ahead(r, i)' /\ k \in chains'[i]))
    <3>1. CASE queue[p] # s
      <4>1. p - h \in Nat /\ Cleaning(p - h, k)'
        BY <2>5, <3>1, CleaningMoves
      <4>2. CASE n + h < p
        <5>1. n < p - h
          BY <1>4, <4>2
        <5> QED
          BY <4>1, <5>1
      <4>3. CASE Ahead(p, i) /\ k \in chains[i]
        BY <2>5, <3>1, <4>1, <4>3, AheadStays
      <4> QED
        BY <2>5, <4>2, <4>3
    <3>2. CASE queue[p] = s
      <4>1. h = 1 /\ p = 1 /\ CleansUp(s) /\ call[s].key = k
        BY <2>5, <3>2, CleaningTurn
      <4>2. Ahead(p, i) /\ k \in chains[i]
        BY <1>4, <2>5, <4>1
      <4>3. PICK q \in 1..Len(identities) : q >= call[s].at /\ identities[q] = i
        BY <3>2, <4>2 DEF Ahead
      <4>4. ~HasNone(s, q)
        BY <4>1, <4>2, <4>3 DEF HasNone
      <4>5. Proceeding(s, "cleanup")
        BY <4>1, <4>4 DEF CleansUp
      <4>6. call'[s].op = "removeChannel" /\ call'[s].key = k /\ call'[s].step = "cleanup"
        BY <4>1, <4>5 DEF CleansUp, Proceeding
      <4>7. Len(queue') \in Nat \ {0} /\ queue'[Len(queue')] = s
        BY <4>6, AwaitsLast DEF Awaiting, Stepping
      <4>8. Cleaning(Len(queue), k)'
        BY <4>6, <4>7 DEF Cleaning, Removing
      <4> QED
        BY <2>3, <4>7, <4>8
    <3> QED
      BY <3>1, <3>2
  <2> QED
    BY <2>2, <2>4, <2>5
<1> QED
  BY <1>2, <1>3, <1>4, TurnEnds DEF Shifted

LEMMA LeftStep ==
  ASSUME NEW s \in Slot, Stepping(s), Lists', IdLine', LeftInv, NEW h \in {0, 1}, NEW a \in {0, 1}, Shifted(s, h, a)
  PROVE  LeftInv'
BY MakingStep, MessagesStep, ChainsStep, RecordsStep DEF LeftInv

(* A channel that no call is about is in the storage what it is in memory. *)
LEMMA DiskIsMemory ==
  ASSUME Types, ChanNames, NEW k \in Key, \A t \in Slot : Awaiting(call[t]) => call[t].key # k
  PROVE  chanDisk[k] = Mem(k)
<1>1. chanDisk[k] \in Name \cup {None} /\ Len(queue) \in Nat
  BY OpsAt DEF Types, DiskTypes
<1>2. \A m \in 1..Len(queue) : ~Writes(ChannelOps, Ops[m], k)
  <2> SUFFICES ASSUME NEW m \in 1..Len(queue), Writes(ChannelOps, Ops[m], k) PROVE FALSE
    OBVIOUS
  <2>1. PICK t \in Slot : t = queue[m] /\ Ops[m] = call[t].awaits
    BY OpsAt
  <2>2. Awaiting(call[t]) /\ call[t] \in CallType /\ Fits(call[t])
    BY <2>1 DEF Types, CallTypes, Queued
  <2>3. call[t].key = k
    BY <2>1, <2>2, OpCalls DEF Writes
  <2> QED
    BY <2>2, <2>3
<1>3. ChanLast(k, chanDisk[k])
  BY <1>2 DEF ChanLast, At
<1> QED
  BY <1>1, <1>3 DEF ChanNames, ChanLine

LEMMA Crashed ==
  ASSUME Types, Crash
  PROVE  /\ up = "yes" /\ up' = "no" /\ \A t \in Slot : call'[t] = Idle
         /\ queue' = << >> /\ Len(queue') = 0 /\ Listed' = {} /\ UNCHANGED <<chanDisk, idDisk, messages, used, gone, usedGone, overlapped>>
         /\ \A k \in Key : k \notin excused' => k \notin excused /\ \A t \in Slot : Awaiting(call[t]) => call[t].key # k
<1>1. /\ up = "yes" /\ up' = "no" /\ call' = [t \in Slot |-> Idle] /\ queue' = << >> /\ identities' = << >>
      /\ UNCHANGED <<chanDisk, idDisk, messages, used, gone, usedGone, overlapped>>
      /\ excused' = excused \cup ({call[t].key : t \in ToSet(queue)} \ {None})
  BY DEF Crash, disk
<1>2. Listed' = {} /\ Len(queue') = 0
  BY <1>1, NothingListed, EmptySeq DEF Listed, ToSet
<1>3. ASSUME NEW k \in Key, k \notin excused', NEW t \in Slot, Awaiting(call[t]) PROVE call[t].key # k
  <2>1. t \in ToSet(queue)
    BY <1>3, LenProperties DEF Types, Queued, ToSet
  <2> QED
    BY <1>1, <1>3, <2>1, Constants
<1> QED
  BY <1>1, <1>2, <1>3

LEMMA LeftCrash ==
  ASSUME RegInv, LeftInv, Crash
  PROVE  LeftInv'
<1>1. Types /\ ChanNames
  BY DEF RegInv
<1>2. /\ up = "yes" /\ up' = "no" /\ \A t \in Slot : call'[t] = Idle
      /\ Len(queue') = 0 /\ Listed' = {} /\ UNCHANGED <<chanDisk, idDisk, messages, usedGone, overlapped>>
  BY <1>1, Crashed
<1>3. ASSUME NEW k \in Key, Fine(k)', Mem(k)' = None
      PROVE  Fine(k) /\ Mem(k) = None /\ \A t \in Slot : Awaiting(call[t]) => call[t].key # k
  <2>1. k \notin excused /\ \A t \in Slot : Awaiting(call[t]) => call[t].key # k
    BY <1>1, <1>3, Crashed DEF Fine
  <2>2. chanDisk[k] = Mem(k)
    BY <1>1, <2>1, DiskIsMemory
  <2>3. Mem(k)' = chanDisk[k]
    BY <1>2 DEF Mem
  <2> QED
    BY <1>2, <1>3, <2>1, <2>2, <2>3 DEF Fine
<1>4. ASSUME NEW k \in Key, \A t \in Slot : Awaiting(call[t]) => call[t].key # k
      PROVE  ~NotYet(k) /\ \A p \in Nat : ~Cleaning(p, k)
  <2>1. ~NotYet(k)
    BY <1>4 DEF NotYet, Removing, Awaiting
  <2>2. ASSUME NEW p \in Nat, Cleaning(p, k) PROVE FALSE
    <3>1. queue[p] \in Slot
      BY <1>1, <2>2, OpsAt DEF Cleaning
    <3> QED
      BY <1>4, <2>2, <3>1 DEF Cleaning, Removing, Awaiting
  <2> QED
    BY <2>1, <2>2
<1>5. Making'
  BY <1>2, IdleType DEF Making
<1>6. MessagesPass'
  <2> SUFFICES ASSUME NEW k \in Key, Fine(k)', Mem(k)' = None PROVE messages'[k] = {}
    BY <1>2, IdleType DEF MessagesPass
  <2>1. Fine(k) /\ Mem(k) = None /\ \A t \in Slot : Awaiting(call[t]) => call[t].key # k
    BY <1>3
  <2>2. ASSUME NEW t \in Slot, call[t].key = k,
               \/ call[t].op = "create" /\ call[t].step = "begun"
               \/ call[t].op = "removeChannel"
        PROVE  FALSE
    <3>1. call[t].step # "invited"
      <4>1. Fits(call[t])
        BY <1>1 DEF Types, CallTypes
      <4> QED
        BY <2>2, <4>1, IdleType DEF Fits
    <3> QED
      BY <2>1, <2>2, <3>1 DEF Awaiting
  <2> QED
    BY <1>2, <2>1, <2>2 DEF LeftInv, MessagesPass, Removing
<1>7. ChainsPass'
  BY <1>2 DEF ChainsPass
<1>8. RecordsPass'
  <2> SUFFICES ASSUME NEW k \in Key, NEW i \in Own \ usedGone, NEW n \in 0..Len(queue'), NEW v \in Data,
                      Fine(k)', Mem(k)' = None, IdAt(i, n, v)', k \in v.chains
               PROVE  FALSE
    BY <1>2 DEF RecordsPass
  <2>1. Fine(k) /\ Mem(k) = None /\ ~NotYet(k) /\ \A p \in Nat : ~Cleaning(p, k)
    BY <1>3, <1>4
  <2>2. n = 0
    BY <1>2
  <2>3. v = idDisk[i]
    BY <1>2, <2>2, AtZero DEF IdAt
  <2>4. IdAt(i, 0, v) /\ 0 \in 0..Len(queue)
    BY <1>1, <2>3, AtZero, OpsAt DEF IdAt
  <2> QED
    BY <2>1, <2>4 DEF LeftInv, RecordsPass
<1> QED
  BY <1>5, <1>6, <1>7, <1>8 DEF LeftInv

LEMMA LoadedAll ==
  ASSUME RegInv, Load
  PROVE  /\ up = "no" /\ up' = "yes" /\ (\A t \in Slot : call[t] = Idle)
         /\ UNCHANGED <<call, queue, chanDisk, idDisk, messages, used, gone, usedGone, excused, overlapped>>
         /\ Listed' = {i \in Own : idDisk[i] # None}
         /\ \A i \in Listed' : chains'[i] = idDisk[i].chains /\ idDisk[i] \in Data
         /\ \A k \in Key : Mem(k)' = Mem(k)
<1>1. up = "no" /\ UNCHANGED <<call, queue, chanDisk, idDisk, messages, used, gone, usedGone, excused, overlapped>>
  BY DEF Load, disk, history
<1>2. \A k \in Key : Mem(k) = chanDisk[k]
  BY <1>1 DEF Mem
<1>3. ~SameName
  BY <1>2 DEF SameName, RegInv, ChanNames, MemNames
<1> DEFINE X == {i \in Own : idDisk[i] # None}
<1>4. /\ up' = "yes" /\ channels' = chanDisk
      /\ chains' = [i \in Own |-> IF idDisk[i] = None THEN {} ELSE idDisk[i].chains]
      /\ identities' \in SetToSeqs(X)
      /\ \A m, n \in DOMAIN identities' : m < n => idName'[identities'[m]] <= idName'[identities'[n]]
  BY <1>3 DEF Load
<1>5. Listed' = X
  <2>1. IsFiniteSet(X)
    BY Constants, FS_Subset
  <2>2. ToSet(identities') = X
    BY <1>4, <2>1, Loaded
  <2> QED
    BY <2>2 DEF Listed
<1>6. idDisk \in [Own -> Data \cup {None}] /\ \A t \in Slot : call[t] = Idle
  BY <1>1 DEF RegInv, Types, DiskTypes, Down
<1>7. \A k \in Key : Mem(k)' = Mem(k)
  BY <1>2, <1>4 DEF Mem
<1> QED
  BY <1>1, <1>4, <1>5, <1>6, <1>7

LEMMA LeftLoad ==
  ASSUME RegInv, LeftInv, Load
  PROVE  LeftInv'
<1>1. /\ (\A t \in Slot : call[t] = Idle) /\ UNCHANGED <<call, queue, idDisk, messages, usedGone, excused, overlapped>>
      /\ Listed' = {i \in Own : idDisk[i] # None}
      /\ (\A i \in Listed' : chains'[i] = idDisk[i].chains /\ idDisk[i] \in Data)
      /\ \A k \in Key : Mem(k)' = Mem(k)
  BY LoadedAll
<1>2. Len(queue) = 0 /\ \A i \in Own : IdAt(i, 0, idDisk[i])
  BY <1>1, NoCalls, AtZero DEF RegInv, IdAt
<1>3. \A k \in Key : ~NotYet(k) /\ \A p \in Nat : ~Cleaning(p, k)
  <2>1. \A k \in Key : ~NotYet(k)
    BY <1>1, IdleType DEF NotYet, Removing
  <2>2. \A k \in Key, p \in Nat : ~Cleaning(p, k)
    BY <1>2 DEF Cleaning
  <2> QED
    BY <2>1, <2>2
<1>4. Making'
  BY <1>1, IdleType DEF Making
<1>5. MessagesPass'
  BY <1>1 DEF LeftInv, MessagesPass, Fine, Removing
<1>6. \A k \in Key, i \in Own \ usedGone, n \in 0..Len(queue), v \in Data :
        ~(Fine(k) /\ Mem(k) = None /\ IdAt(i, n, v) /\ k \in v.chains)
  BY <1>3 DEF LeftInv, RecordsPass
<1>7. ChainsPass'
  <2> SUFFICES ASSUME NEW k \in Key, NEW i \in Listed' \ usedGone, Fine(k), Mem(k) = None, k \in chains'[i] PROVE FALSE
    BY <1>1 DEF ChainsPass, Fine
  <2>1. i \in Own /\ idDisk[i] \in Data /\ k \in idDisk[i].chains /\ 0 \in 0..Len(queue)
    BY <1>1, <1>2
  <2> QED
    BY <1>2, <1>6, <2>1
<1>8. RecordsPass'
  <2>1. Ops' = Ops
    BY <1>1 DEF Ops
  <2>2. \A i \in Own, n \in 0..Len(queue) : \A v : IdAt(i, n, v)' <=> IdAt(i, n, v)
    BY <1>1, <2>1 DEF IdAt
  <2> QED
    BY <1>1, <1>6, <2>2 DEF RecordsPass, Fine
<1> QED
  BY <1>4, <1>5, <1>7, <1>8 DEF LeftInv

LEMMA LeftInit ==
  ASSUME Init
  PROVE  LeftInv
<1>1. RegInv
  BY RegInit
<1>2. /\ \A s \in Slot : call[s] = Idle
      /\ \A k \in Key : messages[k] = {}
      /\ \A i \in Own : idDisk[i] = None
      /\ identities = << >>
  BY DEF Init
<1>3. Len(queue) = 0 /\ \A i \in Own : \A v : IdAt(i, 0, v) <=> v = None
  BY <1>1, <1>2, NoCalls, AtZero DEF RegInv, IdAt
<1>4. Listed = {}
  BY <1>2, NothingListed
<1>5. Making /\ MessagesPass
  BY <1>2, IdleType DEF Making, MessagesPass
<1>6. ChainsPass
  BY <1>4 DEF ChainsPass
<1>7. RecordsPass
  BY <1>3, Constants DEF RecordsPass
<1> QED
  BY <1>5, <1>6, <1>7 DEF LeftInv

-----------------------------------------------------------------------------
(* Identities and their channels *)

MakingBegun(k) == \E s \in Slot : call[s].op = "create" /\ call[s].key = k /\ call[s].step = "begun"
MakingSaved(k) == \E s \in Slot : call[s].op = "create" /\ call[s].key = k /\ call[s].step = "saved"

(* A channel made here does not exist before createIdentityPair() adds it, nor after it has  *)
(* been removed.                                                                             *)
Once ==
  \A k \in Own :
    /\ MakingBegun(k) \/ k \notin used => Mem(k) = None
    /\ \A s \in Slot : Removing(s, k) => Mem(k) = None /\ ~MakingBegun(k) /\ k \in used

(* The storage has the owner's chain after n operations, or one that comes stores it. *)
Owns(k, n) ==
  \A v \in Data \cup {None} : IdAt(k, n, v) =>
    \/ v # None /\ k \in v.chains
    \/ \E m \in (n + 1)..Len(queue) : call[queue[m]].op = "create" /\ call[queue[m]].key = k

(* A channel made here has an owner, in memory and in the storage, when it is made and until *)
(* the identity is removed.                                                                  *)
Owned ==
  \A k \in Own \ (gone \cup excused) : Mem(k) # None =>
    \/ MakingSaved(k)
    \/ /\ up = "yes" => k \in Listed /\ k \in chains[k]
       /\ \A n \in 0..Len(queue) : Owns(k, n)

OwnInv == Once /\ Owned

LEMMA OnceStep ==
  ASSUME NEW s \in Slot, Stepping(s), used \subseteq used', Once
  PROVE  Once'
<1> SUFFICES ASSUME NEW k \in Own
             PROVE  /\ MakingBegun(k)' \/ k \notin used' => channels'[k] = None
                    /\ \A t \in Slot : Removing(t, k)' => channels'[k] = None /\ ~MakingBegun(k)' /\ k \in used'
  BY DEF Once, Mem, Stepping
<1>1. k \in Key /\ k \notin Foreign
  BY Constants
<1>2. ASSUME NEW t \in Slot PROVE Fits(call[t]) /\ Known(call[t])
  BY DEF Stepping, Types, CallTypes, Lists, Born
<1>3. ASSUME MakingBegun(k)' PROVE MakingBegun(k) \/ k \notin used
  <2>1. PICK t \in Slot : call'[t].op = "create" /\ call'[t].key = k /\ call'[t].step = "begun"
    BY <1>3 DEF MakingBegun
  <2>2. CASE t # s
    BY <2>1, <2>2 DEF Stepping, MakingBegun
  <2>3. CASE t = s
    BY <2>1, <2>3, IdleType DEF Stepping, Does, Creates, Adds, Enlists, Requests, Invites,
       Feeds, Ends, Removes, Forgets, CleansUp, Drops, Hears, Starting, Proceeding
  <2> QED
    BY <2>2, <2>3
<1>4. ASSUME channels[k] = None, channels'[k] # None
      PROVE  /\ MakingBegun(k) /\ ~MakingBegun(k)' /\ k \in used
  <2>1. call'[s].key = k /\ call[s].key = k /\ call[s].step = "begun" /\ call[s].op = "create" /\ Proceeding(s, "saved")
    <3>1. \/ call[s] = Idle /\ k \in Foreign
          \/ call[s].op \in {"create", "join"} /\ call[s].key = k /\ call[s].step = "begun" /\ Proceeding(s, "saved")
      BY <1>1, <1>4, ChannelComes
    <3>2. call[s].op = "join" => call[s].key \in Foreign
      BY <1>2, IdleType DEF Fits
    <3> QED
      BY <1>1, <3>1, <3>2 DEF Proceeding
  <2>2. call[s].id = k
    BY <1>2, <2>1, IdleType DEF Fits
  <2>3. k \in used
    BY <1>2, <2>1, <2>2 DEF Known
  <2>4. ASSUME MakingBegun(k)' PROVE FALSE
    <3>1. PICK t \in Slot : call'[t].op = "create" /\ call'[t].key = k /\ call'[t].step = "begun"
      BY <2>4 DEF MakingBegun
    <3>2. t # s /\ call[t] = call'[t]
      BY <2>1, <3>1 DEF Proceeding, Stepping
    <3>3. call[t].id = k
      BY <1>2, <3>1, <3>2, IdleType DEF Fits
    <3> QED
      BY <2>1, <2>2, <3>1, <3>2, <3>3 DEF Stepping, Lists, Born
  <2> QED
    BY <2>1, <2>3, <2>4 DEF MakingBegun
<1>5. /\ MakingBegun(k) \/ k \notin used => channels[k] = None
      /\ \A t \in Slot : Removing(t, k) => channels[k] = None /\ ~MakingBegun(k) /\ k \in used
  BY DEF Once, Mem, Stepping
<1>6. MakingBegun(k)' \/ k \notin used' => channels'[k] = None
  <2>1. MakingBegun(k)' \/ k \notin used' => channels[k] = None
    BY <1>3, <1>5
  <2> QED
    BY <1>4, <2>1
<1>7. ASSUME NEW t \in Slot, Removing(t, k)'
      PROVE  channels'[k] = None /\ ~MakingBegun(k)' /\ k \in used'
  <2>1. CASE Removing(t, k)
    <3>1. channels[k] = None /\ ~MakingBegun(k) /\ k \in used
      BY <1>5, <2>1
    <3> QED
      BY <1>3, <1>4, <3>1
  <2>2. CASE ~Removing(t, k)
    <3>1. t = s
      BY <1>7, <2>2 DEF Removing, Stepping
    <3>2. Removes(s) /\ call'[s].key = k
      BY <1>7, <2>2, <3>1, IdleType DEF Stepping, Does, Creates, Adds, Enlists, Requests, Invites,
         Feeds, Ends, Removes, Forgets, CleansUp, Drops, Hears, Starting, Proceeding, Removing
    <3>3. channels[k] # None /\ channels'[k] = None
      BY <3>2 DEF Removes, Starting
    <3> QED
      BY <1>3, <1>5, <3>3
  <2> QED
    BY <2>1, <2>2
<1> QED
  BY <1>6, <1>7

LEMMA OwnedStep ==
  ASSUME NEW s \in Slot, Stepping(s), Lists', IdLine', gone \subseteq gone', Making, Once, Owned,
         NEW h \in {0, 1}, NEW a \in {0, 1}, Shifted(s, h, a)
  PROVE  Owned'
<1> SUFFICES ASSUME NEW k \in Own \ (gone' \cup excused'), channels'[k] # None
             PROVE  \/ MakingSaved(k)'
                    \/ /\ k \in Listed' /\ k \in chains'[k]
                       /\ \A n \in 0..Len(queue') : Owns(k, n)'
  BY DEF Owned, Mem, Stepping
<1>1. k \in Key /\ k \notin Foreign
  BY Constants
<1>2. k \in Own \ (gone \cup excused)
  BY DEF Stepping
<1>3. ASSUME NEW t \in Slot PROVE Fits(call[t]) /\ Known(call[t])
  BY DEF Stepping, Types, CallTypes, Lists, Born
<1>4. Len(queue) \in Nat /\ h <= Len(queue) /\ Len(queue') = Len(queue) - h + a
  BY DEF Shifted, Turn
(* After the last operation, the storage has what the memory does. *)
<1>5. ASSUME k \in Listed', k \in chains'[k], \A n \in 0..(Len(queue) - h) : n # Len(queue') => Owns(k, n)'
      PROVE  \A n \in 0..Len(queue') : Owns(k, n)'
  <2> SUFFICES ASSUME NEW n \in 0..Len(queue') PROVE Owns(k, n)'
    OBVIOUS
  <2>1. CASE n = Len(queue')
    <3>1. \A v \in Data \cup {None} : IdAt(k, n, v)' => v = Rec(k)'
      BY <1>5, <2>1 DEF IdLine, IdLast, IdAt, Stepping
    <3>2. \A v \in Data \cup {None} : v = Rec(k)' => v # None /\ k \in v.chains
      <4>1. idName'[k] \in Name /\ chains'[k] \in SUBSET Key
        BY <1>5 DEF Stepping, Types, MemTypes, Lists, Listing
      <4>2. Rec(k)' \in Data
        BY <4>1 DEF Rec, Data
      <4> QED
        BY <1>5, <4>2, Constants DEF Rec
    <3> QED
      BY <3>1, <3>2 DEF Owns
  <2>2. CASE n # Len(queue')
    BY <1>4, <1>5, <2>2
  <2> QED
    BY <2>1, <2>2
<1>6. CASE channels[k] = None
  <2>1. \/ call[s] = Idle /\ k \in Foreign
        \/ call[s].op \in {"create", "join"} /\ call[s].key = k /\ call[s].step = "begun" /\ Proceeding(s, "saved")
    BY <1>1, <1>6, ChannelComes
  <2>2. call[s].op = "join" => call[s].key \in Foreign
    BY <1>3, IdleType DEF Fits
  <2> QED
    BY <1>1, <2>1, <2>2 DEF Proceeding, MakingSaved
<1>7. CASE channels[k] # None /\ MakingSaved(k)
  <2>1. PICK t \in Slot : call[t].op = "create" /\ call[t].key = k /\ call[t].step = "saved"
    BY <1>7 DEF MakingSaved
  <2>2. CASE t # s
    BY <2>1, <2>2 DEF MakingSaved, Stepping
  <2>3. CASE t = s
    <3>1. Enlists(s)
      BY <2>1, <2>3, IdleType DEF Stepping, Does, Creates, Adds, Enlists, Requests, Invites,
         Feeds, Ends, Removes, Forgets, CleansUp, Drops, Hears, Starting, Proceeding
    <3>2. Proceeding(s, "done") /\ Listed' = Listed \cup {k} /\ chains' = chains /\ chains[k] = {k}
      <4>1. call[s].id = k
        BY <1>3, <2>1, <2>3, IdleType DEF Fits
      <4> QED
        BY <2>1, <2>3, <3>1, <4>1 DEF Enlists, Making
    <3>3. call'[s].op = "create" /\ call'[s].key = k /\ call'[s].step = "done"
      BY <2>1, <2>3, <3>2 DEF Proceeding
    <3>4. Len(queue') \in Nat \ {0} /\ queue'[Len(queue')] = s
      BY <3>3, AwaitsLast DEF Awaiting, Stepping
    <3>5. ASSUME NEW n \in 0..(Len(queue) - h), n # Len(queue') PROVE Owns(k, n)'
      <4>1. Len(queue') \in (n + 1)..Len(queue')
        BY <1>4, <3>4, <3>5
      <4> QED
        BY <3>3, <3>4, <4>1 DEF Owns
    <3> QED
      BY <1>5, <3>2, <3>5
  <2> QED
    BY <2>2, <2>3
<1>8. CASE channels[k] # None /\ ~MakingSaved(k)
  <2>1. k \in Listed /\ k \in chains[k] /\ \A n \in 0..Len(queue) : Owns(k, n)
    BY <1>2, <1>8 DEF Owned, Mem, Stepping
  <2>2. k \in used
    BY <2>1 DEF Stepping, Lists, Listing
  <2>3. ~(call[s].op = "removeChannel" /\ call[s].key = k)
    BY <1>8 DEF Once, Mem, Stepping, Removing
  <2>4. k \in Listed'
    <3>1. CASE identities' = identities
      BY <2>1, <3>1 DEF Listed
    <3>2. CASE identities' # identities
      BY <2>1, <3>2 DEF Stepping, Does, Creates, Adds, Enlists, Requests, Invites,
         Feeds, Ends, Removes, Forgets, CleansUp, Drops, Hears
    <3> QED
      BY <3>1, <3>2
  <2>5. k \in chains'[k]
    <3>1. \A n \in 1..Len(identities) : identities[n] \in Own
      BY InList DEF Stepping
    <3> QED
      BY <2>1, <2>2, <2>3, <3>1 DEF Stepping, Does, Creates, Adds, Enlists, Requests, Invites,
         Feeds, Ends, Removes, Forgets, CleansUp, Drops, Hears, NewChains
  <2>6. ASSUME NEW n \in 0..(Len(queue) - h), n # Len(queue') PROVE Owns(k, n)'
    <3> SUFFICES ASSUME NEW v \in Data \cup {None}, IdAt(k, n, v)'
                 PROVE  \/ v # None /\ k \in v.chains
                        \/ \E m \in (n + 1)..Len(queue') : call'[queue'[m]].op = "create" /\ call'[queue'[m]].key = k
      BY DEF Owns
    <3>1. n + h \in 0..Len(queue)
      BY <1>4
    <3>2. IdAt(k, n + h, v)
      BY TurnAt DEF Shifted
    <3>3. CASE v # None /\ k \in v.chains
      BY <3>3
    <3>4. ASSUME NEW m \in ((n + h) + 1)..Len(queue), call[queue[m]].op = "create", call[queue[m]].key = k
          PROVE  \E l \in (n + 1)..Len(queue') : call'[queue'[l]].op = "create" /\ call'[queue'[l]].key = k
      <4>1. m - h \in 1..(Len(queue) - h) /\ (m - h) + h = m /\ m - h \in (n + 1)..Len(queue') /\ m \in 1..Len(queue)
        BY <1>4
      <4>2. queue'[m - h] = queue[m] /\ queue[m] # s
        BY <4>1 DEF Shifted
      <4>3. queue[m] \in Slot
        BY <4>1, OpsAt DEF Stepping
      <4>4. call'[queue[m]] = call[queue[m]]
        BY <4>2, <4>3 DEF Stepping
      <4> QED
        BY <3>4, <4>1, <4>2, <4>4
    <3> QED
      BY <2>1, <3>1, <3>2, <3>3, <3>4 DEF Owns
  <2> QED
    BY <1>5, <2>4, <2>5, <2>6
<1> QED
  BY <1>6, <1>7, <1>8

LEMMA OwnCrash ==
  ASSUME RegInv, OwnInv, Crash
  PROVE  OwnInv'
<1>1. Types /\ Lists /\ ChanNames
  BY DEF RegInv
<1>2. /\ up = "yes" /\ up' = "no" /\ \A t \in Slot : call'[t] = Idle
      /\ Len(queue') = 0 /\ UNCHANGED <<chanDisk, idDisk, used, gone>>
  BY <1>1, Crashed
<1>3. ASSUME NEW t \in Slot PROVE Fits(call[t]) /\ Known(call[t])
  BY <1>1 DEF Types, CallTypes, Lists, Born
<1>4. ASSUME NEW k \in Own, k \notin used, NEW t \in Slot, Awaiting(call[t]) PROVE call[t].key # k
  <2>1. CASE call[t].op = "create"
    BY <1>3, <1>4, <2>1, IdleType DEF Fits, Known
  <2>2. CASE call[t].op = "removeChannel"
    BY <1>4, <2>2 DEF OwnInv, Once, Removing
  <2>3. CASE call[t].op \notin {"create", "removeChannel"}
    <3>1. k \notin Foreign /\ k # None
      BY Constants
    <3> QED
      BY <1>3, <1>4, <2>3, <3>1, IdleType DEF Fits
  <2> QED
    BY <2>1, <2>2, <2>3
<1>5. \A k \in Own : k \notin used => chanDisk[k] = None
  <2> SUFFICES ASSUME NEW k \in Own, k \notin used PROVE chanDisk[k] = None
    OBVIOUS
  <2>1. Mem(k) = None /\ k \in Key
    BY Constants DEF OwnInv, Once
  <2> QED
    BY <1>1, <1>4, <2>1, DiskIsMemory
<1>6. Once'
  <2>1. \A k \in Own : ~MakingBegun(k)' /\ \A s \in Slot : ~Removing(s, k)'
    BY <1>2, IdleType DEF MakingBegun, Removing
  <2> QED
    BY <1>2, <1>5, <2>1 DEF Once, Mem
<1>7. Owned'
  <2> SUFFICES ASSUME NEW k \in Own \ (gone \cup excused'), chanDisk[k] # None
               PROVE  \A n \in 0..Len(queue') : Owns(k, n)'
    BY <1>2 DEF Owned, Mem
  <2>1. k \in Key /\ k \notin excused /\ \A t \in Slot : Awaiting(call[t]) => call[t].key # k
    BY <1>1, Crashed, Constants
  <2>2. Mem(k) # None
    BY <1>1, <2>1, DiskIsMemory
  <2>3. ~MakingSaved(k)
    BY <2>1 DEF MakingSaved, Awaiting
  <2>4. Len(queue) \in Nat /\ Owns(k, 0)
    BY <1>1, <2>1, <2>2, <2>3, OpsAt DEF OwnInv, Owned
  <2>5. \A m \in 1..Len(queue) : queue[m] \in Slot /\ Awaiting(call[queue[m]])
    BY <1>1, OpsAt DEF Types, Queued
  <2>6. \A v \in Data \cup {None} : v = idDisk[k] => v # None /\ k \in v.chains
    BY <2>1, <2>4, <2>5, AtZero DEF Owns, IdAt
  <2>7. Owns(k, 0)'
    BY <1>2, <2>6, AtZero DEF Owns, IdAt
  <2> QED
    BY <1>2, <2>7
<1> QED
  BY <1>6, <1>7 DEF OwnInv

LEMMA OwnLoad ==
  ASSUME RegInv, OwnInv, Load
  PROVE  OwnInv'
<1>1. /\ up = "no" /\ up' = "yes" /\ (\A t \in Slot : call[t] = Idle)
      /\ UNCHANGED <<call, queue, idDisk, used, gone, excused>>
      /\ Listed' = {i \in Own : idDisk[i] # None}
      /\ (\A i \in Listed' : chains'[i] = idDisk[i].chains)
      /\ \A k \in Key : Mem(k)' = Mem(k)
  BY LoadedAll
<1>2. Own \subseteq Key
  BY Constants
<1>3. Once'
  BY <1>1, <1>2 DEF OwnInv, Once, MakingBegun, Removing
<1>4. Len(queue) = 0 /\ idDisk \in [Own -> Data \cup {None}]
  BY <1>1, NoCalls DEF RegInv, Types, DiskTypes
<1>5. Owned'
  <2> SUFFICES ASSUME NEW k \in Own \ (gone \cup excused), Mem(k) # None
               PROVE  k \in Listed' /\ k \in chains'[k] /\ \A n \in 0..Len(queue) : Owns(k, n)'
    BY <1>1, <1>2 DEF Owned
  <2>1. ~MakingSaved(k)
    BY <1>1, IdleType DEF MakingSaved
  <2>2. Owns(k, 0)
    BY <1>4, <2>1 DEF OwnInv, Owned
  <2>3. idDisk[k] # None /\ k \in idDisk[k].chains
    BY <1>4, <2>2, AtZero DEF Owns, IdAt
  <2>4. Owns(k, 0)'
    BY <1>1, <2>3, AtZero DEF Owns, IdAt
  <2> QED
    BY <1>1, <1>4, <2>3, <2>4
<1> QED
  BY <1>3, <1>5 DEF OwnInv

LEMMA OwnInit ==
  ASSUME Init
  PROVE  OwnInv
<1>1. /\ \A s \in Slot : call[s] = Idle
      /\ up = "yes" /\ \A k \in Key : channels[k] = None
  BY DEF Init
<1>2. \A k \in Own : Mem(k) = None
  BY <1>1, Constants DEF Mem
<1> QED
  BY <1>1, <1>2, IdleType DEF OwnInv, Once, Owned, Removing

(* What was excused, used or removed once stays so. *)
LEMMA CallGrows ==
  ASSUME NEW s \in Slot, User(s) \/ Step(s)
  PROVE  used \subseteq used' /\ gone \subseteq gone' /\ excused \subseteq excused' /\ usedGone \subseteq usedGone'
<1>1. ASSUME NEW c, NEW w, Begin(s, c, w)
      PROVE  gone \subseteq gone' /\ excused \subseteq excused' /\ usedGone \subseteq usedGone'
  BY <1>1 DEF Begin
<1>2. ASSUME NEW op, NEW step, Resume(s, op, step)
      PROVE  used' = used /\ gone' = gone /\ usedGone' = usedGone
  BY <1>2 DEF Resume
<1>3. CASE User(s)
  <2>1. CASE \E i \in Own, name \in OwnName : Create(s, i, name)
    BY <1>1, <2>1 DEF Create
  <2>2. CASE \E k \in Foreign, i \in Own, name \in ForeignName : Request(s, k, i, name)
    BY <2>2 DEF Request, history
  <2>3. CASE \E k \in Foreign, name \in ForeignName : Feed(s, k, name)
    BY <1>1, <2>3 DEF Feed
  <2>4. CASE \E k \in Key : RemoveChannel(s, k)
    BY <1>1, <2>4 DEF RemoveChannel
  <2>5. CASE \E i \in Own : RemoveIdentity(s, i)
    BY <1>1, <2>5 DEF RemoveIdentity
  <2>6. CASE \E k \in Foreign, m \in {"root", "next"} : Receive(s, k, m)
    BY <1>1, <2>6 DEF Receive
  <2> QED
    BY <1>3, <2>1, <2>2, <2>3, <2>4, <2>5, <2>6 DEF User
<1>4. CASE Invited(s)
  BY <1>4 DEF Invited
<1>5. CASE Step(s) /\ ~Invited(s)
  <2>1. \E op, step : Resume(s, op, step)
    BY <1>5 DEF Step, CreateChannel, CreateIdentity, Join, Saved, ForgetMessages, Cleanup, ReadMore, AddMessage
  <2>2. excused \subseteq excused'
    BY <1>5 DEF Step, CreateChannel, CreateIdentity, Join, Saved, ForgetMessages, Cleanup, ReadMore, AddMessage, AddChannel, Throw
  <2> QED
    BY <1>2, <2>1, <2>2
<1> QED
  BY <1>3, <1>4, <1>5

LEMMA LeftNext == RegInv /\ RegInv' /\ MessageInv /\ MessageInv' /\ LeftInv /\ OwnInv /\ [Next]_vars => (LeftInv /\ OwnInv)'
<1> SUFFICES ASSUME RegInv, RegInv', MessageInv, MessageInv', LeftInv, OwnInv, [Next]_vars
             PROVE  LeftInv' /\ OwnInv'
  OBVIOUS
<1>1. CASE Crash
  BY <1>1, LeftCrash, OwnCrash
<1>2. CASE Load
  BY <1>2, LeftLoad, OwnLoad
<1>3. CASE \E s \in Slot : User(s) \/ Step(s)
  <2>1. PICK s \in Slot : User(s) \/ Step(s)
    BY <1>3
  <2>2. Types /\ Lists /\ Types' /\ Lists' /\ IdLine' /\ NoClash /\ NoClash'
    BY DEF RegInv, IdentityNames, MessageInv
  <2>3. Moves(s) /\ \A t \in Slot : t # s => call'[t] = call[t]
    BY <2>1, <2>2, CallMoves
  <2>4. up = "yes" /\ up' = "yes"
    BY <2>1, <2>2, CallStep DEF Effect
  <2>5. used \subseteq used' /\ gone \subseteq gone' /\ excused \subseteq excused' /\ usedGone \subseteq usedGone'
    BY <2>1, CallGrows
  <2>6. overlapped \subseteq overlapped'
    BY <2>3 DEF Moves, Starts, Goes, Waits
  <2>7. Does(s)
    BY <2>1, <2>2, CallDoes
  <2>8. Stepping(s)
    BY <2>2, <2>3, <2>4, <2>5, <2>6, <2>7 DEF Stepping
  <2>9. PICK h \in {0, 1}, a \in {0, 1} : Shifted(s, h, a)
    BY <2>1, <2>2, CallShifts
  <2>10. LeftInv'
    BY <2>2, <2>8, <2>9, LeftStep
  <2>11. Making /\ Once /\ Owned
    BY DEF LeftInv, OwnInv
  <2>12. Once'
    BY <2>5, <2>8, <2>11, OnceStep
  <2>13. Owned'
    BY <2>2, <2>5, <2>8, <2>9, <2>11, OwnedStep
  <2> QED
    BY <2>10, <2>12, <2>13 DEF OwnInv
<1>4. CASE UNCHANGED vars
  <2>1. UNCHANGED <<up, channels, identities, idName, chains, call, queue, chanDisk, idDisk, messages, used,
                    gone, usedGone, excused, overlapped>>
    BY <1>4 DEF vars, memory, disk, history
  <2>2. Listed' = Listed /\ Ops' = Ops
    BY <2>1 DEF Listed, Ops
  <2>3. (\A k \in Key : Mem(k)' = Mem(k)) /\ \A i, n, v : IdAt(i, n, v)' <=> IdAt(i, n, v)
    BY <2>1, <2>2 DEF Mem, IdAt
  <2>4. /\ \A k : (Fine(k)' <=> Fine(k)) /\ (NotYet(k)' <=> NotYet(k)) /\ \A s : Removing(s, k)' <=> Removing(s, k)
        /\ \A k, p : Cleaning(p, k)' <=> Cleaning(p, k)
        /\ \A i, p : Ahead(p, i)' <=> Ahead(p, i)
    BY <2>1 DEF Fine, NotYet, Removing, Cleaning, Ahead
  <2>5. Making'
    BY <2>1, <2>4 DEF LeftInv, Making
  <2>6. MessagesPass'
    BY <2>1, <2>3, <2>4 DEF LeftInv, MessagesPass
  <2>7. ChainsPass'
    BY <2>1, <2>2, <2>3, <2>4 DEF LeftInv, ChainsPass
  <2>8. RecordsPass'
    BY <2>1, <2>3, <2>4 DEF LeftInv, RecordsPass
  <2>9. Own \subseteq Key
    BY Constants
  <2>10. Once'
    BY <2>1, <2>3, <2>4, <2>9 DEF OwnInv, Once, MakingBegun
  <2>11. Owned'
    <3>1. \A k : (MakingSaved(k)' <=> MakingSaved(k)) /\ \A n : Owns(k, n)' <=> Owns(k, n)
      BY <2>1, <2>3 DEF MakingSaved, Owns
    <3> QED
      BY <2>1, <2>2, <2>3, <2>9, <3>1 DEF OwnInv, Owned
  <2> QED
    BY <2>5, <2>6, <2>7, <2>8, <2>10, <2>11 DEF LeftInv, OwnInv
<1> QED
  BY <1>1, <1>2, <1>3, <1>4 DEF Next

(* Without calls that await the storage, no removal and no creation is under way. *)
LEMMA QuietCalls ==
  ASSUME Types, queue = << >>, NEW s \in Slot
  PROVE  call[s].op \in {"idle", "join"} /\ (call[s].op = "join" => call[s].step = "invited")
<1>1. Len(queue) = 0
  BY EmptySeq
<1>2. ~Awaiting(call[s])
  BY <1>1 DEF Types, Queued
<1>3. Fits(call[s])
  BY DEF Types, CallTypes
<1> QED
  BY <1>2, <1>3, IdleType DEF Awaiting, Fits

-----------------------------------------------------------------------------
(* Theorems *)

(* The inductive invariant holds for any number of keys, names, calls and crashes. *)
THEOREM RegInvHolds == Spec => [](RegInv /\ MessageInv)
<1>1. Init => RegInv /\ MessageInv
  BY RegInit, MessageInit
<1>2. RegInv /\ MessageInv /\ [Next]_vars => (RegInv /\ MessageInv)'
  BY RegNext, MessageNext
<1> QED
  BY <1>1, <1>2, PTL DEF Spec

(* The structure of the registry in memory is what the rest of lib/protocol.js relies    *)
(* upon: identities are listed once and in order of their names, only an identity has     *)
(* chains, and the storage is asked by exactly the calls that are in progress.            *)
THEOREM TypesHold == Spec => []TypeOK
<1>1. RegInv => TypeOK
  <2> SUFFICES ASSUME RegInv PROVE TypeOK
    OBVIOUS
  <2>1. Types /\ Lists
    BY DEF RegInv
  <2>2. identities \in Seq(used) /\ DOMAIN identities = 1..Len(identities)
    BY <2>1, LenProperties DEF Types, MemTypes
  <2>3. Listed \subseteq used /\ IsInjective(identities)
        /\ \A m, n \in DOMAIN identities : m < n => idName[identities[m]] <= idName[identities[n]]
    BY <2>1, <2>2 DEF Lists, Listing, Sorted, IsInjective
  <2>4. \A i \in Own : chains[i] \subseteq Key /\ (idName[i] = None => chains[i] = {})
    BY <2>1 DEF Lists, Born, Types, MemTypes
  <2>5. \A s \in Slot : call[s].op = "idle" <=> call[s] = Idle
    <3> SUFFICES ASSUME NEW s \in Slot PROVE call[s].op = "idle" <=> call[s] = Idle
      OBVIOUS
    <3>1. Fits(call[s])
      BY <2>1 DEF Types, CallTypes
    <3> QED
      BY <3>1, IdleType DEF Fits
  <2>6. ToSet(queue) = {s \in Slot : call[s] # Idle /\ call[s].step # "invited"}
    <3>1. \A s \in Slot : Awaiting(call[s]) <=> call[s] # Idle /\ call[s].step # "invited"
      BY <2>5 DEF Awaiting
    <3>2. DOMAIN queue = 1..Len(queue) /\ \A n \in 1..Len(queue) : queue[n] \in Slot
      BY <2>1, LenProperties, OpsAt DEF Types, Queued
    <3>3. \A s \in Slot : s \in ToSet(queue) <=> Awaiting(call[s])
      BY <2>1, <3>2 DEF Types, Queued, ToSet
    <3>4. ToSet(queue) \subseteq Slot
      BY <3>2 DEF ToSet
    <3> QED
      BY <3>1, <3>3, <3>4
  <2>7. /\ up \in {"yes", "no", "failed"} /\ {channels, chanDisk} \subseteq [Key -> Name \cup {None}]
        /\ messages \in [Key -> SUBSET {"root", "next"}]
    BY <2>1 DEF Types, MemTypes, DiskTypes
  <2> QED
    BY <2>3, <2>4, <2>5, <2>6, <2>7 DEF TypeOK
<1> QED
  BY <1>1, RegInvHolds, PTL

(* Whatever calls are cut short by a crash, load() finds no two stored channels with the  *)
(* same name, which it would refuse.                                                       *)
THEOREM AlwaysRestartable == Spec => []Restartable
<1>1. RegInv => Restartable
  <2> SUFFICES ASSUME RegInv PROVE ~SameName
    BY DEF RegInv, Restartable
  <2>1. 0 \in 0..Len(queue) /\ \A k \in Key : ChanAt(k, 0, chanDisk[k]) /\ chanDisk[k] \in Name \cup {None}
    BY OpsAt, AtZero DEF ChanAt, RegInv, Types, DiskTypes
  <2> SUFFICES ASSUME NEW j \in Key, NEW k \in Key, chanDisk[j] # None, chanDisk[j] = chanDisk[k] PROVE j = k
    BY DEF SameName
  <2>2. chanDisk[j] \in Name /\ ChanAt(j, 0, chanDisk[j]) /\ ChanAt(k, 0, chanDisk[j])
    BY <2>1
  <2> QED
    BY <2>1, <2>2 DEF RegInv, ChanNames, NameLine
<1> QED
  BY <1>1, RegInvHolds, PTL

(* getChannel() and getIdentity() have one answer for a name. *)
THEOREM NamesAreUnique == Spec => []NamesUnique
<1>1. RegInv => NamesUnique
  <2> SUFFICES ASSUME RegInv PROVE NamesUnique
    OBVIOUS
  <2>1. \A j, k \in Key : j # k /\ channels[j] # None => channels[j] # channels[k]
    <3>1. CASE up = "yes"
      BY <3>1 DEF RegInv, ChanNames, MemNames, Mem
    <3>2. CASE up # "yes"
      BY <3>2 DEF RegInv, Types, Down
    <3> QED
      BY <3>1, <3>2
  <2>2. usedGone = {} => \A i, j \in Listed : idName[i] = idName[j] => i = j
    BY DEF RegInv, IdentityNames, IdMem
  <2> QED
    BY <2>1, <2>2 DEF NamesUnique
<1> QED
  BY <1>1, RegInvHolds, PTL

(* When no call is in progress, a restart would find every channel and identity as it is  *)
(* in memory.                                                                             *)
THEOREM DiskAgreesHolds == Spec => []DiskAgrees
<1>1. RegInv => DiskAgrees
  <2> SUFFICES ASSUME RegInv, up = "yes", queue = << >>
               PROVE  /\ chanDisk = channels
                      /\ \A i \in Own : idDisk[i] # None /\ i \notin Listed => i \in usedGone
                      /\ \A i \in Listed : idDisk[i] = [name |-> idName[i], chains |-> chains[i]]
    BY DEF DiskAgrees, Quiet
  <2>1. Len(queue) = 0
    BY EmptySeq
  <2>2. /\ chanDisk \in [Key -> Name \cup {None}] /\ channels \in [Key -> Name \cup {None}]
        /\ idDisk \in [Own -> Data \cup {None}] /\ used \subseteq Own
    BY DEF RegInv, Types, MemTypes, DiskTypes
  <2>3. \A k \in Key : chanDisk[k] = channels[k]
    <3> SUFFICES ASSUME NEW k \in Key PROVE chanDisk[k] = channels[k]
      OBVIOUS
    <3>1. ChanLast(k, chanDisk[k]) /\ chanDisk[k] \in Name \cup {None}
      BY <2>1, <2>2, AtZero DEF ChanLast
    <3> QED
      BY <3>1 DEF RegInv, ChanNames, ChanLine, Mem
  <2>4. \A i \in Own : IF i \in Listed THEN idDisk[i] = Rec(i) ELSE idDisk[i] = None \/ i \in usedGone
    <3> SUFFICES ASSUME NEW i \in Own PROVE IF i \in Listed THEN idDisk[i] = Rec(i) ELSE idDisk[i] = None \/ i \in usedGone
      OBVIOUS
    <3>1. IdLast(i, idDisk[i]) /\ idDisk[i] \in Data \cup {None}
      BY <2>1, <2>2, AtZero DEF IdLast
    <3> QED
      BY <3>1 DEF RegInv, IdentityNames, IdLine
  <2>5. Listed \subseteq Own
    BY <2>2 DEF RegInv, Lists, Listing
  <2>6. chanDisk = channels
    BY <2>2, <2>3
  <2> QED
    BY <2>4, <2>5, <2>6 DEF Rec
<1> QED
  BY <1>1, RegInvHolds, PTL

(* The parents of a stored message are stored, unless messages were being received while  *)
(* the channel was removed.                                                               *)
THEOREM StoreStaysClosed == Spec => []StoreClosed
<1>1. MessageInv => StoreClosed
  BY DEF MessageInv, Closed, StoreClosed
<1> QED
  BY <1>1, RegInvHolds, PTL

(* A chain or a message of a channel that does not exist belongs to a call that will take *)
(* it away, or add the channel; a channel made here has an owner until the identity is    *)
(* removed.  This is invariant, together with RegInv.                                     *)
THEOREM LeftInvHolds == Spec => [](LeftInv /\ OwnInv)
<1>1. Init => LeftInv /\ OwnInv
  BY LeftInit, OwnInit
<1>2. RegInv /\ RegInv' /\ MessageInv /\ MessageInv' /\ (LeftInv /\ OwnInv) /\ [Next]_vars => (LeftInv /\ OwnInv)'
  BY LeftNext
<1> QED
  BY <1>1, <1>2, RegInvHolds, PTL DEF Spec

(* removeChannel() leaves nothing of the channel behind, neither messages nor chains, if  *)
(* it ends and no other call that concerns the channel runs at the same time.             *)
THEOREM LeftoversHold == Spec => []LeftoversExplained
<1>1. RegInv /\ LeftInv => LeftoversExplained
  <2> SUFFICES ASSUME RegInv, LeftInv, up = "yes", queue = << >>, NEW k \in Key, channels[k] = None, Fine(k)
               PROVE  messages[k] = {} /\ \A i \in Listed \ usedGone : k \notin chains[i]
    BY DEF LeftoversExplained, Quiet, Fine
  <2>1. Mem(k) = None
    BY DEF Mem
  <2>2. \A s \in Slot : call[s].op \in {"idle", "join"} /\ (call[s].op = "join" => call[s].step = "invited")
    BY QuietCalls DEF RegInv
  <2>3. messages[k] = {}
    BY <2>1, <2>2 DEF LeftInv, MessagesPass, Removing
  <2>4. ~NotYet(k)
    BY <2>2 DEF NotYet, Removing
  <2>5. \A p \in Nat : ~Cleaning(p, k)
    BY EmptySeq DEF Cleaning
  <2> QED
    BY <2>1, <2>3, <2>4, <2>5 DEF LeftInv, ChainsPass
<1> QED
  BY <1>1, RegInvHolds, LeftInvHolds, PTL

(* Someone can post to a channel that was made here: its identity is listed and has the   *)
(* chain of an owner, also after a restart, until it is removed, unless the call that     *)
(* made them failed or was cut short.                                                     *)
THEOREM OrphansHold == Spec => []OrphansExplained
<1>1. RegInv /\ OwnInv => OrphansExplained
  <2> SUFFICES ASSUME RegInv, OwnInv, up = "yes", queue = << >>, NEW k \in Own \ (gone \cup excused), channels[k] # None
               PROVE  k \in Listed /\ k \in chains[k]
    BY DEF OrphansExplained, Quiet
  <2>1. \A s \in Slot : call[s].op \in {"idle", "join"}
    BY QuietCalls DEF RegInv
  <2>2. Mem(k) # None /\ ~MakingSaved(k)
    BY <2>1 DEF Mem, MakingSaved
  <2> QED
    BY <2>2 DEF OwnInv, Owned
<1> QED
  BY <1>1, RegInvHolds, LeftInvHolds, PTL

=============================================================================
