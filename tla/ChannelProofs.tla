--------------------------- MODULE ChannelProofs ---------------------------
(***************************************************************************)
(* Theorems about Channel, for every number of replicas, calls in flight   *)
(* and messages: the stores stay closed under parents, the leaf set that   *)
(* memory.js maintains is exact, and no honest message is refused.  With   *)
(* one call at a time per channel, the caches agree with the backend, and  *)
(* posts and queries take account of all that was added before.            *)
(***************************************************************************)
EXTENDS Channel, Integers, FiniteSetTheorems, WellFoundedInduction, TLAPS

-----------------------------------------------------------------------------
(* The greatest and the least element of sets of numbers *)

(* A finite nonempty set of integers has a greatest element.  Otherwise    *)
(* take a smallest nonempty subset without one and drop an element.        *)
LEMMA MaximumExists ==
  ASSUME NEW S \in SUBSET Int, IsFiniteSet(S), S # {}
  PROVE  \E m \in S : \A x \in S : x <= m
<1> DEFINE HasMax(A) == \E m \in A : \A x \in A : x <= m
           Bad == {A \in SUBSET S : A # {} /\ ~HasMax(A)}
<1> SUFFICES ASSUME ~HasMax(S) PROVE FALSE
  OBVIOUS
<1>1. IsWellFoundedOn(StrictSubsetOrdering(S), SUBSET S)
  BY FS_StrictSubsetOrderingWellFounded, FS_FiniteSubsetsOfFinite
<1>2. Bad \subseteq SUBSET S /\ Bad # {}
  OBVIOUS
<1>3. PICK A \in Bad : \A B \in Bad : <<B, A>> \notin StrictSubsetOrdering(S)
  <2> HIDE DEF Bad
  <2>1. \E A \in Bad : \A B \in Bad : ~(<<B, A>> \in StrictSubsetOrdering(S))
    BY <1>1, <1>2, WFMin
  <2> QED
    BY <2>1
<1>4. PICK a \in A : TRUE
  OBVIOUS
<1> DEFINE B == A \ {a}
<1>5. B # {}
  <2> SUFFICES ASSUME B = {} PROVE FALSE
    OBVIOUS
  <2>1. A = {a} /\ a \in Int
    BY <1>4
  <2> QED
    BY <2>1
<1>6. <<B, A>> \in StrictSubsetOrdering(S)
  BY <1>4 DEF StrictSubsetOrdering
<1>7. HasMax(B)
  BY <1>3, <1>5, <1>6
<1>8. PICK m \in B : \A x \in B : x <= m
  BY <1>7
<1>9. a \in Int /\ m \in Int /\ A = B \cup {a}
  BY <1>4
<1>10. CASE a <= m
  <2>1. \A x \in A : x <= m
    BY <1>8, <1>9
  <2> QED
    BY <1>8, <1>9, <2>1
<1>11. CASE m <= a
  <2>1. \A x \in A : x <= a
    BY <1>8, <1>9, <1>11
  <2> QED
    BY <1>4, <2>1
<1> QED
  BY <1>9, <1>10, <1>11

(* The greatest element of a finite nonempty set of integers is Max of it. *)
LEMMA MaxProperty ==
  ASSUME NEW S \in SUBSET Int, IsFiniteSet(S), S # {}
  PROVE  Max(S) \in S /\ \A x \in S : x <= Max(S)
<1>1. \E m \in S : \A x \in S : x <= m
  BY MaximumExists
<1>2. \E m \in S : \A x \in S : m >= x
  BY <1>1
<1>3. Max(S) \in S /\ \A x \in S : Max(S) >= x
  BY <1>2, Zenon DEF Max
<1> QED
  BY <1>3

(* Every nonempty set of natural numbers has a least element. *)
LEMMA MinProperty ==
  ASSUME NEW S \in SUBSET Nat, S # {}
  PROVE  Min(S) \in S /\ \A x \in S : Min(S) <= x
<1>1. PICK m \in S : \A x \in S : ~(<<x, m>> \in OpToRel(<, Nat))
  BY NatLessThanWellFounded, WFMin, Zenon
<1>2. \A x \in S : ~(x < m)
  BY <1>1 DEF OpToRel
<1>3. \E k \in S : \A x \in S : k <= x
  BY <1>2
<1> QED
  BY <1>3, Zenon DEF Min

(* A function has finitely many values on a finite set. *)
LEMMA ImageFinite ==
  ASSUME NEW S, IsFiniteSet(S), NEW f
  PROVE  IsFiniteSet({f[h] : h \in S})
<1> DEFINE T == {f[h] : h \in S}
           g == [h \in S |-> f[h]]
<1>1. g \in Surjection(S, T)
  BY DEF Surjection
<1> QED
  BY <1>1, FS_Surjection

-----------------------------------------------------------------------------
(* Maxima of what channel.js computes over parents *)

LEMMA MaxOfZero == Max({0}) = 0
<1>1. {0} \in SUBSET Int /\ IsFiniteSet({0}) /\ {0} # {}
  BY FS_Singleton
<1>2. Max({0}) \in {0}
  BY <1>1, MaxProperty
<1> QED
  BY <1>2

(* What parents.reduce() with Math.max returns: the greatest of n and of f  *)
(* over S, and the same with every f[h] raised by one.                     *)
MaxOver(n, f, S) == Max({n} \cup {f[h] : h \in S})
MaxAbove(f, S) == Max({0} \cup {f[h] + 1 : h \in S})

LEMMA MaxOverProperty ==
  ASSUME NEW S, IsFiniteSet(S), NEW f, \A h \in S : f[h] \in Nat, NEW n \in Nat
  PROVE  /\ MaxOver(n, f, S) \in Nat /\ n <= MaxOver(n, f, S)
         /\ \A h \in S : f[h] <= MaxOver(n, f, S)
         /\ \A b \in Nat :
              n <= b /\ (\A h \in S : f[h] <= b) => MaxOver(n, f, S) <= b
<1> DEFINE T == {n} \cup {f[h] : h \in S}
<1>1. IsFiniteSet(T)
  <2>1. IsFiniteSet({f[h] : h \in S})
    BY ImageFinite
  <2>2. IsFiniteSet({n})
    BY FS_Singleton
  <2> QED
    BY <2>1, <2>2, FS_Union
<1>2. T \in SUBSET Nat /\ T # {}
  OBVIOUS
<1>3. T \in SUBSET Int
  BY <1>2
<1>4. Max(T) \in T /\ \A x \in T : x <= Max(T)
  BY <1>1, <1>2, <1>3, MaxProperty
<1>5. Max(T) \in Nat
  BY <1>2, <1>4
<1>6. n <= Max(T) /\ \A h \in S : f[h] <= Max(T)
  BY <1>4
<1>7. ASSUME NEW b \in Nat, n <= b, \A h \in S : f[h] <= b PROVE Max(T) <= b
  <2> HIDE DEF T
  <2>1. \A x \in T : x <= b
    BY <1>7 DEF T
  <2> QED
    BY <2>1, <1>4
<1> QED
  BY <1>5, <1>6, <1>7 DEF MaxOver

LEMMA MaxAboveProperty ==
  ASSUME NEW S, IsFiniteSet(S), NEW f, \A h \in S : f[h] \in Nat
  PROVE  /\ MaxAbove(f, S) \in Nat
         /\ \A h \in S : f[h] < MaxAbove(f, S)
         /\ \A b \in Nat : (\A h \in S : f[h] < b) => MaxAbove(f, S) <= b
<1> DEFINE g == [h \in S |-> f[h] + 1]
<1>1. \A h \in S : g[h] \in Nat /\ g[h] = f[h] + 1
  OBVIOUS
<1>2. MaxOver(0, g, S) = MaxAbove(f, S)
  <2>1. {g[h] : h \in S} = {f[h] + 1 : h \in S}
    OBVIOUS
  <2> QED
    BY <2>1 DEF MaxOver, MaxAbove
<1> HIDE DEF g
<1>3. /\ MaxOver(0, g, S) \in Nat
      /\ \A h \in S : g[h] <= MaxOver(0, g, S)
      /\ \A b \in Nat : 0 <= b /\ (\A h \in S : g[h] <= b) => MaxOver(0, g, S) <= b
  BY <1>1, MaxOverProperty
<1>4. \A h \in S : f[h] < MaxAbove(f, S)
  BY <1>1, <1>2, <1>3
<1>5. ASSUME NEW b \in Nat, \A h \in S : f[h] < b PROVE MaxAbove(f, S) <= b
  <2>1. \A h \in S : g[h] <= b
    BY <1>1, <1>5
  <2> QED
    BY <1>2, <1>3, <2>1
<1> QED
  BY <1>2, <1>3, <1>4, <1>5

(* The helpers of channel.js are these maxima over the current state.      *)
LEMMA ReducersAreMaxima ==
  ASSUME NEW S, NEW n
  PROVE  /\ ComputeHeight(S) = MaxAbove(height, S)
         /\ ComputeMaxTimestamp(S) = MaxOver(0, time, S)
         /\ AdjustTimestamp(S, n) = MaxOver(n, time, S)
BY DEF ComputeHeight, ComputeMaxTimestamp, AdjustTimestamp, MaxAbove, MaxOver

-----------------------------------------------------------------------------
(* What every signed message satisfies: exactly the checks of receive().   *)
SignedOK(h) ==
  /\ parents[h] \subseteq created /\ h \notin parents[h]
  /\ height[h] < Cardinality(created)
  /\ ParentCountOK(h) /\ ParentDeltaOK(h) /\ HeightOK(h)
  /\ NotPast(h) /\ RootOK(h)
  /\ \A r \in Replica : NotFuture(r, h)

Signed == \A h \in created : SignedOK(h)

(* Backend and caches only name messages the replica has. *)
Known ==
  \A r \in Replica :
    /\ store[r] \subseteq created
    /\ cachedLeaves[r] # None => cachedLeaves[r] \subseteq store[r]

(* A call in flight only names messages its replica has, and adds a signed *)
(* message whose parents the replica has.                                  *)
TaskOK(c) ==
  /\ call[c].seen \subseteq store[Home[c]]
  /\ call[c].pc \in {"parents", "store", "invalidate"} => call[c].arg \in created
  /\ call[c].pc \in {"store", "invalidate"} =>
       parents[call[c].arg] \subseteq store[Home[c]]
  /\ call[c].pc \in {"leafHashes", "leafMessages", "leaves"} /\ call[c].op = "post" =>
       call[c].value <= Now(Home[c])

Tasks == \A c \in Call : TaskOK(c)

(* The root message exists from the start, so no post can take its hash.   *)
RootCreated == Root \in created

(* The inductive invariant.  DagClosed alone is not inductive: a call that *)
(* has passed its checks stores later, so the invariant must say that the  *)
(* parents it found are still there, and HonestNotBanned needs every       *)
(* signed message, not only the stored ones, to satisfy the checks.        *)
IInv ==
  /\ TypeOK /\ RootCreated /\ Signed /\ Known /\ Tasks
  /\ DagClosed /\ LeavesExact /\ HonestNotBanned

Task == [op : Op, pc : Pc, arg : Hash \cup {None}, seen : SUBSET Hash,
         value : Nat, due : SUBSET Hash]

-----------------------------------------------------------------------------
(* The initial state *)

LEMMA InitTypeOK == Init => TypeOK
<1> SUFFICES ASSUME Init PROVE TypeOK
  OBVIOUS
<1> USE ConstantsAssumption
<1>1. Cardinality(Hash) \in Nat /\ 0 < Cardinality(Hash)
  BY FS_CardinalityType, FS_EmptySet
<1>2. height \in [Hash -> 0..(Cardinality(Hash) - 1)]
  BY <1>1 DEF Init
<1>3. Idle \in Task
  BY DEF Idle, Task, Op, Pc, Rejection
<1>4. call \in [Call -> Task]
  BY <1>3 DEF Init
<1>5. store \in [Replica -> SUBSET Hash]
  BY DEF Init
<1>6. announced \in [Replica -> [Hash -> Nat]]
  BY DEF Init
<1>7. created \in SUBSET Hash /\ parents \in [Hash -> SUBSET Hash]
      /\ time \in [Hash -> Nat] /\ clock \in 0..MaxClock
  BY DEF Init
<1>8. leaves \in [Replica -> SUBSET Hash] /\ settled \in [Replica -> SUBSET Hash]
  BY <1>5 DEF Init
<1>9. cachedLeaves \in [Replica -> {None} \cup SUBSET Hash]
      /\ cachedCount \in [Replica -> {None} \cup Nat]
  BY DEF Init
<1> QED
  BY <1>2, <1>4, <1>5, <1>6, <1>7, <1>8, <1>9 DEF TypeOK, Task

LEMMA InitIInv == Init => IInv
<1> SUFFICES ASSUME Init PROVE IInv
  OBVIOUS
<1> USE ConstantsAssumption
<1>1. TypeOK
  BY InitTypeOK
<1>2. Signed
  <2> SUFFICES SignedOK(Root)
    BY DEF Init, Signed
  <2>1. parents[Root] = {} /\ height[Root] = 0 /\ time[Root] = Skew[Owner]
    BY DEF Init
  <2>2. Cardinality(created) = 1
    BY FS_Singleton DEF Init
  <2>3. Max({0} \cup {height[h] + 1 : h \in {}}) = 0
    <3>1. {0} \cup {height[h] + 1 : h \in {}} = {0}
      OBVIOUS
    <3> QED
      BY <3>1, MaxOfZero
  <2>4. Max({0} \cup {time[h] : h \in {}}) = 0
    <3>1. {0} \cup {time[h] : h \in {}} = {0}
      OBVIOUS
    <3> QED
      BY <3>1, MaxOfZero
  <2>5. HeightOK(Root)
    BY <2>1, <2>3 DEF HeightOK, ComputeHeight
  <2>6. NotPast(Root) /\ ParentDeltaOK(Root)
    BY <2>1, <2>4 DEF NotPast, ParentDeltaOK, FilterParents, ComputeMaxTimestamp
  <2>7. ParentCountOK(Root)
    BY <2>1, FS_EmptySet DEF ParentCountOK
  <2>8. \A r \in Replica : NotFuture(r, Root)
    BY <2>1, SkewAssumption DEF NotFuture, Now, Init
  <2> QED
    BY <2>1, <2>2, <2>5, <2>6, <2>7, <2>8 DEF SignedOK, RootOK
<1>3. Known /\ RootCreated
  BY DEF Init, Known, RootCreated
<1>4. Tasks /\ HonestNotBanned
  BY DEF Init, Tasks, TaskOK, Idle, HonestNotBanned, At
<1>5. DagClosed /\ LeavesExact
  BY DEF Init, DagClosed, LeavesExact
<1> QED
  BY <1>1, <1>2, <1>3, <1>4, <1>5 DEF IInv

-----------------------------------------------------------------------------
(* Signed messages *)

(* A signed message stays signed correctly when only time passes.          *)
LEMMA SignedStays ==
  ASSUME TypeOK, TypeOK', Signed, UNCHANGED message, clock <= clock'
  PROVE  Signed'
<1> USE ConstantsAssumption
<1>1. created' = created /\ parents' = parents /\ height' = height /\ time' = time
  BY DEF message
<1> SUFFICES ASSUME NEW h \in created PROVE SignedOK(h)'
  BY <1>1 DEF Signed
<1>2. SignedOK(h)
  BY DEF Signed
<1>3. HeightOK(h)' <=> HeightOK(h)
  BY <1>1 DEF HeightOK, ComputeHeight
<1>4. NotPast(h)' <=> NotPast(h)
  BY <1>1 DEF NotPast, ComputeMaxTimestamp
<1>5. ParentDeltaOK(h)' <=> ParentDeltaOK(h)
  BY <1>1 DEF ParentDeltaOK, FilterParents, ComputeMaxTimestamp
<1>6. /\ ParentCountOK(h)' <=> ParentCountOK(h)
      /\ RootOK(h)' <=> RootOK(h)
  BY <1>1 DEF ParentCountOK, RootOK
<1>7. \A r \in Replica : NotFuture(r, h)'
  BY <1>1, <1>2 DEF SignedOK, NotFuture, Now, TypeOK
<1> QED
  BY <1>1, <1>2, <1>3, <1>4, <1>5, <1>6, <1>7 DEF SignedOK

(* What post() makes of the leaves it read: parents it may name.           *)
LEMMA ChosenParents ==
  ASSUME TypeOK, NEW S \in SUBSET Hash, NEW T \in Truncated(S)
  PROVE  /\ FilterParents(T) \in SUBSET S
         /\ IsFiniteSet(FilterParents(T))
         /\ Cardinality(FilterParents(T)) <= MaxLeaves
         /\ \A h \in FilterParents(T) :
              time[h] + ParentDelta >= ComputeMaxTimestamp(FilterParents(T))
<1> USE ConstantsAssumption
<1> DEFINE C == FilterParents(T)
<1>1. T \in SUBSET S /\ Cardinality(T) <= MaxLeaves
  BY DEF Truncated
<1>2. C \in SUBSET T
  BY DEF FilterParents
<1>3. IsFiniteSet(T) /\ IsFiniteSet(C)
  BY <1>1, <1>2, FS_Subset
<1>4. Cardinality(C) <= Cardinality(T) /\ Cardinality(C) \in Nat
      /\ Cardinality(T) \in Nat
  BY <1>2, <1>3, FS_Subset, FS_CardinalityType
<1>5. /\ \A h \in T : time[h] \in Nat
      /\ \A h \in C : time[h] \in Nat
  BY <1>1, <1>2 DEF TypeOK
<1>6. /\ ComputeMaxTimestamp(T) = MaxOver(0, time, T)
      /\ ComputeMaxTimestamp(C) = MaxOver(0, time, C)
  BY ReducersAreMaxima
<1>7. /\ ComputeMaxTimestamp(T) \in Nat
      /\ \A h \in T : time[h] <= ComputeMaxTimestamp(T)
  BY <1>3, <1>5, <1>6, MaxOverProperty
<1>8. /\ ComputeMaxTimestamp(C) \in Nat
      /\ \A b \in Nat : 0 <= b /\ (\A h \in C : time[h] <= b)
           => ComputeMaxTimestamp(C) <= b
  <2> HIDE DEF C
  <2>1. IsFiniteSet(C) /\ \A h \in C : time[h] \in Nat
    BY <1>3, <1>5
  <2> QED
    BY <1>6, <2>1, MaxOverProperty
<1>9. ComputeMaxTimestamp(C) <= ComputeMaxTimestamp(T)
  BY <1>2, <1>7, <1>8
<1>10. \A h \in C : time[h] + ParentDelta >= ComputeMaxTimestamp(T)
  BY DEF FilterParents
<1>11. \A h \in C : time[h] + ParentDelta >= ComputeMaxTimestamp(C)
  <2> HIDE DEF C
  <2> QED
    BY <1>5, <1>7, <1>8, <1>9, <1>10
<1> QED
  BY <1>1, <1>2, <1>3, <1>4, <1>11

(* The message that post() signs satisfies the checks of receive(), and    *)
(* the messages signed before it are not affected.                         *)
LEMMA BuildSigned ==
  ASSUME IInv, NEW c \in Call, NEW h \in Hash, PostBuild(c, h)
  PROVE  /\ Signed'
         /\ parents'[h] \in SUBSET store[Home[c]]
         /\ created' \in SUBSET Hash
         /\ parents' \in [Hash -> SUBSET Hash]
         /\ height' \in [Hash -> 0..(Cardinality(Hash) - 1)]
         /\ time' \in [Hash -> Nat]
<1> USE ConstantsAssumption
<1> DEFINE r == Home[c]
           v == call[c].value
<1>1. PICK T \in Truncated(call[c].seen) :
        /\ FilterParents(T) # {}
        /\ created' = created \cup {h}
        /\ parents' = [parents EXCEPT ![h] = FilterParents(T)]
        /\ height' = [height EXCEPT ![h] = ComputeHeight(FilterParents(T))]
        /\ time' = [time EXCEPT ![h] = AdjustTimestamp(FilterParents(T), v)]
  BY DEF PostBuild
<1>2. /\ h \notin created /\ clock' = clock
      /\ call[c].pc = "leaves" /\ call[c].op = "post"
  BY DEF PostBuild, At
<1>3. /\ TypeOK /\ Signed /\ r \in Replica
      /\ call[c].seen \subseteq store[r] /\ store[r] \subseteq created
      /\ v <= Now(r) /\ v \in Nat /\ clock \in Nat
  BY <1>2 DEF IInv, Tasks, TaskOK, Known, TypeOK
<1>4. call[c].seen \in SUBSET Hash /\ created \in SUBSET Hash
  BY DEF IInv, TypeOK
<1> DEFINE C == FilterParents(T)
<1>5. /\ C \in SUBSET call[c].seen /\ IsFiniteSet(C) /\ Cardinality(C) <= MaxLeaves
      /\ \A k \in C : time[k] + ParentDelta >= ComputeMaxTimestamp(C)
  BY <1>3, <1>4, ChosenParents
<1> HIDE DEF C, v
<1>6. /\ C \in SUBSET created /\ C \in SUBSET store[r] /\ C \in SUBSET Hash /\ C # {}
      /\ h \notin C
  BY <1>1, <1>2, <1>3, <1>4, <1>5 DEF C
<1>7. /\ \A k \in C : height[k] \in Nat /\ time[k] \in Nat
      /\ \A k \in C : height[k] < Cardinality(created)
      /\ \A k \in C, q \in Replica : time[k] <= Now(q) + Future
  BY <1>3, <1>6 DEF TypeOK, Signed, SignedOK, NotFuture
<1>a. /\ IsFiniteSet(C) /\ v \in Nat /\ 0 \in Nat
      /\ \A k \in C : time[k] \in Nat
  BY <1>3, <1>5, <1>7
<1>8. /\ Cardinality(created) \in Nat /\ Cardinality(Hash) \in Nat
      /\ Cardinality(created') = Cardinality(created) + 1
      /\ Cardinality(created') <= Cardinality(Hash)
  <2>1. IsFiniteSet(created) /\ created' \in SUBSET Hash
    BY <1>1, <1>4, FS_Subset
  <2>2. Cardinality(created') = Cardinality(created) + 1
    BY <1>1, <1>2, <2>1, FS_AddElement
  <2> QED
    BY <2>1, <2>2, FS_Subset, FS_CardinalityType
<1>9. ComputeHeight(C) \in Nat /\ ComputeHeight(C) <= Cardinality(created)
  BY <1>5, <1>7, <1>8, MaxAboveProperty, ReducersAreMaxima
<1>10. ComputeMaxTimestamp(C) = MaxOver(0, time, C)
       /\ AdjustTimestamp(C, v) = MaxOver(v, time, C)
  BY ReducersAreMaxima
<1>11. ComputeMaxTimestamp(C) \in Nat
  BY <1>a, <1>10, MaxOverProperty
<1>12. /\ AdjustTimestamp(C, v) \in Nat
       /\ v <= AdjustTimestamp(C, v)
       /\ \A k \in C : time[k] <= AdjustTimestamp(C, v)
  BY <1>a, <1>10, MaxOverProperty
<1>13. ComputeMaxTimestamp(C) <= AdjustTimestamp(C, v)
  BY <1>a, <1>10, <1>12, MaxOverProperty
<1>14. ASSUME NEW q \in Replica
       PROVE  AdjustTimestamp(C, v) <= Now(q) + Future
  <2>1. Now(q) + Future \in Nat /\ v <= Now(q) + Future
    BY <1>3, SkewAssumption DEF Now
  <2> QED
    BY <1>a, <1>7, <1>10, <2>1, MaxOverProperty
<1>15. /\ created' \in SUBSET Hash
       /\ parents' \in [Hash -> SUBSET Hash]
       /\ height' \in [Hash -> 0..(Cardinality(Hash) - 1)]
       /\ time' \in [Hash -> Nat]
  <2>1. ComputeHeight(C) \in 0..(Cardinality(Hash) - 1)
    BY <1>8, <1>9
  <2> QED
    BY <1>1, <1>3, <1>6, <1>12, <2>1 DEF C, TypeOK
<1>16. /\ parents'[h] = C /\ height'[h] = ComputeHeight(C)
       /\ time'[h] = AdjustTimestamp(C, v)
       /\ \A k \in created : /\ parents'[k] = parents[k] /\ height'[k] = height[k]
                             /\ time'[k] = time[k]
  BY <1>1, <1>2, <1>3, <1>4 DEF C, TypeOK
<1>17. ASSUME NEW S \in SUBSET created
       PROVE  /\ {height'[k] + 1 : k \in S} = {height[k] + 1 : k \in S}
              /\ {time'[k] : k \in S} = {time[k] : k \in S}
  BY <1>16
<1>18. SignedOK(h)'
  <2>1. ParentCountOK(h)' /\ RootOK(h)'
    <3>1. h # Root
      BY <1>2 DEF IInv, RootCreated
    <3> QED
      BY <1>5, <1>6, <1>16, <3>1 DEF ParentCountOK, RootOK
  <2>2. HeightOK(h)'
    BY <1>6, <1>16, <1>17 DEF HeightOK, ComputeHeight
  <2>3. NotPast(h)'
    BY <1>6, <1>13, <1>16, <1>17, <1>11, <1>12 DEF NotPast, ComputeMaxTimestamp
  <2>4. ParentDeltaOK(h)'
    <3>1. \A k \in C : time'[k] = time[k]
      BY <1>6, <1>16
    <3> QED
      BY <1>5, <1>6, <1>16, <1>17, <3>1
      DEF ParentDeltaOK, FilterParents, ComputeMaxTimestamp
  <2>5. \A q \in Replica : NotFuture(q, h)'
    BY <1>2, <1>14, <1>16 DEF NotFuture, Now
  <2>6. height'[h] < Cardinality(created')
    BY <1>8, <1>9, <1>16
  <2> QED
    BY <1>1, <1>6, <1>16, <2>1, <2>2, <2>3, <2>4, <2>5, <2>6 DEF SignedOK
<1>19. ASSUME NEW k \in created PROVE SignedOK(k)'
  <2>1. SignedOK(k)
    BY <1>3 DEF Signed
  <2>2. parents[k] \in SUBSET created /\ parents'[k] = parents[k]
    BY <1>16, <2>1 DEF SignedOK
  <2>3. ParentCountOK(k)' /\ RootOK(k)'
    BY <2>1, <2>2 DEF SignedOK, ParentCountOK, RootOK
  <2>4. HeightOK(k)'
    BY <1>16, <1>17, <2>1, <2>2 DEF SignedOK, HeightOK, ComputeHeight
  <2>5. NotPast(k)'
    BY <1>16, <1>17, <2>1, <2>2 DEF SignedOK, NotPast, ComputeMaxTimestamp
  <2>6. ParentDeltaOK(k)'
    <3>1. \A x \in parents[k] : time'[x] = time[x]
      BY <1>16, <2>2
    <3> QED
      BY <1>17, <2>1, <2>2, <3>1
      DEF SignedOK, ParentDeltaOK, FilterParents, ComputeMaxTimestamp
  <2>7. \A q \in Replica : NotFuture(q, k)'
    BY <1>2, <1>16, <2>1 DEF SignedOK, NotFuture, Now
  <2>8. height'[k] < Cardinality(created')
    BY <1>3, <1>4, <1>8, <1>16, <2>1 DEF SignedOK, TypeOK
  <2> QED
    BY <1>1, <2>1, <2>2, <2>3, <2>4, <2>5, <2>6, <2>7, <2>8 DEF SignedOK
<1>20. Signed'
  BY <1>1, <1>18, <1>19 DEF Signed
<1> QED
  BY <1>6, <1>15, <1>16, <1>20

-----------------------------------------------------------------------------
(* Steps *)

(* What the next state t of call c must satisfy for TaskOK(c) to hold in   *)
(* the next state.                                                         *)
TaskFits(c, t) ==
  /\ t \in Task
  /\ t.seen \subseteq store[Home[c]]
  /\ t.pc \in {"parents", "store", "invalidate"} => t.arg \in created
  /\ t.pc \in {"store", "invalidate"} => parents[t.arg] \subseteq store[Home[c]]
  /\ t.pc \in {"leafHashes", "leafMessages", "leaves"} /\ t.op = "post" =>
       t.value <= Now(Home[c])
  /\ t.pc # "banned"

(* Every step that signs and stores nothing: one call moves on, and the    *)
(* caches and the history may change.                                      *)
LEMMA CallStep ==
  ASSUME IInv, UNCHANGED <<message, clock, backend>>,
         NEW c \in Call, NEW t, TaskFits(c, t), call' = [call EXCEPT ![c] = t],
         cachedLeaves' \in [Replica -> {None} \cup SUBSET Hash],
         \A r \in Replica : cachedLeaves'[r] # None => cachedLeaves'[r] \subseteq store[r],
         cachedCount' \in [Replica -> {None} \cup Nat],
         settled' \in [Replica -> SUBSET Hash],
         announced' \in [Replica -> [Hash -> Nat]]
  PROVE  IInv'
<1> USE ConstantsAssumption
<1>1. /\ UNCHANGED message /\ clock' = clock /\ store' = store /\ leaves' = leaves
      /\ created' = created /\ parents' = parents /\ height' = height /\ time' = time
  BY DEF message, backend
<1>2. call \in [Call -> Task] /\ TypeOK
  BY DEF IInv, TypeOK, Task
<1>3. call' \in [Call -> Task] /\ call'[c] = t
      /\ \A d \in Call : d # c => call'[d] = call[d]
  BY <1>2 DEF TaskFits
<1>4. TypeOK'
  BY <1>1, <1>2, <1>3 DEF TypeOK, Task
<1>5. Signed'
  <2>1. clock <= clock'
    BY <1>1, <1>2 DEF TypeOK
  <2> QED
    BY <1>1, <1>2, <1>4, <2>1, SignedStays DEF IInv
<1>6. Known' /\ RootCreated'
  BY <1>1 DEF IInv, Known, RootCreated
<1>7. Tasks'
  <2> SUFFICES ASSUME NEW d \in Call PROVE TaskOK(d)'
    BY DEF Tasks
  <2>1. CASE d = c
    BY <1>1, <1>3, <2>1 DEF TaskFits, TaskOK, Now
  <2>2. CASE d # c
    <3>1. TaskOK(d)
      BY DEF IInv, Tasks
    <3> QED
      BY <1>1, <1>3, <2>2, <3>1 DEF TaskOK, Now
  <2> QED
    BY <2>1, <2>2
<1>8. DagClosed' /\ LeavesExact'
  BY <1>1 DEF IInv, DagClosed, LeavesExact
<1>9. HonestNotBanned'
  BY <1>3 DEF IInv, HonestNotBanned, At, TaskFits
<1> QED
  BY <1>4, <1>5, <1>6, <1>7, <1>8, <1>9 DEF IInv

(* The same when the caches and the history stay as they are.              *)
LEMMA PlainCallStep ==
  ASSUME IInv, UNCHANGED <<message, clock, backend, cache, history>>,
         NEW c \in Call, NEW t, TaskFits(c, t), call' = [call EXCEPT ![c] = t]
  PROVE  IInv'
<1>1. UNCHANGED <<message, clock, backend>>
      /\ cachedLeaves' = cachedLeaves /\ cachedCount' = cachedCount
      /\ settled' = settled /\ announced' = announced
  BY DEF cache, history
<1>2. /\ cachedLeaves' \in [Replica -> {None} \cup SUBSET Hash]
      /\ cachedCount' \in [Replica -> {None} \cup Nat]
      /\ settled' \in [Replica -> SUBSET Hash]
      /\ announced' \in [Replica -> [Hash -> Nat]]
  BY <1>1 DEF IInv, TypeOK
<1>3. \A r \in Replica : cachedLeaves'[r] # None => cachedLeaves'[r] \subseteq store[r]
  BY <1>1 DEF IInv, Known
<1> QED
  BY <1>1, <1>2, <1>3, CallStep

LEMMA BeginTask ==
  ASSUME TypeOK, NEW r \in Replica, NEW op \in Op, NEW v \in Nat
  PROVE  /\ Begin(r, op, v) \in Task
         /\ Begin(r, op, v).op = op /\ Begin(r, op, v).seen = {}
         /\ Begin(r, op, v).value = v /\ Begin(r, op, v).pc = "idle"
<1>1. settled[r] \in SUBSET Hash
  BY DEF TypeOK
<1>2. Begin(r, op, v) = [op |-> op, pc |-> "idle", arg |-> None, seen |-> {},
                         value |-> v, due |-> settled[r]]
  BY DEF Begin
<1> QED
  BY <1>1, <1>2 DEF Task, Pc

LEMMA IdleFits ==
  ASSUME NEW c \in Call PROVE TaskFits(c, Idle)
BY DEF TaskFits, Idle, Task, Op, Pc

LEMMA AskLeavesFits ==
  ASSUME IInv, NEW c \in Call, NEW op \in {"post", "query"}, NEW v \in Nat,
         op = "post" => v <= Now(Home[c])
  PROVE  TaskFits(c, AskLeaves(Home[c], Begin(Home[c], op, v)))
<1> USE ConstantsAssumption
<1> DEFINE r == Home[c]
           b == Begin(r, op, v)
<1>1. r \in Replica /\ op \in Op
  BY DEF Op
<1>2. b \in Task /\ b.op = op /\ b.seen = {} /\ b.value = v
  BY <1>1, BeginTask DEF IInv
<1> SUFFICES TaskFits(c, AskLeaves(r, b))
  OBVIOUS
<1> HIDE DEF b
<1>3. CASE cachedLeaves[r] = None
  <2>1. AskLeaves(r, b) = [b EXCEPT !.pc = "leafHashes"]
    BY <1>3 DEF AskLeaves
  <2> QED
    BY <1>2, <2>1 DEF TaskFits, Task, Pc
<1>4. CASE cachedLeaves[r] # None
  <2>1. AskLeaves(r, b) = [b EXCEPT !.pc = "leaves", !.seen = cachedLeaves[r]]
    BY <1>4 DEF AskLeaves
  <2>2. cachedLeaves[r] \in SUBSET Hash /\ cachedLeaves[r] \subseteq store[r]
    BY <1>1, <1>4 DEF IInv, TypeOK, Known
  <2> QED
    BY <1>2, <2>1, <2>2 DEF TaskFits, Task, Pc
<1> QED
  BY <1>3, <1>4

LEMMA AskCountFits ==
  ASSUME IInv, NEW c \in Call, NEW b \in Task, b.seen \subseteq store[Home[c]]
  PROVE  TaskFits(c, AskCount(Home[c], b))
<1> USE ConstantsAssumption
<1>1. CASE cachedCount[Home[c]] = None
  <2>1. AskCount(Home[c], b) = [b EXCEPT !.pc = "countRead"]
    BY <1>1 DEF AskCount
  <2> QED
    BY <2>1 DEF TaskFits, Task, Pc
<1>2. CASE cachedCount[Home[c]] # None
  <2>1. AskCount(Home[c], b) =
          [b EXCEPT !.pc = "counted", !.value = cachedCount[Home[c]]]
    BY <1>2 DEF AskCount
  <2>2. cachedCount[Home[c]] \in Nat
    BY <1>2 DEF IInv, TypeOK
  <2> QED
    BY <2>1, <2>2 DEF TaskFits, Task, Pc
<1> QED
  BY <1>1, <1>2

-----------------------------------------------------------------------------
(* One lemma per group of actions *)

LEMMA LeafSteps ==
  ASSUME IInv, NEW c \in Call, ReadLeafHashes(c) \/ FillLeaves(c)
  PROVE  IInv'
<1> USE ConstantsAssumption
<1> DEFINE r == Home[c]
<1>1. /\ r \in Replica /\ call[c] \in Task /\ TaskOK(c)
      /\ leaves[r] \in SUBSET Hash /\ leaves[r] \subseteq store[r]
  BY DEF IInv, TypeOK, Task, Tasks, LeavesExact
<1>2. CASE ReadLeafHashes(c)
  <2> DEFINE t == [call[c] EXCEPT !.pc = "leafMessages", !.seen = leaves[r]]
  <2>1. /\ UNCHANGED <<message, clock, backend, cache, history>>
        /\ call[c].pc = "leafHashes"
        /\ call' = [call EXCEPT ![c] = t]
    BY <1>2 DEF ReadLeafHashes, At
  <2>2. TaskFits(c, t)
    BY <1>1, <2>1 DEF TaskFits, TaskOK, Task, Pc
  <2> HIDE DEF t
  <2> QED
    BY <2>1, <2>2, PlainCallStep
<1>3. CASE FillLeaves(c)
  <2> DEFINE t == [call[c] EXCEPT !.pc = "leaves"]
  <2>1. /\ UNCHANGED <<message, clock, backend, cachedCount, history>>
        /\ call[c].pc = "leafMessages"
        /\ call' = [call EXCEPT ![c] = t]
        /\ cachedLeaves' = [cachedLeaves EXCEPT ![r] = call[c].seen]
    BY <1>3 DEF FillLeaves, At, Goto
  <2>2. TaskFits(c, t)
    BY <1>1, <2>1 DEF TaskFits, TaskOK, Task, Pc
  <2>3. call[c].seen \in SUBSET Hash /\ call[c].seen \subseteq store[r]
    BY <1>1 DEF TaskOK, Task
  <2>4. /\ cachedLeaves' \in [Replica -> {None} \cup SUBSET Hash]
        /\ \A q \in Replica :
             cachedLeaves'[q] # None => cachedLeaves'[q] \subseteq store[q]
    BY <1>1, <2>1, <2>3 DEF IInv, TypeOK, Known
  <2>5. /\ cachedCount' \in [Replica -> {None} \cup Nat]
        /\ settled' \in [Replica -> SUBSET Hash]
        /\ announced' \in [Replica -> [Hash -> Nat]]
    BY <2>1 DEF IInv, TypeOK, history
  <2> HIDE DEF t
  <2> QED
    BY <2>1, <2>2, <2>4, <2>5, CallStep
<1> QED
  BY <1>2, <1>3

LEMMA CountSteps ==
  ASSUME IInv, NEW c \in Call,
         ReadCount(c) \/ FillCount(c) \/ CountStart(c)
  PROVE  IInv'
<1> USE ConstantsAssumption
<1> DEFINE r == Home[c]
<1>1. /\ r \in Replica /\ call[c] \in Task /\ TaskOK(c)
      /\ Cardinality(store[r]) \in Nat
  <2>1. r \in Replica /\ store[r] \in SUBSET Hash
    BY DEF IInv, TypeOK
  <2> QED
    BY <2>1, FS_Subset, FS_CardinalityType DEF IInv, TypeOK, Task, Tasks
<1>2. CASE ReadCount(c)
  <2> DEFINE t == [call[c] EXCEPT !.pc = "countFill", !.value = Cardinality(store[r])]
  <2>1. /\ UNCHANGED <<message, clock, backend, cache, history>>
        /\ call' = [call EXCEPT ![c] = t]
    BY <1>2 DEF ReadCount
  <2>2. TaskFits(c, t)
    BY <1>1 DEF TaskFits, TaskOK, Task, Pc
  <2> HIDE DEF t
  <2> QED
    BY <2>1, <2>2, PlainCallStep
<1>3. CASE FillCount(c)
  <2> DEFINE t == [call[c] EXCEPT !.pc = "counted"]
  <2>1. /\ UNCHANGED <<message, clock, backend, cachedLeaves, history>>
        /\ call' = [call EXCEPT ![c] = t]
        /\ cachedCount' = [cachedCount EXCEPT ![r] = call[c].value]
    BY <1>3 DEF FillCount, Goto
  <2>2. TaskFits(c, t)
    BY <1>1 DEF TaskFits, TaskOK, Task, Pc
  <2>3. call[c].value \in Nat
    BY <1>1 DEF Task
  <2>4. /\ cachedCount' \in [Replica -> {None} \cup Nat]
        /\ cachedLeaves' \in [Replica -> {None} \cup SUBSET Hash]
        /\ settled' \in [Replica -> SUBSET Hash]
        /\ announced' \in [Replica -> [Hash -> Nat]]
    BY <1>1, <2>1, <2>3 DEF IInv, TypeOK, history
  <2>5. \A q \in Replica : cachedLeaves'[q] # None => cachedLeaves'[q] \subseteq store[q]
    BY <2>1 DEF IInv, Known
  <2> HIDE DEF t
  <2> QED
    BY <2>1, <2>2, <2>4, <2>5, CallStep
<1>4. CASE CountStart(c)
  <2> DEFINE b == Begin(r, "count", 0)
  <2>1. /\ UNCHANGED <<message, clock, backend, cache, history>>
        /\ call' = [call EXCEPT ![c] = AskCount(r, b)]
    BY <1>4 DEF CountStart
  <2>2. "count" \in Op /\ TypeOK
    BY DEF Op, IInv
  <2>3. b \in Task /\ b.seen = {}
    BY <1>1, <2>2, BeginTask
  <2> HIDE DEF b
  <2>4. TaskFits(c, AskCount(r, b))
    BY <2>3, AskCountFits
  <2> QED
    BY <2>1, <2>4, PlainCallStep
<1> QED
  BY <1>2, <1>3, <1>4

LEMMA PostSteps ==
  ASSUME IInv, NEW c \in Call,
         PostStart(c) \/ PostNoParents(c) \/ PostFail(c)
  PROVE  IInv'
<1> USE ConstantsAssumption
<1> DEFINE r == Home[c]
<1>1. r \in Replica /\ call[c] \in Task /\ TaskOK(c)
  BY DEF IInv, TypeOK, Task, Tasks
<1>2. CASE PostStart(c)
  <2>1. /\ UNCHANGED <<message, clock, backend, cache, history>>
        /\ call' = [call EXCEPT ![c] = AskLeaves(r, Begin(r, "post", Now(r)))]
    BY <1>2 DEF PostStart
  <2>2. Now(r) \in Nat /\ Now(r) <= Now(r)
    BY <1>1 DEF IInv, TypeOK, Now
  <2>3. TaskFits(c, AskLeaves(r, Begin(r, "post", Now(r))))
    BY <2>2, AskLeavesFits
  <2> QED
    BY <2>1, <2>3, PlainCallStep
<1>3. CASE PostNoParents(c)
  <2>1. /\ UNCHANGED <<message, clock, backend, cache, history>>
        /\ call' = [call EXCEPT ![c] = AskCount(r, call[c])]
    BY <1>3 DEF PostNoParents
  <2>2. TaskFits(c, AskCount(r, call[c]))
    BY <1>1, AskCountFits DEF TaskOK
  <2> QED
    BY <2>1, <2>2, PlainCallStep
<1>4. CASE PostFail(c)
  <2> DEFINE pc == IF call[c].value = 0 THEN "notReady" ELSE "internalError"
             t == [call[c] EXCEPT !.pc = pc]
  <2>1. /\ UNCHANGED <<message, clock, backend, cache, history>>
        /\ call' = [call EXCEPT ![c] = t]
    BY <1>4 DEF PostFail, Goto
  <2>2. pc \in {"notReady", "internalError"}
    OBVIOUS
  <2> HIDE DEF pc
  <2>3. TaskFits(c, t)
    BY <1>1, <2>2 DEF TaskFits, TaskOK, Task, Pc, Rejection
  <2> HIDE DEF t
  <2> QED
    BY <2>1, <2>3, PlainCallStep
<1> QED
  BY <1>2, <1>3, <1>4

LEMMA QuerySteps ==
  ASSUME IInv, NEW c \in Call,
         QueryClamp(c) \/ \E cursor \in 0..Cardinality(Hash) : QueryStart(c, cursor)
  PROVE  IInv'
<1> USE ConstantsAssumption
<1> DEFINE r == Home[c]
<1>1. /\ r \in Replica /\ call[c] \in Task /\ TaskOK(c)
      /\ Cardinality(Hash) \in Nat
  BY FS_CardinalityType DEF IInv, TypeOK, Task, Tasks
<1>2. CASE QueryClamp(c)
  <2>1. PICK T \in Truncated(call[c].seen) :
          call' = [call EXCEPT ![c].pc = "page", ![c].seen = {},
                     ![c].value = Min({call[c].value, MinLeafHeight(T)})]
    BY <1>2 DEF QueryClamp
  <2> DEFINE v == Min({call[c].value, MinLeafHeight(T)})
             t == [call[c] EXCEPT !.pc = "page", !.seen = {}, !.value = v]
  <2>2. T \in SUBSET Hash
    BY <1>1, <2>1 DEF Truncated, Task
  <2>3. MinLeafHeight(T) \in Nat
    <3>1. CASE T = {}
      BY <3>1 DEF MinLeafHeight
    <3>2. CASE T # {}
      <4>1. {height[h] : h \in T} \in SUBSET Nat /\ {height[h] : h \in T} # {}
        BY <2>2, <3>2 DEF IInv, TypeOK
      <4>2. Min({height[h] : h \in T}) \in {height[h] : h \in T}
        BY <4>1, MinProperty
      <4> QED
        BY <3>2, <4>1, <4>2 DEF MinLeafHeight
    <3> QED
      BY <3>1, <3>2
  <2>4. v \in Nat
    <3>1. call[c].value \in Nat
      BY <1>1 DEF Task
    <3>2. {call[c].value, MinLeafHeight(T)} \in SUBSET Nat
      BY <2>3, <3>1
    <3>3. v \in {call[c].value, MinLeafHeight(T)}
      BY <3>2, MinProperty
    <3> QED
      BY <3>2, <3>3
  <2>5. call' = [call EXCEPT ![c] = t]
    BY <2>1
  <2> HIDE DEF v
  <2>6. TaskFits(c, t)
    BY <1>1, <2>4 DEF TaskFits, TaskOK, Task, Pc
  <2>7. UNCHANGED <<message, clock, backend, cache, history>>
    BY <1>2 DEF QueryClamp
  <2> HIDE DEF t
  <2> QED
    BY <2>5, <2>6, <2>7, PlainCallStep
<1>3. ASSUME NEW cursor \in 0..Cardinality(Hash), QueryStart(c, cursor)
      PROVE  IInv'
  <2>1. /\ UNCHANGED <<message, clock, backend, cache, history>>
        /\ call' = [call EXCEPT ![c] = AskLeaves(r, Begin(r, "query", cursor))]
    BY <1>3 DEF QueryStart
  <2>2. cursor \in Nat
    BY <1>1
  <2>3. TaskFits(c, AskLeaves(r, Begin(r, "query", cursor)))
    BY <2>2, AskLeavesFits
  <2> QED
    BY <2>1, <2>3, PlainCallStep
<1> QED
  BY <1>2, <1>3

LEMMA ReceiveSteps ==
  ASSUME IInv, NEW c \in Call,
         ReceiveCheck(c) \/ \E h \in Hash : ReceiveStart(c, h)
  PROVE  IInv'
<1> USE ConstantsAssumption
<1> DEFINE r == Home[c]
<1>1. r \in Replica /\ call[c] \in Task /\ TaskOK(c)
  BY DEF IInv, TypeOK, Task, Tasks
<1>2. ASSUME NEW h \in Hash, ReceiveStart(c, h)
      PROVE  IInv'
  <2> DEFINE b == Begin(r, "receive", 0)
             t == [b EXCEPT !.pc = "parents", !.arg = h]
  <2>1. /\ UNCHANGED <<message, clock, backend, cache, history>>
        /\ call' = [call EXCEPT ![c] = t]
        /\ \E q \in Replica : h \in store[q]
    BY <1>2 DEF ReceiveStart
  <2>2. h \in created
    BY <2>1 DEF IInv, Known
  <2>3. "receive" \in Op /\ TypeOK
    BY DEF Op, IInv
  <2>4. b \in Task /\ b.seen = {} /\ b.op = "receive"
    BY <1>1, <2>3, BeginTask
  <2> HIDE DEF b
  <2>5. TaskFits(c, t)
    BY <2>2, <2>4 DEF TaskFits, Task, Pc
  <2> HIDE DEF t
  <2> QED
    BY <2>1, <2>5, PlainCallStep
<1>3. CASE ReceiveCheck(c)
  <2> DEFINE h == call[c].arg
             pc == IF ~ParentsFound(r, h) THEN "missingParent"
                   ELSE IF Acceptable(r, h) THEN "store" ELSE "banned"
             t == [call[c] EXCEPT !.pc = pc]
  <2>1. /\ UNCHANGED <<message, clock, backend, cache, history>>
        /\ call[c].pc = "parents"
        /\ call' = [call EXCEPT ![c] = t]
    BY <1>3 DEF ReceiveCheck, Goto, At
  <2>2. h \in created
    BY <1>1, <2>1 DEF TaskOK
  <2>3. Acceptable(r, h)
    BY <1>1, <2>2 DEF IInv, Signed, SignedOK, Acceptable
  <2>4. \/ pc = "missingParent"
        \/ pc = "store" /\ parents[h] \subseteq store[r]
    BY <2>3 DEF ParentsFound
  <2> HIDE DEF pc
  <2>5. TaskFits(c, t)
    BY <1>1, <2>1, <2>2, <2>4 DEF TaskFits, TaskOK, Task, Pc, Rejection
  <2> HIDE DEF t
  <2> QED
    BY <2>1, <2>5, PlainCallStep
<1> QED
  BY <1>2, <1>3

LEMMA ReturnSteps ==
  ASSUME IInv, NEW c \in Call, Invalidate(c) \/ Return(c)
  PROVE  IInv'
<1> USE ConstantsAssumption
<1> DEFINE r == Home[c]
           h == call[c].arg
<1>1. r \in Replica /\ TaskFits(c, Idle) /\ TaskOK(c)
  BY IdleFits DEF IInv, Tasks
<1>2. CASE Invalidate(c)
  <2>1. /\ UNCHANGED <<message, clock, backend>>
        /\ call[c].pc = "invalidate"
        /\ call' = [call EXCEPT ![c] = Idle]
        /\ cachedLeaves' = [cachedLeaves EXCEPT ![r] = None]
        /\ cachedCount' = [cachedCount EXCEPT ![r] = None]
        /\ settled' = [settled EXCEPT ![r] = @ \cup {h}]
        /\ announced' = IF call[c].op = "receive"
                        THEN [announced EXCEPT ![r][h] = @ + 1] ELSE announced
    BY <1>2 DEF Invalidate, At, InvalidatedLeaves, InvalidatedCount
  <2>2. h \in Hash
    BY <1>1, <2>1 DEF TaskOK, IInv, TypeOK
  <2>3. /\ cachedLeaves' \in [Replica -> {None} \cup SUBSET Hash]
        /\ cachedCount' \in [Replica -> {None} \cup Nat]
        /\ settled' \in [Replica -> SUBSET Hash]
    BY <2>1, <2>2 DEF IInv, TypeOK
  <2>4. announced' \in [Replica -> [Hash -> Nat]]
    <3>1. announced \in [Replica -> [Hash -> Nat]]
      BY DEF IInv, TypeOK
    <3> QED
      BY <1>1, <2>1, <2>2, <3>1
  <2>5. \A q \in Replica : cachedLeaves'[q] # None => cachedLeaves'[q] \subseteq store[q]
    BY <2>1 DEF IInv, Known, TypeOK
  <2> QED
    BY <1>1, <2>1, <2>3, <2>4, <2>5, CallStep
<1>3. CASE Return(c)
  <2>1. /\ UNCHANGED <<message, clock, backend, cache, history>>
        /\ call' = [call EXCEPT ![c] = Idle]
    BY <1>3 DEF Return
  <2> QED
    BY <1>1, <2>1, PlainCallStep
<1> QED
  BY <1>2, <1>3

(* Storing a message whose parents are stored keeps the store closed, and  *)
(* the leaf set exact: no stored message can name the new one as a parent. *)
LEMMA StoreStep ==
  ASSUME IInv, NEW c \in Call, Store(c)
  PROVE  IInv'
<1> USE ConstantsAssumption
<1> DEFINE r == Home[c]
           h == call[c].arg
           t == [call[c] EXCEPT !.pc = "invalidate"]
<1>1. /\ r \in Replica /\ call[c] \in Task /\ TaskOK(c) /\ TypeOK
      /\ call \in [Call -> Task]
  BY DEF IInv, TypeOK, Task, Tasks
<1>2. /\ UNCHANGED <<message, clock, cache, history>>
      /\ call[c].pc = "store"
      /\ call' = [call EXCEPT ![c] = t]
      /\ IF h \in store[r] THEN UNCHANGED backend
         ELSE /\ store' = [store EXCEPT ![r] = @ \cup {h}]
              /\ leaves' = [leaves EXCEPT ![r] = NewLeaves(r, h)]
  BY DEF Store, At, Goto
<1>3. h \in created /\ parents[h] \subseteq store[r]
  BY <1>1, <1>2 DEF TaskOK
<1>4. TaskFits(c, t)
  BY <1>1, <1>2, <1>3 DEF TaskFits, TaskOK, Task, Pc
<1> HIDE DEF t
<1>5. CASE h \in store[r]
  <2>1. UNCHANGED <<message, clock, backend, cache, history>>
    BY <1>2, <1>5
  <2> QED
    BY <1>2, <1>4, <2>1, PlainCallStep
<1>6. CASE h \notin store[r]
  <2>1. /\ store' = [store EXCEPT ![r] = store[r] \cup {h}]
        /\ leaves' = [leaves EXCEPT ![r] = (leaves[r] \ parents[h]) \cup {h}]
    BY <1>2, <1>6 DEF NewLeaves
  <2>2. /\ UNCHANGED message /\ clock' = clock
        /\ created' = created /\ parents' = parents /\ height' = height /\ time' = time
        /\ cachedLeaves' = cachedLeaves /\ cachedCount' = cachedCount
        /\ settled' = settled /\ announced' = announced
    BY <1>2 DEF message, cache, history
  <2>3. /\ store'[r] = store[r] \cup {h}
        /\ leaves'[r] = (leaves[r] \ parents[h]) \cup {h}
        /\ \A q \in Replica : q # r => store'[q] = store[q] /\ leaves'[q] = leaves[q]
        /\ \A q \in Replica : store[q] \subseteq store'[q]
    BY <1>1, <2>1 DEF TypeOK
  <2>4. /\ call' \in [Call -> Task] /\ call'[c] = t
        /\ \A d \in Call : d # c => call'[d] = call[d]
    BY <1>1, <1>2, <1>4 DEF TaskFits
  <2>5. h \in Hash
    BY <1>1, <1>3 DEF TypeOK
  <2>6. TypeOK'
    <3>1. store' \in [Replica -> SUBSET Hash] /\ leaves' \in [Replica -> SUBSET Hash]
      BY <1>1, <2>1, <2>5 DEF TypeOK
    <3> QED
      BY <1>1, <2>2, <2>4, <3>1 DEF TypeOK, Task
  <2>7. Signed'
    <3>1. clock <= clock'
      BY <1>1, <2>2 DEF TypeOK
    <3> QED
      BY <1>1, <2>2, <2>6, <3>1, SignedStays DEF IInv
  <2>8. Known' /\ RootCreated'
    BY <1>3, <2>2, <2>3 DEF IInv, Known, RootCreated
  <2>9. Tasks'
    <3> SUFFICES ASSUME NEW d \in Call PROVE TaskOK(d)'
      BY DEF Tasks
    <3>1. store[Home[d]] \subseteq store'[Home[d]]
      BY <2>3
    <3>2. CASE d = c
      BY <1>4, <2>2, <2>4, <3>1, <3>2 DEF TaskFits, TaskOK, Now
    <3>3. CASE d # c
      <4>1. TaskOK(d)
        BY DEF IInv, Tasks
      <4> QED
        BY <2>2, <2>4, <3>1, <3>3, <4>1 DEF TaskOK, Now
    <3> QED
      BY <3>2, <3>3
  <2>10. DagClosed'
    BY <1>3, <2>2, <2>3 DEF IInv, DagClosed
  <2>11. LeavesExact'
    <3>1. \A k \in store[r] : h \notin parents[k]
      BY <1>1, <1>6 DEF IInv, DagClosed
    <3>2. h \notin parents[h]
      BY <1>3 DEF IInv, Signed, SignedOK
    <3>3. leaves[r] = {x \in store[r] : \A k \in store[r] : x \notin parents[k]}
      BY <1>1 DEF IInv, LeavesExact
    <3>4. leaves'[r] = {x \in store'[r] : \A k \in store'[r] : x \notin parents[k]}
      BY <2>3, <3>1, <3>2, <3>3
    <3>5. ASSUME NEW q \in Replica, q # r
          PROVE  leaves'[q] = {x \in store'[q] : \A k \in store'[q] : x \notin parents[k]}
      BY <2>3, <3>5 DEF IInv, LeavesExact
    <3> QED
      BY <2>2, <3>4, <3>5 DEF LeavesExact
  <2>12. HonestNotBanned'
    BY <1>4, <2>4 DEF IInv, HonestNotBanned, At, TaskFits
  <2> QED
    BY <2>6, <2>7, <2>8, <2>9, <2>10, <2>11, <2>12 DEF IInv
<1> QED
  BY <1>5, <1>6

(* Signing a message touches no store: nothing stored names the new hash.  *)
LEMMA BuildStep ==
  ASSUME IInv, NEW c \in Call, NEW h \in Hash, PostBuild(c, h)
  PROVE  IInv'
<1> USE ConstantsAssumption
<1> DEFINE t == [call[c] EXCEPT !.pc = "store", !.arg = h, !.seen = {}, !.value = 0]
<1>1. /\ call[c] \in Task /\ TypeOK /\ call \in [Call -> Task]
  BY DEF IInv, TypeOK, Task
<1>2. /\ Signed' /\ parents'[h] \in SUBSET store[Home[c]]
      /\ created' \in SUBSET Hash
      /\ parents' \in [Hash -> SUBSET Hash]
      /\ height' \in [Hash -> 0..(Cardinality(Hash) - 1)]
      /\ time' \in [Hash -> Nat]
  BY BuildSigned
<1>3. /\ h \notin created /\ created' = created \cup {h}
      /\ call' = [call EXCEPT ![c] = t]
      /\ UNCHANGED <<clock, backend, cache, history>>
      /\ \E C : parents' = [parents EXCEPT ![h] = C]
  BY DEF PostBuild
<1>4. \A k \in created : parents'[k] = parents[k]
  BY <1>1, <1>3 DEF TypeOK
<1>5. /\ clock' = clock /\ store' = store /\ leaves' = leaves
      /\ cachedLeaves' = cachedLeaves /\ cachedCount' = cachedCount
      /\ settled' = settled /\ announced' = announced
  BY <1>3 DEF backend, cache, history
<1>6. t \in Task /\ t.pc = "store" /\ t.arg = h /\ t.seen = {}
  BY <1>1 DEF Task, Pc
<1> HIDE DEF t
<1>7. /\ call' \in [Call -> Task] /\ call'[c] = t
      /\ \A d \in Call : d # c => call'[d] = call[d]
  BY <1>1, <1>3, <1>6
<1>8. TypeOK'
  BY <1>1, <1>2, <1>5, <1>7 DEF TypeOK, Task
<1>9. Known' /\ RootCreated'
  BY <1>3, <1>5 DEF IInv, Known, RootCreated
<1>10. Tasks'
  <2> SUFFICES ASSUME NEW d \in Call PROVE TaskOK(d)'
    BY DEF Tasks
  <2>1. CASE d = c
    BY <1>2, <1>3, <1>5, <1>6, <1>7, <2>1 DEF TaskOK
  <2>2. CASE d # c
    <3>1. TaskOK(d) /\ call'[d] = call[d]
      BY <1>7, <2>2 DEF IInv, Tasks
    <3> QED
      BY <1>3, <1>4, <1>5, <3>1 DEF TaskOK, Now
  <2> QED
    BY <2>1, <2>2
<1>11. DagClosed'
  BY <1>4, <1>5 DEF IInv, DagClosed, Known
<1>12. LeavesExact'
  <2>1. \A q \in Replica : \A k \in store[q] : parents'[k] = parents[k]
    BY <1>4 DEF IInv, Known
  <2> QED
    BY <1>5, <2>1 DEF IInv, LeavesExact
<1>13. HonestNotBanned'
  BY <1>6, <1>7 DEF IInv, HonestNotBanned, At
<1> QED
  BY <1>2, <1>8, <1>9, <1>10, <1>11, <1>12, <1>13 DEF IInv

LEMMA TickStep ==
  ASSUME IInv, Tick
  PROVE  IInv'
<1> USE ConstantsAssumption
<1>1. /\ clock < MaxClock /\ clock' = clock + 1
      /\ UNCHANGED message /\ call' = call /\ store' = store /\ leaves' = leaves
      /\ cachedLeaves' = cachedLeaves /\ cachedCount' = cachedCount
      /\ settled' = settled /\ announced' = announced
      /\ created' = created /\ parents' = parents /\ height' = height /\ time' = time
  BY DEF Tick, message, backend, cache, history
<1>2. TypeOK' /\ clock <= clock'
  BY <1>1 DEF IInv, TypeOK
<1>3. Signed'
  BY <1>1, <1>2, SignedStays DEF IInv
<1>4. Known' /\ RootCreated' /\ DagClosed' /\ LeavesExact' /\ HonestNotBanned'
  BY <1>1 DEF IInv, Known, RootCreated, DagClosed, LeavesExact, HonestNotBanned, At
<1>5. Tasks'
  <2> SUFFICES ASSUME NEW d \in Call PROVE TaskOK(d)'
    BY DEF Tasks
  <2>1. TaskOK(d) /\ call[d] \in Task
    BY DEF IInv, Tasks, TypeOK, Task
  <2>2. call[d].value \in Nat
    BY <2>1 DEF Task
  <2>3. Now(Home[d]) \in Nat /\ Now(Home[d])' = Now(Home[d]) + 1
    <3>1. clock \in Nat /\ Skew[Home[d]] \in Nat
      BY DEF IInv, TypeOK
    <3>2. Now(Home[d]) = clock + Skew[Home[d]]
          /\ Now(Home[d])' = clock' + Skew[Home[d]]
      BY DEF Now
    <3> QED
      BY <1>1, <3>1, <3>2
  <2>4. call[d].value <= Now(Home[d]) => call[d].value <= Now(Home[d])'
    BY <2>2, <2>3
  <2> QED
    BY <1>1, <2>1, <2>4 DEF TaskOK
<1> QED
  BY <1>2, <1>3, <1>4, <1>5 DEF IInv

LEMMA StutterStep ==
  ASSUME IInv, UNCHANGED vars
  PROVE  IInv'
<1>1. /\ UNCHANGED message /\ call' = call /\ clock' = clock
      /\ store' = store /\ leaves' = leaves
      /\ cachedLeaves' = cachedLeaves /\ cachedCount' = cachedCount
      /\ settled' = settled /\ announced' = announced
      /\ created' = created /\ parents' = parents /\ height' = height /\ time' = time
  BY DEF vars, message, backend, cache, history
<1>2. TypeOK' /\ clock <= clock'
  BY <1>1, ConstantsAssumption DEF IInv, TypeOK
<1>3. Signed'
  BY <1>1, <1>2, SignedStays DEF IInv
<1>4. Known' /\ RootCreated' /\ DagClosed' /\ LeavesExact' /\ HonestNotBanned'
  BY <1>1 DEF IInv, Known, RootCreated, DagClosed, LeavesExact, HonestNotBanned, At
<1>5. Tasks'
  BY <1>1 DEF IInv, Tasks, TaskOK, Now
<1> QED
  BY <1>2, <1>3, <1>4, <1>5 DEF IInv

LEMMA NextIInv == IInv /\ [Next]_vars => IInv'
<1> SUFFICES ASSUME IInv, [Next]_vars PROVE IInv'
  OBVIOUS
<1>1. CASE UNCHANGED vars
  BY <1>1, StutterStep
<1>2. CASE Tick
  BY <1>2, TickStep
<1>3. ASSUME NEW c \in Call, Step(c) PROVE IInv'
  <2>1. CASE ReadLeafHashes(c) \/ FillLeaves(c)
    BY <2>1, LeafSteps
  <2>2. CASE ReadCount(c) \/ FillCount(c) \/ CountStart(c)
    BY <2>2, CountSteps
  <2>3. CASE PostStart(c) \/ PostNoParents(c) \/ PostFail(c)
    BY <2>3, PostSteps
  <2>4. CASE QueryClamp(c) \/ \E cursor \in 0..Cardinality(Hash) : QueryStart(c, cursor)
    BY <2>4, QuerySteps
  <2>5. CASE ReceiveCheck(c) \/ \E h \in Hash : ReceiveStart(c, h)
    BY <2>5, ReceiveSteps
  <2>6. CASE Invalidate(c) \/ Return(c)
    BY <2>6, ReturnSteps
  <2>7. CASE Store(c)
    BY <2>7, StoreStep
  <2>8. CASE \E h \in Hash : PostBuild(c, h)
    BY <2>8, BuildStep
  <2> QED
    BY <1>3, <2>1, <2>2, <2>3, <2>4, <2>5, <2>6, <2>7, <2>8 DEF Step
<1> QED
  BY <1>1, <1>2, <1>3 DEF Next

-----------------------------------------------------------------------------
(* Theorems *)

THEOREM Invariance == Spec => []IInv
<1>1. Init => IInv
  BY InitIInv
<1>2. IInv /\ [Next]_vars => IInv'
  BY NextIInv
<1> QED
  BY <1>1, <1>2, PTL DEF Spec

(* Every variable keeps its type; in particular a height never exceeds the *)
(* number of messages below it.                                            *)
THEOREM TypeCorrect == Spec => []TypeOK
<1>1. IInv => TypeOK
  BY DEF IInv
<1> QED
  BY <1>1, Invariance, PTL

(* Channel.receive and Channel.post, overlapping in any way on any number  *)
(* of replicas, keep every store closed under parents.                     *)
THEOREM AlwaysClosed == Spec => []DagClosed
<1>1. IInv => DagClosed
  BY DEF IInv
<1> QED
  BY <1>1, Invariance, PTL

(* The leaf set memory.js updates in place never drifts from the store.    *)
THEOREM LeavesAlwaysExact == Spec => []LeavesExact
<1>1. IInv => LeavesExact
  BY DEF IInv
<1> QED
  BY <1>1, Invariance, PTL

(* With clocks within the leeway of one another, receive() never answers   *)
(* a message that post() signed with a BanError of its own checks.         *)
THEOREM HonestNeverBanned == Spec => []HonestNotBanned
<1>1. IInv => HonestNotBanned
  BY DEF IInv
<1> QED
  BY <1>1, Invariance, PTL

-----------------------------------------------------------------------------
(* Refinement *)

LEMMA InitRefines == Init => Dag!Init
BY DEF Init, Dag!Init

LEMMA StepRefines ==
  IInv /\ [Next]_vars => [Dag!Next]_(Dag!dagVars)
<1> SUFFICES ASSUME IInv, [Next]_vars PROVE [Dag!Next]_(Dag!dagVars)
  OBVIOUS
<1> USE ConstantsAssumption
<1>1. CASE UNCHANGED <<created, parents, store>>
  BY <1>1 DEF Dag!dagVars
<1>2. ASSUME NEW c \in Call, NEW h \in Hash, PostBuild(c, h)
      PROVE  Dag!Next
  <2> DEFINE r == Home[c]
             P == parents'[h]
  <2>1. P \in SUBSET store[r] /\ r \in Replica
    BY <1>2, BuildSigned
  <2>2. PICK T \in Truncated(call[c].seen) :
          /\ FilterParents(T) # {}
          /\ parents' = [parents EXCEPT ![h] = FilterParents(T)]
    BY <1>2 DEF PostBuild
  <2>3. /\ h \notin created /\ created' = created \cup {h} /\ store' = store
    BY <1>2 DEF PostBuild, backend
  <2>4. P = FilterParents(T) /\ parents' = [parents EXCEPT ![h] = P]
    BY <2>2 DEF IInv, TypeOK
  <2>5. Dag!Create(r, h, P)
    BY <2>1, <2>2, <2>3, <2>4 DEF Dag!Create
  <2> QED
    BY <2>1, <2>5 DEF Dag!Next
<1>3. ASSUME NEW c \in Call, Store(c), call[c].arg \notin store[Home[c]]
      PROVE  Dag!Next
  <2> DEFINE r == Home[c]
             h == call[c].arg
  <2>1. /\ call[c].pc = "store" /\ r \in Replica /\ TaskOK(c)
    BY <1>3 DEF Store, At, IInv, Tasks
  <2>2. h \in created \ store[r] /\ h \in Hash /\ parents[h] \subseteq store[r]
    BY <1>3, <2>1 DEF TaskOK, IInv, TypeOK
  <2>3. /\ store' = [store EXCEPT ![r] = @ \cup {h}]
        /\ UNCHANGED <<created, parents>>
    BY <1>3 DEF Store, message
  <2>4. Dag!Deliver(r, h)
    BY <2>2, <2>3 DEF Dag!Deliver, Dag!ParentsHeld
  <2> QED
    BY <2>1, <2>2, <2>4 DEF Dag!Next
<1>4. CASE UNCHANGED vars
  BY <1>1, <1>4 DEF vars, message, backend
<1>5. CASE Tick
  BY <1>1, <1>5 DEF Tick, message, backend
<1>6. ASSUME NEW c \in Call, Step(c)
      PROVE  [Dag!Next]_(Dag!dagVars)
  <2>1. CASE Store(c) /\ call[c].arg \in store[Home[c]]
    BY <1>1, <2>1 DEF Store, message, backend
  <2>2. CASE \E h \in Hash : ReceiveStart(c, h)
    BY <1>1, <2>2 DEF ReceiveStart, message, backend
  <2>3. CASE \E cursor \in 0..Cardinality(Hash) : QueryStart(c, cursor)
    BY <1>1, <2>3 DEF QueryStart, message, backend
  <2>4. CASE ReadLeafHashes(c) \/ FillLeaves(c) \/ ReadCount(c) \/ FillCount(c)
    BY <1>1, <2>4 DEF ReadLeafHashes, FillLeaves, ReadCount, FillCount, message, backend
  <2>5. CASE PostStart(c) \/ PostNoParents(c) \/ PostFail(c) \/ CountStart(c)
    BY <1>1, <2>5 DEF PostStart, PostNoParents, PostFail, CountStart, message, backend
  <2>6. CASE QueryClamp(c) \/ ReceiveCheck(c) \/ Invalidate(c) \/ Return(c)
    BY <1>1, <2>6 DEF QueryClamp, ReceiveCheck, Invalidate, Return, message, backend
  <2> QED
    BY <1>2, <1>3, <1>6, <2>1, <2>2, <2>3, <2>4, <2>5, <2>6 DEF Step
<1> QED
  BY <1>4, <1>5, <1>6 DEF Next

(* Every step of Channel is a step of DagReplicas or changes nothing there.*)
THEOREM Refinement == Spec => ImplementsDag
<1>1. Init => Dag!Init
  BY InitRefines
<1>2. IInv /\ [Next]_vars => [Dag!Next]_(Dag!dagVars)
  BY StepRefines
<1> QED
  BY <1>1, <1>2, Invariance, PTL DEF Spec, ImplementsDag, Dag!Spec

-----------------------------------------------------------------------------
(* One call at a time per channel, as channel_serial has it *)

Serial == \A c, d \in Call : Home[c] = Home[d] => c = d

(* The caches of r agree with its backend. *)
Coherent(r) ==
  /\ cachedLeaves[r] # None => cachedLeaves[r] = leaves[r]
  /\ cachedCount[r] # None => cachedCount[r] = Cardinality(store[r])

(* What call c has read is still so, because nobody else writes. *)
SerialFits(c, t) ==
  /\ t.due \subseteq store[Home[c]]
  /\ t.pc \in {"leafMessages", "leaves"} => t.seen = leaves[Home[c]]
  /\ t.pc \in {"countFill", "counted"} => t.value = Cardinality(store[Home[c]])
  /\ t.pc \in {"countRead", "countFill", "counted"} /\ t.op = "post" => store[Home[c]] = {}
  /\ t.pc = "parents" => t.op = "receive"
  /\ t.op = "receive" /\ t.pc \in {"parents", "store", "invalidate"} =>
       announced[Home[c]][t.arg] = 0
  /\ t.pc = "invalidate" => t.arg \in store[Home[c]]
  /\ t.pc # "internalError"

(* Messages whose add has returned, or that were announced, are stored. *)
Recorded(r) ==
  /\ settled[r] \subseteq store[r]
  /\ \A h \in Hash : announced[r][h] \in {0, 1} /\ (announced[r][h] = 1 => h \in store[r])

SerialInv ==
  /\ \A c \in Call : SerialFits(c, call[c])
  /\ \A r \in Replica : Recorded(r)
  /\ CacheCoherent

(* A call changes its own state, and its own replica's. *)
Local(c) ==
  /\ call' \in [Call -> Task] /\ \A d \in Call : d # c => call'[d] = call[d]
  /\ \A q \in Replica : q # Home[c] =>
       /\ store'[q] = store[q] /\ leaves'[q] = leaves[q] /\ cachedLeaves'[q] = cachedLeaves[q]
       /\ cachedCount'[q] = cachedCount[q] /\ settled'[q] = settled[q] /\ announced'[q] = announced[q]
  /\ \A h \in created : height'[h] = height[h] /\ time'[h] = time[h]

LEMMA SerialInit == Init => SerialInv
<1> SUFFICES ASSUME Init PROVE SerialInv
  OBVIOUS
<1> USE ConstantsAssumption
<1>1. ASSUME NEW c \in Call PROVE SerialFits(c, call[c])
  BY DEF Init, Idle, SerialFits
<1>2. ASSUME NEW r \in Replica PROVE Recorded(r)
  BY DEF Init, Recorded
<1>3. CacheCoherent
  BY DEF Init, CacheCoherent
<1> QED
  BY <1>1, <1>2, <1>3 DEF SerialInv

LEMMA CallIsLocal ==
  ASSUME IInv, NEW c \in Call, Step(c)
  PROVE  Local(c)
<1> USE ConstantsAssumption
<1>1. /\ call \in [Call -> Task] /\ TypeOK /\ IInv'
      /\ Home[c] \in Replica
  BY NextIInv DEF IInv, TypeOK, Task, Next
<1>2. call' \in [Call -> Task]
  BY <1>1 DEF IInv, TypeOK, Task
<1>3. ASSUME NEW d \in Call, d # c PROVE call'[d] = call[d]
  BY <1>1, <1>3 DEF Step, ReadLeafHashes, FillLeaves, ReadCount, FillCount, PostStart, PostNoParents, PostFail,
     QueryClamp, CountStart, ReceiveCheck, Store, Invalidate, Return, PostBuild, ReceiveStart, QueryStart, Goto
<1>4. ASSUME NEW q \in Replica, q # Home[c]
      PROVE  /\ store'[q] = store[q] /\ leaves'[q] = leaves[q] /\ cachedLeaves'[q] = cachedLeaves[q]
             /\ cachedCount'[q] = cachedCount[q] /\ settled'[q] = settled[q] /\ announced'[q] = announced[q]
  <2>1. CASE Store(c)
    BY <1>1, <1>4, <2>1 DEF Store, backend, cache, history, TypeOK
  <2>2. CASE Invalidate(c)
    BY <1>1, <1>4, <2>2 DEF Invalidate, backend, TypeOK
  <2>3. CASE FillLeaves(c) \/ FillCount(c)
    BY <1>1, <1>4, <2>3 DEF FillLeaves, FillCount, backend, history, TypeOK
  <2>4. CASE UNCHANGED <<backend, cache, history>>
    BY <2>4 DEF backend, cache, history
  <2>5. \/ Store(c) \/ Invalidate(c) \/ FillLeaves(c) \/ FillCount(c)
        \/ UNCHANGED <<backend, cache, history>>
    BY DEF Step, ReadLeafHashes, ReadCount, PostStart, PostNoParents, PostFail,
       QueryClamp, CountStart, ReceiveCheck, Return, PostBuild, ReceiveStart, QueryStart
  <2> QED
    BY <2>1, <2>2, <2>3, <2>4, <2>5
<1>5. ASSUME NEW h \in created PROVE height'[h] = height[h] /\ time'[h] = time[h]
  <2>1. CASE \E k \in Hash : PostBuild(c, k)
    <3>1. PICK k \in Hash : PostBuild(c, k)
      BY <2>1
    <3>2. k # h /\ \E x, y : height' = [height EXCEPT ![k] = x] /\ time' = [time EXCEPT ![k] = y]
      BY <1>5, <3>1 DEF PostBuild
    <3> QED
      BY <1>1, <1>5, <3>2 DEF TypeOK
  <2>2. CASE UNCHANGED message
    BY <2>2 DEF message
  <2>3. (\E k \in Hash : PostBuild(c, k)) \/ UNCHANGED message
    BY DEF Step, ReadLeafHashes, FillLeaves, ReadCount, FillCount, PostStart, PostNoParents, PostFail,
       QueryClamp, CountStart, ReceiveCheck, Store, Invalidate, Return, ReceiveStart, QueryStart
  <2> QED
    BY <2>1, <2>2, <2>3
<1> QED
  BY <1>2, <1>3, <1>4, <1>5 DEF Local

(* What call c and its replica need for the invariant to hold after a step of c. *)
LEMMA SerialStep ==
  ASSUME Serial, SerialInv, NEW c \in Call, Local(c),
         SerialFits(c, call[c])', Recorded(Home[c])', ~At(c, "invalidate")' => Coherent(Home[c])'
  PROVE  SerialInv'
<1> USE ConstantsAssumption
<1>1. ASSUME NEW d \in Call PROVE SerialFits(d, call[d])'
  <2>1. CASE d = c
    BY <2>1
  <2>2. CASE d # c
    <3>1. Home[d] \in Replica /\ Home[d] # Home[c] /\ SerialFits(d, call[d])
      BY <2>2 DEF Serial, SerialInv
    <3> QED
      BY <2>2, <3>1 DEF Local, SerialFits
  <2> QED
    BY <2>1, <2>2
<1>2. ASSUME NEW r \in Replica PROVE Recorded(r)'
  <2>1. CASE r = Home[c]
    BY <2>1
  <2>2. CASE r # Home[c]
    BY <2>2 DEF Local, SerialInv, Recorded
  <2> QED
    BY <2>1, <2>2
<1>3. ASSUME NEW r \in Replica, \A d \in Call : Home[d] = r => ~At(d, "invalidate")' PROVE Coherent(r)'
  <2>1. CASE r = Home[c]
    BY <1>3, <2>1
  <2>2. CASE r # Home[c]
    <3>1. \A d \in Call : Home[d] = r => ~At(d, "invalidate")
      BY <1>3, <2>2 DEF Local, At
    <3>2. Coherent(r)
      BY <3>1 DEF SerialInv, CacheCoherent, Coherent
    <3> QED
      BY <2>2, <3>2 DEF Local, Coherent
  <2> QED
    BY <2>1, <2>2
<1>4. CacheCoherent'
  BY <1>3 DEF CacheCoherent, Coherent
<1> QED
  BY <1>1, <1>2, <1>4 DEF SerialInv

(* A call that is not resetting the caches finds them coherent. *)
LEMMA FoundCoherent ==
  ASSUME Serial, SerialInv, NEW c \in Call, call[c].pc # "invalidate"
  PROVE  Coherent(Home[c])
<1>1. \A d \in Call : Home[d] = Home[c] => ~At(d, "invalidate")
  BY DEF Serial, At
<1> QED
  BY <1>1, ConstantsAssumption DEF SerialInv, CacheCoherent, Coherent

(* Steps that change nothing but the state of their call. *)
LEMMA SerialPlain ==
  ASSUME Serial, SerialInv, NEW c \in Call, Local(c), UNCHANGED <<backend, cache, history>>,
         call[c].pc # "invalidate", NEW t, call'[c] = t, SerialFits(c, t)
  PROVE  SerialInv'
<1>1. /\ store' = store /\ leaves' = leaves /\ cachedLeaves' = cachedLeaves /\ cachedCount' = cachedCount
      /\ settled' = settled /\ announced' = announced
  BY DEF backend, cache, history
<1>2. SerialFits(c, call[c])'
  BY <1>1 DEF SerialFits
<1>3. Recorded(Home[c])'
  BY <1>1, ConstantsAssumption DEF SerialInv, Recorded
<1>4. Coherent(Home[c])'
  BY <1>1, FoundCoherent DEF Coherent
<1> QED
  BY <1>2, <1>3, <1>4, SerialStep

-----------------------------------------------------------------------------
(* Leaves *)

(* The greatest timestamp is the timestamp of one of the messages, which filterParents() keeps. *)
LEMMA LatestIsKept ==
  ASSUME TypeOK, NEW T \in SUBSET Hash, T # {}
  PROVE  /\ ComputeMaxTimestamp(T) \in Nat
         /\ \E m \in FilterParents(T) : time[m] = ComputeMaxTimestamp(T)
<1> USE ConstantsAssumption
<1> DEFINE M == ComputeMaxTimestamp(T)
<1>1. IsFiniteSet(T) /\ \A h \in T : time[h] \in Nat
  BY FS_Subset DEF TypeOK
<1>2. M = MaxOver(0, time, T)
  BY ReducersAreMaxima
<1>3. /\ M \in Nat /\ \A h \in T : time[h] <= M
      /\ \A b \in Nat : 0 <= b /\ (\A h \in T : time[h] <= b) => M <= b
  <2> HIDE DEF M
  <2> QED
    BY <1>1, <1>2, MaxOverProperty
<1> HIDE DEF M
<1>4. \E m \in T : time[m] = M
  <2> SUFFICES ASSUME \A m \in T : time[m] # M PROVE FALSE
    OBVIOUS
  <2>1. \A m \in T : time[m] <= M - 1
    BY <1>1, <1>3
  <2>2. M - 1 \in Nat
    BY <1>1, <1>3, <2>1
  <2> QED
    BY <1>3, <2>1, <2>2
<1>5. PICK m \in T : time[m] = M
  BY <1>4
<1>6. m \in FilterParents(T)
  BY <1>3, <1>5 DEF FilterParents, M
<1> QED
  BY <1>3, <1>5, <1>6 DEF M

(* Above every stored message there is a leaf that is as high and as late. *)
LEMMA LeafAbove ==
  ASSUME IInv, NEW r \in Replica, NEW p \in store[r]
  PROVE  \E q \in leaves[r] : height[p] <= height[q] /\ time[p] <= time[q]
<1> USE ConstantsAssumption
<1>1. /\ TypeOK /\ store[r] \in SUBSET Hash /\ store[r] \subseteq created
      /\ \A h \in Hash : height[h] \in Nat /\ time[h] \in Nat /\ parents[h] \in SUBSET Hash
  <2>1. \A h \in Hash : height[h] \in 0..(Cardinality(Hash) - 1)
    BY DEF IInv, TypeOK
  <2> QED
    BY <2>1 DEF IInv, TypeOK, Known
<1> DEFINE D == {q \in store[r] : height[p] <= height[q] /\ time[p] <= time[q]}
           H == {height[q] : q \in D}
<1>2. p \in D /\ D \in SUBSET Hash /\ D \subseteq store[r]
  BY <1>1
<1>3. H \in SUBSET Int /\ H # {}
  BY <1>1, <1>2
<1>4. IsFiniteSet(H)
  <2>1. IsFiniteSet(D)
    BY <1>2, FS_Subset
  <2> HIDE DEF D
  <2> QED
    BY <2>1, ImageFinite
<1>5. PICK m \in H : \A x \in H : x <= m
  <2> HIDE DEF H
  <2> QED
    BY <1>3, <1>4, MaximumExists
<1>6. PICK q \in D : height[q] = m
  OBVIOUS
<1>7. q \in leaves[r]
  <2> SUFFICES ASSUME NEW k \in store[r], q \in parents[k] PROVE FALSE
    BY <1>6 DEF IInv, LeavesExact
  <2>1. k \in Hash /\ HeightOK(k) /\ NotPast(k)
    BY <1>1 DEF IInv, Signed, SignedOK
  <2>2. height[k] = MaxAbove(height, parents[k]) /\ time[k] >= MaxOver(0, time, parents[k])
    BY <2>1, ReducersAreMaxima DEF HeightOK, NotPast
  <2>3. IsFiniteSet(parents[k]) /\ \A h \in parents[k] : height[h] \in Nat /\ time[h] \in Nat
    BY <1>1, <2>1, FS_Subset
  <2>4. height[q] < MaxAbove(height, parents[k])
    BY <2>3, MaxAboveProperty
  <2>5. time[q] <= MaxOver(0, time, parents[k]) /\ MaxOver(0, time, parents[k]) \in Nat
    BY <2>3, MaxOverProperty
  <2>6. height[q] < height[k] /\ time[q] <= time[k]
    BY <1>1, <2>1, <2>2, <2>3, <2>4, <2>5
  <2>7. k \in D
    BY <1>1, <1>6, <2>1, <2>6
  <2>8. height[k] <= m
    BY <1>5, <2>7
  <2> QED
    BY <1>1, <1>6, <2>1, <2>6, <2>8
<1> QED
  BY <1>6, <1>7

LEMMA SomeLeaf ==
  ASSUME IInv, NEW r \in Replica, leaves[r] = {}
  PROVE  store[r] = {}
BY LeafAbove

-----------------------------------------------------------------------------
(* The steps of a call that is alone on its replica *)

LEMMA SerialBegins ==
  ASSUME Serial, IInv, SerialInv, NEW c \in Call, Local(c),
         \/ PostStart(c) \/ CountStart(c)
         \/ (\E cursor \in 0..Cardinality(Hash) : QueryStart(c, cursor))
         \/ (\E h \in Hash : ReceiveStart(c, h))
  PROVE  SerialInv'
<1> USE ConstantsAssumption
<1> DEFINE r == Home[c]
<1>1. /\ r \in Replica /\ call[c].pc = "idle" /\ call \in [Call -> Task]
      /\ UNCHANGED <<backend, cache, history>>
  BY DEF PostStart, CountStart, QueryStart, ReceiveStart, CanBegin, At, IInv, TypeOK, Task
<1>2. Coherent(r) /\ Recorded(r)
  BY <1>1, FoundCoherent DEF SerialInv
<1>3. ASSUME NEW op \in {"post", "query"}, NEW v, call'[c] = AskLeaves(r, Begin(r, op, v))
      PROVE  SerialInv'
  <2>1. CASE cachedLeaves[r] = None
    <3> DEFINE t == [op |-> op, pc |-> "leafHashes", arg |-> None, seen |-> {}, value |-> v, due |-> settled[r]]
    <3>1. call'[c] = t
      BY <1>3, <2>1 DEF AskLeaves, Begin
    <3>2. SerialFits(c, t)
      BY <1>2 DEF SerialFits, Recorded
    <3> HIDE DEF t
    <3> QED
      BY <1>1, <3>1, <3>2, SerialPlain
  <2>2. CASE cachedLeaves[r] # None
    <3> DEFINE t == [op |-> op, pc |-> "leaves", arg |-> None, seen |-> cachedLeaves[r], value |-> v, due |-> settled[r]]
    <3>1. call'[c] = t
      BY <1>3, <2>2 DEF AskLeaves, Begin
    <3>2. SerialFits(c, t)
      BY <1>2, <2>2 DEF SerialFits, Recorded, Coherent
    <3> HIDE DEF t
    <3> QED
      BY <1>1, <3>1, <3>2, SerialPlain
  <2> QED
    BY <2>1, <2>2
<1>4. CASE PostStart(c)
  <2>1. call'[c] = AskLeaves(r, Begin(r, "post", Now(r)))
    BY <1>1, <1>4 DEF PostStart
  <2> QED
    BY <1>3, <2>1
<1>5. CASE \E cursor \in 0..Cardinality(Hash) : QueryStart(c, cursor)
  <2>1. PICK cursor : QueryStart(c, cursor)
    BY <1>5
  <2>2. call'[c] = AskLeaves(r, Begin(r, "query", cursor))
    BY <1>1, <2>1 DEF QueryStart
  <2> QED
    BY <1>3, <2>2
<1>6. CASE CountStart(c)
  <2> DEFINE b == [op |-> "count", pc |-> "countRead", arg |-> None, seen |-> {}, value |-> 0, due |-> settled[r]]
             t == [op |-> "count", pc |-> "counted", arg |-> None, seen |-> {}, value |-> cachedCount[r], due |-> settled[r]]
  <2>1. /\ cachedCount[r] = None => call'[c] = b
        /\ cachedCount[r] # None => call'[c] = t
    BY <1>1, <1>6 DEF CountStart, AskCount, Begin
  <2>2. SerialFits(c, b) /\ (cachedCount[r] # None => SerialFits(c, t))
    BY <1>2 DEF SerialFits, Recorded, Coherent
  <2> HIDE DEF b, t
  <2> QED
    BY <1>1, <2>1, <2>2, SerialPlain
<1>7. CASE \E h \in Hash : ReceiveStart(c, h)
  <2>1. PICK h \in Hash : ReceiveStart(c, h)
    BY <1>7
  <2> DEFINE t == [op |-> "receive", pc |-> "parents", arg |-> h, seen |-> {}, value |-> 0, due |-> settled[r]]
  <2>2. call'[c] = t /\ h \notin store[r]
    BY <1>1, <2>1 DEF ReceiveStart, Begin, IsDuplicate
  <2>3. announced[r][h] = 0
    BY <1>2, <2>2 DEF Recorded
  <2>4. SerialFits(c, t)
    BY <1>2, <2>3 DEF SerialFits, Recorded
  <2> HIDE DEF t
  <2> QED
    BY <1>1, <2>2, <2>4, SerialPlain
<1> QED
  BY <1>4, <1>5, <1>6, <1>7

LEMMA SerialReads ==
  ASSUME Serial, IInv, SerialInv, NEW c \in Call, Local(c),
         \/ ReadLeafHashes(c) \/ ReadCount(c) \/ PostNoParents(c) \/ PostFail(c)
         \/ QueryClamp(c) \/ ReceiveCheck(c) \/ (\E h \in Hash : PostBuild(c, h))
  PROVE  SerialInv'
<1> USE ConstantsAssumption
<1> DEFINE r == Home[c]
<1>1. /\ r \in Replica /\ call[c].pc # "invalidate" /\ call \in [Call -> Task] /\ call[c] \in Task
      /\ UNCHANGED <<backend, cache, history>>
  BY DEF ReadLeafHashes, ReadCount, PostNoParents, PostFail, QueryClamp, ReceiveCheck, PostBuild, At, IInv, TypeOK, Task
<1>2. Coherent(r) /\ Recorded(r) /\ SerialFits(c, call[c]) /\ TypeOK
  BY <1>1, FoundCoherent DEF SerialInv, IInv
<1>3. CASE ReadLeafHashes(c)
  <2> DEFINE t == [call[c] EXCEPT !.pc = "leafMessages", !.seen = leaves[r]]
  <2>1. call'[c] = t
    BY <1>1, <1>3 DEF ReadLeafHashes
  <2>2. SerialFits(c, t)
    BY <1>1, <1>2 DEF SerialFits, Task
  <2> HIDE DEF t
  <2> QED
    BY <1>1, <2>1, <2>2, SerialPlain
<1>4. CASE ReadCount(c)
  <2> DEFINE t == [call[c] EXCEPT !.pc = "countFill", !.value = Cardinality(store[r])]
  <2>1. call'[c] = t /\ call[c].pc = "countRead"
    BY <1>1, <1>4 DEF ReadCount, At
  <2>2. SerialFits(c, t)
    BY <1>1, <1>2, <2>1 DEF SerialFits, Task
  <2> HIDE DEF t
  <2> QED
    BY <1>1, <2>1, <2>2, SerialPlain
<1>5. CASE PostNoParents(c)
  <2>1. call[c].pc = "leaves" /\ FilterParents(call[c].seen) = {} /\ call'[c] = AskCount(r, call[c])
    BY <1>1, <1>5 DEF PostNoParents, At
  <2>2. call[c].seen = leaves[r] /\ leaves[r] \in SUBSET Hash
    BY <1>2, <2>1 DEF SerialFits, TypeOK
  <2>3. leaves[r] = {}
    BY <1>2, <2>1, <2>2, LatestIsKept
  <2>4. store[r] = {}
    BY <2>3, SomeLeaf
  <2> DEFINE b == [call[c] EXCEPT !.pc = "countRead"]
             t == [call[c] EXCEPT !.pc = "counted", !.value = cachedCount[r]]
  <2>5. /\ cachedCount[r] = None => call'[c] = b
        /\ cachedCount[r] # None => call'[c] = t
    BY <2>1 DEF AskCount
  <2>6. SerialFits(c, b)
    BY <1>1, <1>2, <2>4 DEF SerialFits, Task
  <2>7. cachedCount[r] # None => SerialFits(c, t)
    BY <1>1, <1>2, <2>4 DEF SerialFits, Coherent, Task
  <2> HIDE DEF b, t
  <2> QED
    BY <1>1, <2>5, <2>6, <2>7, SerialPlain
<1>6. CASE PostFail(c)
  <2>1. call[c].pc = "counted" /\ call[c].op = "post"
        /\ call' = [call EXCEPT ![c].pc = IF call[c].value = 0 THEN "notReady" ELSE "internalError"]
    BY <1>6 DEF PostFail, At, Goto
  <2>2. call[c].value = 0
    BY <1>2, <2>1, FS_EmptySet DEF SerialFits
  <2> DEFINE t == [call[c] EXCEPT !.pc = "notReady"]
  <2>3. call'[c] = t
    BY <1>1, <2>1, <2>2
  <2>4. SerialFits(c, t)
    BY <1>1, <1>2 DEF SerialFits, Task
  <2> HIDE DEF t
  <2> QED
    BY <1>1, <2>3, <2>4, SerialPlain
<1>7. CASE QueryClamp(c)
  <2>1. PICK v : call' = [call EXCEPT ![c].pc = "page", ![c].seen = {}, ![c].value = v]
    BY <1>7 DEF QueryClamp
  <2> DEFINE t == [call[c] EXCEPT !.pc = "page", !.seen = {}, !.value = v]
  <2>2. call'[c] = t
    BY <1>1, <2>1
  <2>3. SerialFits(c, t)
    BY <1>1, <1>2 DEF SerialFits, Task
  <2> HIDE DEF t
  <2> QED
    BY <1>1, <2>2, <2>3, SerialPlain
<1>8. CASE ReceiveCheck(c)
  <2>1. PICK pc \in {"missingParent", "store", "banned"} : call' = [call EXCEPT ![c].pc = pc]
    BY <1>8 DEF ReceiveCheck, Goto
  <2> DEFINE t == [call[c] EXCEPT !.pc = pc]
  <2>2. call'[c] = t /\ call[c].pc = "parents"
    BY <1>1, <1>8, <2>1 DEF ReceiveCheck, At
  <2>3. SerialFits(c, t)
    BY <1>1, <1>2, <2>2 DEF SerialFits, Task
  <2> HIDE DEF t
  <2> QED
    BY <1>1, <2>2, <2>3, SerialPlain
<1>9. CASE \E h \in Hash : PostBuild(c, h)
  <2>1. PICK h \in Hash : PostBuild(c, h)
    BY <1>9
  <2> DEFINE t == [call[c] EXCEPT !.pc = "store", !.arg = h, !.seen = {}, !.value = 0]
  <2>2. call'[c] = t /\ call[c].op = "post"
    BY <1>1, <2>1 DEF PostBuild
  <2>3. SerialFits(c, t)
    BY <1>1, <1>2, <2>2 DEF SerialFits, Task
  <2> HIDE DEF t
  <2> QED
    BY <1>1, <2>2, <2>3, SerialPlain
<1> QED
  BY <1>3, <1>4, <1>5, <1>6, <1>7, <1>8, <1>9

LEMMA SerialWrites ==
  ASSUME Serial, IInv, SerialInv, NEW c \in Call, Local(c),
         FillLeaves(c) \/ FillCount(c) \/ Store(c) \/ Invalidate(c) \/ Return(c)
  PROVE  SerialInv'
<1> USE ConstantsAssumption
<1> DEFINE r == Home[c]
           h == call[c].arg
<1>1. /\ r \in Replica /\ call \in [Call -> Task] /\ call[c] \in Task /\ TypeOK /\ TaskOK(c)
      /\ Recorded(r) /\ SerialFits(c, call[c])
  BY DEF IInv, TypeOK, Task, SerialInv, Tasks
<1>2. CASE FillLeaves(c)
  <2> DEFINE t == [call[c] EXCEPT !.pc = "leaves"]
  <2>1. /\ call[c].pc = "leafMessages" /\ call'[c] = t
        /\ store' = store /\ leaves' = leaves /\ cachedCount' = cachedCount /\ settled' = settled /\ announced' = announced
        /\ cachedLeaves'[r] = call[c].seen
    BY <1>1, <1>2 DEF FillLeaves, At, Goto, backend, history, TypeOK
  <2>2. t.pc = "leaves" /\ t.seen = call[c].seen /\ t.due = call[c].due
    BY <1>1 DEF Task
  <2>3. Coherent(r)
    BY <2>1, FoundCoherent
  <2> HIDE DEF t
  <2>4. SerialFits(c, call[c])' /\ Recorded(r)' /\ Coherent(r)'
    BY <1>1, <2>1, <2>2, <2>3 DEF SerialFits, Recorded, Coherent
  <2> QED
    BY <2>4, SerialStep
<1>3. CASE FillCount(c)
  <2> DEFINE t == [call[c] EXCEPT !.pc = "counted"]
  <2>1. /\ call[c].pc = "countFill" /\ call'[c] = t
        /\ store' = store /\ leaves' = leaves /\ cachedLeaves' = cachedLeaves /\ settled' = settled /\ announced' = announced
        /\ cachedCount'[r] = call[c].value
    BY <1>1, <1>3 DEF FillCount, At, Goto, backend, history, TypeOK
  <2>2. t.pc = "counted" /\ t.op = call[c].op /\ t.value = call[c].value /\ t.due = call[c].due
    BY <1>1 DEF Task
  <2>3. Coherent(r)
    BY <2>1, FoundCoherent
  <2> HIDE DEF t
  <2>4. SerialFits(c, call[c])' /\ Recorded(r)' /\ Coherent(r)'
    BY <1>1, <2>1, <2>2, <2>3 DEF SerialFits, Recorded, Coherent
  <2> QED
    BY <2>4, SerialStep
<1>4. CASE Store(c)
  <2> DEFINE t == [call[c] EXCEPT !.pc = "invalidate"]
  <2>1. /\ call[c].pc = "store" /\ call'[c] = t /\ settled' = settled /\ announced' = announced
        /\ store[r] \subseteq store'[r] /\ h \in store'[r]
    BY <1>1, <1>4 DEF Store, At, Goto, backend, history, TypeOK, TaskOK
  <2>2. t.pc = "invalidate" /\ t.op = call[c].op /\ t.arg = h /\ t.due = call[c].due
    BY <1>1 DEF Task
  <2> HIDE DEF t
  <2>3. SerialFits(c, call[c])' /\ Recorded(r)' /\ At(c, "invalidate")'
    BY <1>1, <2>1, <2>2 DEF SerialFits, Recorded, At
  <2> QED
    BY <2>3, SerialStep
<1>5. CASE Invalidate(c)
  <2>1. /\ call[c].pc = "invalidate" /\ call'[c] = Idle /\ store' = store /\ leaves' = leaves
        /\ cachedLeaves'[r] = None /\ cachedCount'[r] = None /\ settled'[r] = settled[r] \cup {h}
        /\ h \in created /\ h \in store[r]
    BY <1>1, <1>5 DEF Invalidate, At, backend, TypeOK, InvalidatedLeaves, InvalidatedCount, SerialFits, TaskOK
  <2>2. h \in Hash
    BY <1>1, <2>1 DEF TypeOK
  <2>3. announced[r] \in [Hash -> Nat]
    BY <1>1 DEF TypeOK
  <2>4. \A x \in Hash : announced'[r][x] \in {0, 1} /\ (announced'[r][x] = 1 => x \in store[r])
    <3>1. CASE call[c].op = "receive"
      <4>1. announced[r][h] = 0
        BY <1>1, <2>1, <3>1 DEF SerialFits
      <4>2. announced' = [announced EXCEPT ![r][h] = announced[r][h] + 1]
        BY <1>5, <3>1 DEF Invalidate
      <4>3. announced'[r] = [announced[r] EXCEPT ![h] = announced[r][h] + 1]
        BY <1>1, <4>2 DEF TypeOK
      <4>4. announced'[r][h] = 1 /\ \A x \in Hash : x # h => announced'[r][x] = announced[r][x]
        BY <2>2, <2>3, <4>1, <4>3
      <4> QED
        BY <1>1, <2>1, <4>4 DEF Recorded
    <3>2. CASE call[c].op # "receive"
      BY <1>1, <1>5, <3>2 DEF Invalidate, Recorded
    <3> QED
      BY <3>1, <3>2
  <2>5. SerialFits(c, call[c])'
    BY <2>1 DEF SerialFits, Idle
  <2>6. Recorded(r)' /\ Coherent(r)'
    BY <1>1, <2>1, <2>4 DEF Recorded, Coherent
  <2> QED
    BY <2>5, <2>6, SerialStep
<1>6. CASE Return(c)
  <2>1. call'[c] = Idle /\ call[c].pc # "invalidate" /\ UNCHANGED <<backend, cache, history>>
    BY <1>1, <1>6 DEF Return, At, Rejection
  <2>2. SerialFits(c, Idle)
    BY DEF SerialFits, Idle
  <2> QED
    BY <2>1, <2>2, SerialPlain
<1> QED
  BY <1>2, <1>3, <1>4, <1>5, <1>6

LEMMA SerialNext == Serial /\ IInv /\ SerialInv /\ [Next]_vars => SerialInv'
<1> SUFFICES ASSUME Serial, IInv, SerialInv, [Next]_vars PROVE SerialInv'
  OBVIOUS
<1>1. CASE Tick \/ UNCHANGED vars
  <2>1. UNCHANGED <<backend, cache, call, history>>
    BY <1>1 DEF Tick, vars
  <2> QED
    BY <2>1 DEF backend, cache, history, SerialInv, SerialFits, Recorded, CacheCoherent, At
<1>2. ASSUME NEW c \in Call, Step(c) PROVE SerialInv'
  <2>1. Local(c)
    BY <1>2, CallIsLocal
  <2> QED
    BY <1>2, <2>1, SerialBegins, SerialReads, SerialWrites DEF Step
<1> QED
  BY <1>1, <1>2 DEF Next

-----------------------------------------------------------------------------
(* With no more leaves than a post names and a query looks at *)

FewLeaves == \A r \in Replica : Cardinality(leaves[r]) <= MaxLeaves

Above(c, t) ==
  /\ t.pc = "page" => \A h \in leaves[Home[c]] : t.value <= height[h]
  /\ t.pc = "store" /\ t.op = "post" => \A p \in t.due :
       time[p] + ParentDelta >= time[t.arg] => height[p] < height[t.arg]

AboveInv == \A c \in Call : Above(c, call[c])

LEMMA AboveStep ==
  ASSUME Serial, IInv, SerialInv, AboveInv, NEW c \in Call, Local(c), Above(c, call[c])'
  PROVE  AboveInv'
<1> USE ConstantsAssumption
<1> SUFFICES ASSUME NEW d \in Call, d # c PROVE Above(d, call[d])'
  BY DEF AboveInv
<1>1. Home[d] \in Replica /\ Home[d] # Home[c] /\ Above(d, call[d]) /\ SerialFits(d, call[d]) /\ TaskOK(d)
  BY DEF Serial, SerialInv, AboveInv, IInv, Tasks
<1>2. leaves[Home[d]] \subseteq store[Home[d]] /\ store[Home[d]] \subseteq created
  BY <1>1 DEF IInv, LeavesExact, Known
<1>3. call'[d] = call[d] /\ leaves'[Home[d]] = leaves[Home[d]]
  BY <1>1 DEF Local
<1>4. \A h \in created : height'[h] = height[h] /\ time'[h] = time[h]
  BY DEF Local
<1>5. call[d].pc = "page" => \A h \in leaves[Home[d]] : call[d].value <= height'[h]
  BY <1>1, <1>2, <1>4 DEF Above
<1>6. call[d].pc = "store" => /\ call[d].due \subseteq created /\ call[d].arg \in created
  BY <1>1, <1>2 DEF SerialFits, TaskOK
<1>7. ASSUME call[d].pc = "store", call[d].op = "post", NEW p \in call[d].due,
             time'[p] + ParentDelta >= time'[call[d].arg]
      PROVE  height'[p] < height'[call[d].arg]
  <2>1. /\ height'[p] = height[p] /\ time'[p] = time[p]
        /\ height'[call[d].arg] = height[call[d].arg] /\ time'[call[d].arg] = time[call[d].arg]
    BY <1>4, <1>6, <1>7
  <2> QED
    BY <1>1, <1>7, <2>1 DEF Above
<1> QED
  BY <1>3, <1>5, <1>7 DEF Above

LEMMA AboveClamp ==
  ASSUME Serial, IInv, SerialInv, FewLeaves, NEW c \in Call, QueryClamp(c)
  PROVE  Above(c, call[c])'
<1> USE ConstantsAssumption
<1> DEFINE r == Home[c]
<1>1. /\ r \in Replica /\ call \in [Call -> Task] /\ call[c] \in Task /\ leaves[r] \in SUBSET Hash
      /\ call[c].pc = "leaves" /\ leaves' = leaves /\ height' = height
      /\ \A h \in Hash : height[h] \in Nat
  <2>1. \A h \in Hash : height[h] \in 0..(Cardinality(Hash) - 1)
    BY DEF IInv, TypeOK
  <2>2. /\ r \in Replica /\ call \in [Call -> Task] /\ call[c] \in Task /\ leaves[r] \in SUBSET Hash
    BY DEF IInv, TypeOK, Task
  <2>3. call[c].pc = "leaves" /\ leaves' = leaves /\ height' = height
    BY DEF QueryClamp, At, backend, message
  <2> QED
    BY <2>1, <2>2, <2>3
<1>2. call[c].seen = leaves[r]
  BY <1>1 DEF SerialInv, SerialFits
<1>3. Truncated(call[c].seen) = {leaves[r]}
  BY <1>1, <1>2 DEF FewLeaves, Truncated
<1> DEFINE v == Min({call[c].value, MinLeafHeight(leaves[r])})
<1>4. call' = [call EXCEPT ![c].pc = "page", ![c].seen = {}, ![c].value = v]
  BY <1>3 DEF QueryClamp
<1> HIDE DEF v
<1>5. call'[c] = [call[c] EXCEPT !.pc = "page", !.seen = {}, !.value = v]
  BY <1>1, <1>4
<1>6. call'[c].pc = "page" /\ call'[c].value = v
  BY <1>1, <1>5 DEF Task
<1>7. ASSUME NEW h \in leaves[r] PROVE v <= height[h]
  <2> DEFINE H == {height[x] : x \in leaves[r]}
  <2>1. H \in SUBSET Nat /\ height[h] \in H
    BY <1>1
  <2>2. MinLeafHeight(leaves[r]) = Min(H)
    BY <1>7 DEF MinLeafHeight
  <2> HIDE DEF H
  <2>3. Min(H) \in Nat /\ Min(H) <= height[h]
    BY <2>1, MinProperty
  <2> DEFINE W == {call[c].value, MinLeafHeight(leaves[r])}
  <2>4. W \in SUBSET Nat /\ W # {} /\ Min(H) \in W
    BY <1>1, <2>2, <2>3 DEF Task
  <2>5. v = Min(W)
    BY DEF v
  <2> HIDE DEF W
  <2>6. v \in Nat /\ v <= Min(H)
    BY <2>4, <2>5, MinProperty
  <2>7. height[h] \in Nat
    BY <1>1
  <2> QED
    BY <2>3, <2>6, <2>7
<1> QED
  BY <1>1, <1>6, <1>7 DEF Above

LEMMA AboveBuild ==
  ASSUME Serial, IInv, SerialInv, FewLeaves, NEW c \in Call, NEW h \in Hash, PostBuild(c, h)
  PROVE  Above(c, call[c])'
<1> USE ConstantsAssumption
<1> DEFINE r == Home[c]
           L == leaves[r]
           C == FilterParents(L)
           n == call[c].value
<1>1. /\ r \in Replica /\ call \in [Call -> Task] /\ call[c] \in Task /\ L \in SUBSET Hash
      /\ call[c].pc = "leaves" /\ TypeOK /\ h \notin created
      /\ \A x \in Hash : height[x] \in Nat /\ time[x] \in Nat
  <2>1. \A x \in Hash : height[x] \in 0..(Cardinality(Hash) - 1)
    BY DEF IInv, TypeOK
  <2>2. /\ r \in Replica /\ call \in [Call -> Task] /\ call[c] \in Task /\ L \in SUBSET Hash
        /\ TypeOK /\ \A x \in Hash : time[x] \in Nat
    BY DEF IInv, TypeOK, Task
  <2>3. call[c].pc = "leaves" /\ h \notin created
    BY DEF PostBuild, At
  <2> QED
    BY <2>1, <2>2, <2>3
<1>2. call[c].seen = L /\ call[c].due \subseteq store[r] /\ store[r] \subseteq created
  BY <1>1 DEF SerialInv, SerialFits, IInv, Known
<1>3. Truncated(call[c].seen) = {L}
  BY <1>1, <1>2 DEF FewLeaves, Truncated
<1>4. /\ C # {} /\ height' = [height EXCEPT ![h] = ComputeHeight(C)]
      /\ time' = [time EXCEPT ![h] = AdjustTimestamp(C, n)]
      /\ call' = [call EXCEPT ![c].pc = "store", ![c].arg = h, ![c].seen = {}, ![c].value = 0]
  BY <1>3 DEF PostBuild
<1>5. call'[c] = [call[c] EXCEPT !.pc = "store", !.arg = h, !.seen = {}, !.value = 0]
  BY <1>1, <1>4
<1>6. call'[c].pc = "store" /\ call'[c].arg = h /\ call'[c].due = call[c].due
  BY <1>1, <1>5 DEF Task
<1>7. C \subseteq L /\ L # {} /\ IsFiniteSet(C) /\ n \in Nat
  BY <1>1, <1>4, FS_Subset DEF FilterParents, Task
<1>8. PICK m \in C : ComputeMaxTimestamp(L) \in Nat /\ time[m] = ComputeMaxTimestamp(L)
  BY <1>1, <1>7, LatestIsKept
<1>9. height'[h] = MaxAbove(height, C) /\ time'[h] = MaxOver(n, time, C)
  BY <1>1, <1>4, ReducersAreMaxima DEF TypeOK
<1>10. /\ MaxAbove(height, C) \in Nat /\ \A x \in C : height[x] < MaxAbove(height, C)
       /\ MaxOver(n, time, C) \in Nat /\ \A x \in C : time[x] <= MaxOver(n, time, C)
  <2> HIDE DEF C
  <2>1. \A x \in C : height[x] \in Nat /\ time[x] \in Nat
    BY <1>1, <1>7
  <2> HIDE DEF n
  <2> QED
    BY <1>7, <2>1, MaxOverProperty, MaxAboveProperty
<1>11. \A x \in created : height'[x] = height[x] /\ time'[x] = time[x]
  BY <1>1, <1>4 DEF TypeOK
<1>12. ASSUME NEW p \in call[c].due, time'[p] + ParentDelta >= time'[h]
       PROVE  height'[p] < height'[h]
  <2>1. p \in store[r] /\ p \in Hash /\ height'[p] = height[p] /\ time'[p] = time[p]
    BY <1>1, <1>2, <1>11 DEF TypeOK
  <2>2. PICK q \in L : height[p] <= height[q] /\ time[p] <= time[q]
    BY <1>1, <2>1, LeafAbove
  <2>3. q \in Hash /\ height[q] \in Nat /\ time[q] \in Nat /\ height[p] \in Nat /\ time[p] \in Nat
    BY <1>1, <2>1
  <2>4. time[m] <= time'[h] /\ time'[h] \in Nat /\ time[m] \in Nat
    BY <1>8, <1>9, <1>10
  <2>5. time[p] + ParentDelta >= time'[h]
    BY <1>12, <2>1
  <2>6. time[q] + ParentDelta >= time[m]
    BY <2>2, <2>3, <2>4, <2>5
  <2>7. q \in C
    BY <1>8, <2>2, <2>6 DEF FilterParents
  <2>8. height[q] < height'[h] /\ height'[h] \in Nat
    BY <1>9, <1>10, <2>7
  <2> QED
    BY <2>1, <2>2, <2>3, <2>8
<1> QED
  BY <1>6, <1>12 DEF Above

LEMMA AboveNext == Serial /\ IInv /\ SerialInv /\ FewLeaves /\ AboveInv /\ [Next]_vars => AboveInv'
<1> SUFFICES ASSUME Serial, IInv, SerialInv, FewLeaves, AboveInv, [Next]_vars PROVE AboveInv'
  OBVIOUS
<1>1. CASE Tick \/ UNCHANGED vars
  <2>1. UNCHANGED <<message, backend, call>>
    BY <1>1 DEF Tick, vars
  <2> QED
    BY <2>1 DEF message, backend, AboveInv, Above
<1>2. ASSUME NEW c \in Call, Step(c) PROVE AboveInv'
  <2>1. Local(c)
    BY <1>2, CallIsLocal
  <2>2. call \in [Call -> Task] /\ call[c] \in Task /\ SerialFits(c, call[c])
    BY DEF IInv, TypeOK, Task, SerialInv
  <2>3. CASE QueryClamp(c)
    BY <2>1, <2>3, AboveClamp, AboveStep
  <2>4. CASE \E h \in Hash : PostBuild(c, h)
    BY <2>1, <2>4, AboveBuild, AboveStep
  <2>5. CASE ReceiveCheck(c)
    <3>1. PICK pc \in {"missingParent", "store", "banned"} : call' = [call EXCEPT ![c].pc = pc]
      BY <2>5 DEF ReceiveCheck, Goto
    <3>2. call[c].op = "receive"
      BY <2>2, <2>5 DEF ReceiveCheck, At, SerialFits
    <3>3. call'[c] = [call[c] EXCEPT !.pc = pc]
      BY <2>2, <3>1
    <3>4. call'[c].pc = pc /\ call'[c].op = "receive"
      BY <2>2, <3>2, <3>3 DEF Task
    <3>5. Above(c, call[c])'
      BY <3>4 DEF Above
    <3> QED
      BY <2>1, <3>5, AboveStep
  <2>6. ASSUME call'[c].pc \notin {"page", "store"} PROVE AboveInv'
    <3>1. Above(c, call[c])'
      BY <2>6 DEF Above
    <3> QED
      BY <2>1, <3>1, AboveStep
  <2>7. CASE ReadLeafHashes(c) \/ ReadCount(c) \/ FillLeaves(c) \/ FillCount(c) \/ PostFail(c) \/ Store(c)
    <3>1. call'[c].pc \in {"leafMessages", "countFill", "leaves", "counted", "notReady", "internalError", "invalidate"}
      BY <2>2, <2>7 DEF ReadLeafHashes, ReadCount, FillLeaves, FillCount, PostFail, Store, Goto, Task
    <3> QED
      BY <2>6, <3>1
  <2>8. CASE Invalidate(c) \/ Return(c)
    BY <2>2, <2>6, <2>8 DEF Invalidate, Return, Idle
  <2>9. CASE PostNoParents(c)
    <3>1. call'[c] = AskCount(Home[c], call[c])
      BY <2>2, <2>9 DEF PostNoParents
    <3>2. call'[c].pc \in {"countRead", "counted"}
      BY <2>2, <3>1 DEF AskCount, Task
    <3> QED
      BY <2>6, <3>2
  <2>10. CASE PostStart(c) \/ CountStart(c) \/ (\E v \in 0..Cardinality(Hash) : QueryStart(c, v))
    <3>1. \E op, v : \/ call'[c] = AskLeaves(Home[c], Begin(Home[c], op, v))
                     \/ call'[c] = AskCount(Home[c], Begin(Home[c], op, v))
      BY <2>2, <2>10 DEF PostStart, CountStart, QueryStart
    <3>2. call'[c].pc \in {"leafHashes", "leaves", "countRead", "counted"}
      BY <3>1 DEF AskLeaves, AskCount, Begin
    <3> QED
      BY <2>6, <3>2
  <2>11. CASE \E h \in Hash : ReceiveStart(c, h)
    <3>1. call'[c].pc = "parents"
      BY <2>2, <2>11 DEF ReceiveStart, Begin
    <3> QED
      BY <2>6, <3>1
  <2> QED
    BY <1>2, <2>3, <2>4, <2>5, <2>7, <2>8, <2>9, <2>10, <2>11 DEF Step
<1> QED
  BY <1>1, <1>2 DEF Next

-----------------------------------------------------------------------------
(* Theorems for one call at a time per channel *)

(* What the serial theorems rest on: what a call has read stays true until it returns. *)
THEOREM SerialInvariance == Serial => (Spec => []SerialInv)
<1> SUFFICES ASSUME Serial PROVE Spec => []SerialInv
  OBVIOUS
<1>1. Init => SerialInv
  BY SerialInit
<1>2. IInv /\ SerialInv /\ [Next]_vars => SerialInv'
  BY SerialNext
<1> QED
  BY <1>1, <1>2, Invariance, PTL DEF Spec

(* cache.js: a cached leaf set or count is the backend's, but for the moment between an add *)
(* and the reset that follows it.                                                           *)
THEOREM SerialCaches == Serial => (Spec => []CacheCoherent)
<1> SUFFICES ASSUME Serial PROVE Spec => []CacheCoherent
  OBVIOUS
<1>1. SerialInv => CacheCoherent
  BY DEF SerialInv
<1> QED
  BY <1>1, SerialInvariance, PTL

(* channel.js: receive() announces a message at most once. *)
THEOREM SerialIncoming == Serial => (Spec => []IncomingOnce)
<1> SUFFICES ASSUME Serial PROVE Spec => []IncomingOnce
  OBVIOUS
<1>1. SerialInv => IncomingOnce
  <2> SUFFICES ASSUME SerialInv, NEW r \in Replica, NEW h \in Hash PROVE announced[r][h] <= 1
    BY DEF IncomingOnce
  <2>1. announced[r][h] \in {0, 1}
    BY DEF SerialInv, Recorded
  <2> QED
    BY <2>1
<1> QED
  BY <1>1, SerialInvariance, PTL

(* channel.js: post() finds a leaf whenever it finds a message. *)
THEOREM SerialNoError == Serial => (Spec => []NoInternalError)
<1> SUFFICES ASSUME Serial PROVE Spec => []NoInternalError
  OBVIOUS
<1>1. SerialInv => NoInternalError
  BY DEF SerialInv, SerialFits, NoInternalError, At
<1> QED
  BY <1>1, SerialInvariance, PTL

LEMMA AboveInvariance == Serial => (Spec /\ []FewLeaves => []AboveInv)
<1> SUFFICES ASSUME Serial PROVE Spec /\ []FewLeaves => []AboveInv
  OBVIOUS
<1>1. Init => AboveInv
  BY DEF Init, AboveInv, Above, Idle
<1>2. IInv /\ SerialInv /\ FewLeaves /\ AboveInv /\ [Next]_vars => AboveInv'
  BY AboveNext
<1> QED
  BY <1>1, <1>2, Invariance, SerialInvariance, PTL DEF Spec

(* post() takes all leaves as parents, and every message that was added before is below one *)
(* of them that is as late: as long as there are no more leaves than a message may name, a  *)
(* post comes after all that it is not too late for.                                        *)
THEOREM SerialPosts == Serial => (Spec /\ []FewLeaves => []SequentialPosts)
<1> SUFFICES ASSUME Serial PROVE Spec /\ []FewLeaves => []SequentialPosts
  OBVIOUS
<1>1. AboveInv => SequentialPosts
  BY DEF AboveInv, Above, SequentialPosts, At
<1> QED
  BY <1>1, AboveInvariance, PTL

(* query() by height starts below every leaf, as long as it looks at all of them. *)
THEOREM SerialQueries == Serial => (Spec /\ []FewLeaves => []QueryCoversLeaves)
<1> SUFFICES ASSUME Serial PROVE Spec /\ []FewLeaves => []QueryCoversLeaves
  OBVIOUS
<1>1. AboveInv => QueryCoversLeaves
  BY DEF AboveInv, Above, QueryCoversLeaves, At
<1> QED
  BY <1>1, AboveInvariance, PTL
=============================================================================
