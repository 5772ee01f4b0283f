---------------------------- MODULE WireProofs ----------------------------
(***************************************************************************)
(* Theorems about Wire, for every number of hops and all lengths of the    *)
(* lists: a receiver reads what was sent, next to fields it does not know; *)
(* what it encodes again are the bytes that came; and signatures and       *)
(* hashes survive however often a value is stored and handed on.           *)
(*                                                                         *)
(* The argument.  decode() undoes encode() for an object that is exact:    *)
(* it has just the properties its codec knows, and its repeated fields     *)
(* are lists.  What the library encodes is exact, or has an exact twin,    *)
(* which differs in properties that encode() leaves out and an empty       *)
(* chain.  So what is read is the twin; and what is rebuilt from it is     *)
(* again something that the library sends.  What holds at each level of    *)
(* embedding is stated once for each level, from the innermost outwards.   *)
(***************************************************************************)
EXTENDS Wire, SequenceTheorems, WellFoundedInduction, TLAPS

-----------------------------------------------------------------------------
(* FlattenSeq, and the fields under one number *)

\* Induction over the natural numbers, for the set of those that have a property.
LEMMA SetInduction ==
  ASSUME NEW G \in SUBSET Nat, 0 \in G, \A n \in G : n + 1 \in G
  PROVE  G = Nat
<1> SUFFICES ASSUME Nat \ G # {} PROVE FALSE
  OBVIOUS
<1>1. PICK m \in Nat \ G : \A x \in Nat \ G : ~(<<x, m>> \in OpToRel(<, Nat))
  <2>1. \E m \in Nat \ G : \A x \in Nat \ G : ~(<<x, m>> \in OpToRel(<, Nat))
    BY NatLessThanWellFounded, WFMin, Zenon
  <2> QED
    BY <2>1
<1>2. m \in Nat /\ m # 0 /\ m - 1 \in Nat /\ m - 1 < m
  OBVIOUS
<1>3. m - 1 \in G
  BY <1>1, <1>2 DEF OpToRel
<1> QED
  BY <1>2, <1>3

\* f holds the concatenations of the first lists of ss: the recursion of FlattenSeq.
Flat(ss, f) == f = [i \in 1..Len(ss) |-> IF i = 1 THEN ss[i] ELSE f[i - 1] \o ss[i]]

\* Such a function at one place.
LEMMA FlatAt ==
  ASSUME NEW S, NEW ss \in Seq(S), NEW f, Flat(ss, f), NEW i \in 1..Len(ss)
  PROVE  f[i] = IF i = 1 THEN ss[i] ELSE f[i - 1] \o ss[i]
<1> DEFINE h == [j \in 1..Len(ss) |-> IF j = 1 THEN ss[j] ELSE f[j - 1] \o ss[j]]
<1>1. f = h
  BY DEF Flat
<1>2. h[i] = IF i = 1 THEN ss[i] ELSE f[i - 1] \o ss[i]
  OBVIOUS
<1> HIDE DEF h
<1> QED
  BY <1>1, <1>2

\* There is such a function, for every sequence of sequences.
LEMMA FlatExists == ASSUME NEW S, NEW ss \in Seq(Seq(S)) PROVE \E f : Flat(ss, f)
<1> DEFINE At(i, f) == IF i = 1 THEN ss[i] ELSE f[i - 1] \o ss[i]
           To(n, f) == f = [i \in 1..n |-> f[i]] /\ \A i \in 1..n : f[i] = At(i, f)
           G == {n \in Nat : \E f : To(n, f)}
<1>1. 0 \in G
  <2>1. To(0, << >>)
    OBVIOUS
  <2> QED
    BY <2>1
<1>2. ASSUME NEW n \in G PROVE n + 1 \in G
  <2>1. PICK f : To(n, f)
    OBVIOUS
  <2> DEFINE g == [i \in 1..(n + 1) |-> IF i = n + 1 THEN At(n + 1, f) ELSE f[i]]
  <2>2. \A i \in 1..n : g[i] = f[i] /\ i # n + 1
    OBVIOUS
  <2>3. g[n + 1] = At(n + 1, f)
    OBVIOUS
  <2> HIDE DEF At
  <2>4. g = [i \in 1..(n + 1) |-> g[i]]
    OBVIOUS
  <2> HIDE DEF g
  <2>5. ASSUME NEW i \in 1..(n + 1) PROVE At(i, f) = At(i, g)
    <3>1. CASE i = 1
      BY <3>1 DEF At
    <3>2. CASE i # 1
      <4>1. i - 1 \in 1..n
        BY <3>2
      <4> QED
        BY <2>2, <4>1 DEF At
    <3> QED
      BY <3>1, <3>2
  <2>6. ASSUME NEW i \in 1..(n + 1) PROVE g[i] = At(i, g)
    <3>1. CASE i = n + 1
      BY <2>3, <2>5, <3>1
    <3>2. CASE i # n + 1
      <4>1. i \in 1..n
        BY <3>2
      <4> QED
        BY <2>1, <2>2, <2>5, <4>1
    <3> QED
      BY <3>1, <3>2
  <2>7. To(n + 1, g)
    BY <2>4, <2>6
  <2> HIDE DEF To
  <2> QED
    BY <2>7
<1>3. Len(ss) \in G
  <2> HIDE DEF G
  <2>1. G \in SUBSET Nat
    BY DEF G
  <2>2. G = Nat
    BY <1>1, <1>2, <2>1, SetInduction
  <2> QED
    BY <2>2
<1>4. PICK f : To(Len(ss), f)
  BY <1>3
<1>5. f = [i \in 1..Len(ss) |-> At(i, f)]
  BY <1>4
<1> QED
  BY <1>5 DEF Flat

\* FlattenSeq is its last value.
LEMMA FlatLast ==
  ASSUME NEW S, NEW ss \in Seq(Seq(S)), ss # << >>
  PROVE  \E f : Flat(ss, f) /\ FlattenSeq(ss) = f[Len(ss)]
<1> DEFINE flat == CHOOSE f : Flat(ss, f)
<1>1. Flat(ss, flat)
  BY FlatExists
<1>2. FlattenSeq(ss) = flat[Len(ss)]
  BY DEF FlattenSeq, Flat
<1> QED
  BY <1>1, <1>2

\* Nothing flattens to nothing.
LEMMA FlattenNil == FlattenSeq(<< >>) = << >>
BY DEF FlattenSeq

\* Two such functions agree on what their sequences have in common.
LEMMA FlatSame ==
  ASSUME NEW S, NEW ss \in Seq(Seq(S)), NEW s \in Seq(S),
         NEW f, Flat(ss, f), NEW g, Flat(Append(ss, s), g)
  PROVE  \A n \in 1..Len(ss) : f[n] = g[n]
<1> DEFINE G == {n \in Nat : n \in 1..Len(ss) => f[n] = g[n]}
<1>1. 0 \in G
  OBVIOUS
<1>2. ASSUME NEW n \in G PROVE n + 1 \in G
  <2> SUFFICES ASSUME n + 1 \in 1..Len(ss) PROVE f[n + 1] = g[n + 1]
    OBVIOUS
  <2>1. Append(ss, s)[n + 1] = ss[n + 1] /\ Len(Append(ss, s)) = Len(ss) + 1
    OBVIOUS
  <2>2. f[n + 1] = IF n + 1 = 1 THEN ss[n + 1] ELSE f[(n + 1) - 1] \o ss[n + 1]
    BY FlatAt
  <2>3. g[n + 1] = IF n + 1 = 1 THEN ss[n + 1] ELSE g[(n + 1) - 1] \o ss[n + 1]
    <3> DEFINE tt == Append(ss, s)
    <3>1. tt \in Seq(Seq(S)) /\ n + 1 \in 1..Len(tt)
      BY <2>1, AppendProperties
    <3> HIDE DEF tt
    <3>2. g[n + 1] = IF n + 1 = 1 THEN tt[n + 1] ELSE g[(n + 1) - 1] \o tt[n + 1]
      BY <3>1, FlatAt DEF tt
    <3> QED
      BY <2>1, <3>2 DEF tt
  <2>4. (n + 1) - 1 = n
    OBVIOUS
  <2> QED
    BY <2>2, <2>3, <2>4
<1>3. G = Nat
  <2> HIDE DEF G
  <2>1. G \in SUBSET Nat
    BY DEF G
  <2> QED
    BY <1>1, <1>2, <2>1, SetInduction
<1> QED
  BY <1>3

\* FlattenSeq of one more list appends it.
LEMMA FlattenAppend ==
  ASSUME NEW S, NEW ss \in Seq(Seq(S)), NEW s \in Seq(S)
  PROVE  FlattenSeq(Append(ss, s)) = FlattenSeq(ss) \o s
<1>1. Append(ss, s) \in Seq(Seq(S)) /\ Append(ss, s) # << >>
  BY AppendProperties
<1>2. PICK g : Flat(Append(ss, s), g) /\ FlattenSeq(Append(ss, s)) = g[Len(Append(ss, s))]
  BY <1>1, FlatLast
<1>3. /\ Len(Append(ss, s)) = Len(ss) + 1 /\ Len(ss) \in Nat
      /\ Append(ss, s)[Len(ss) + 1] = s
  OBVIOUS
<1>4. FlattenSeq(Append(ss, s)) = IF Len(ss) = 0 THEN s ELSE g[Len(ss)] \o s
  <2> DEFINE tt == Append(ss, s)
             n == Len(ss) + 1
  <2>1. tt \in Seq(Seq(S)) /\ n \in 1..Len(tt) /\ n - 1 = Len(ss) /\ tt[n] = s
    BY <1>1, <1>3
  <2>2. Flat(tt, g)
    BY <1>2
  <2> HIDE DEF tt
  <2>3. g[n] = IF n = 1 THEN tt[n] ELSE g[n - 1] \o tt[n]
    BY <2>1, <2>2, FlatAt
  <2> QED
    BY <1>2, <1>3, <2>1, <2>3 DEF tt
<1>5. CASE ss = << >>
  BY <1>4, <1>5, FlattenNil
<1>6. CASE ss # << >>
  <2>1. PICK f : Flat(ss, f) /\ FlattenSeq(ss) = f[Len(ss)]
    BY <1>6, FlatLast
  <2>2. f[Len(ss)] = g[Len(ss)]
    BY <1>2, <1>3, <1>6, <2>1, FlatSame
  <2> QED
    BY <1>3, <1>4, <1>6, <2>1, <2>2
<1> QED
  BY <1>5, <1>6
\* A sequence that is not empty has a last element.
LEMMA LastApart ==
  ASSUME NEW S, NEW n \in Nat, NEW s \in Seq(S), Len(s) = n + 1
  PROVE  \E t \in Seq(S), x \in S : s = Append(t, x) /\ Len(t) = n
<1>1. s # << >>
  OBVIOUS
<1>2. PICK t \in Seq(S) : \E x \in S : s = Append(t, x)
  BY <1>1, SequenceEmptyOrAppend
<1> QED
  BY <1>2

\* FlattenSeq gives a sequence of the elements of the lists.
LEMMA FlattenType ==
  ASSUME NEW S, NEW ss \in Seq(Seq(S))
  PROVE  FlattenSeq(ss) \in Seq(S)
<1> DEFINE G == {n \in Nat : \A tt \in Seq(Seq(S)) : Len(tt) = n => FlattenSeq(tt) \in Seq(S)}
<1>1. 0 \in G
  BY FlattenNil
<1>2. ASSUME NEW n \in G PROVE n + 1 \in G
  <2> SUFFICES ASSUME NEW tt \in Seq(Seq(S)), Len(tt) = n + 1 PROVE FlattenSeq(tt) \in Seq(S)
    OBVIOUS
  <2>1. PICK t \in Seq(Seq(S)), x \in Seq(S) : tt = Append(t, x) /\ Len(t) = n
    BY LastApart
  <2>2. FlattenSeq(t) \in Seq(S)
    BY <2>1
  <2>3. FlattenSeq(tt) = FlattenSeq(t) \o x
    BY <2>1, FlattenAppend
  <2> QED
    BY <2>2, <2>3
<1>3. G = Nat
  <2> HIDE DEF G
  <2>1. G \in SUBSET Nat
    BY DEF G
  <2> QED
    BY <1>1, <1>2, <2>1, SetInduction
<1> QED
  BY <1>3

\* No bytes have no field.
LEMMA UnderNil == ASSUME NEW f PROVE Under(f, << >>) = << >>
<1>1. [i \in DOMAIN << >> |-> IF << >>[i].no = f.no THEN <<(<< >>)[i]>> ELSE << >>] = << >>
  OBVIOUS
<1> QED
  BY <1>1, FlattenNil DEF Under

\* One more field comes last, if it is under this number.
LEMMA UnderAppend ==
  ASSUME NEW f, NEW S, NEW s \in Seq(S), NEW t \in S
  PROVE  /\ Under(f, s) \in Seq(S)
         /\ Under(f, Append(s, t)) = IF t.no = f.no THEN Append(Under(f, s), t) ELSE Under(f, s)
<1> DEFINE Cut(u) == [i \in DOMAIN u |-> IF u[i].no = f.no THEN <<u[i]>> ELSE << >>]
           last == IF t.no = f.no THEN <<t>> ELSE << >>
<1>1. Cut(s) \in Seq(Seq(S))
  <2>1. \A i \in 1..Len(s) : s[i] \in S /\ Cut(s)[i] \in Seq(S)
    OBVIOUS
  <2>2. DOMAIN Cut(s) = 1..Len(s)
    OBVIOUS
  <2> QED
    BY <2>1, <2>2
<1>2. Cut(Append(s, t)) = Append(Cut(s), last)
  <2>1. /\ DOMAIN Append(s, t) = 1..(Len(s) + 1)
        /\ \A i \in 1..Len(s) : Append(s, t)[i] = s[i]
        /\ Append(s, t)[Len(s) + 1] = t
        /\ Len(Cut(s)) = Len(s)
    BY <1>1
  <2> QED
    BY <2>1, <1>1
<1>3. last \in Seq(S)
  OBVIOUS
<1>4. Under(f, Append(s, t)) = Under(f, s) \o last
  <2> HIDE DEF Cut, last
  <2>1. FlattenSeq(Cut(Append(s, t))) = FlattenSeq(Cut(s)) \o last
    BY <1>1, <1>2, <1>3, FlattenAppend
  <2> QED
    BY <2>1 DEF Under, Cut
<1>5. Under(f, s) \in Seq(S)
  <2> HIDE DEF Cut
  <2> QED
    BY <1>1, FlattenType DEF Under, Cut
<1> QED
  BY <1>4, <1>5

\* Under a number that none of the fields has there is nothing.
LEMMA UnderNone ==
  ASSUME NEW f, NEW S, NEW s \in Seq(S), \A i \in 1..Len(s) : s[i].no # f.no
  PROVE  Under(f, s) = << >>
<1> DEFINE Free(t) == \A i \in 1..Len(t) : t[i].no # f.no
           G == {n \in Nat : \A t \in Seq(S) : Len(t) = n /\ Free(t) => Under(f, t) = << >>}
<1>1. 0 \in G
  BY UnderNil
<1>2. ASSUME NEW n \in G PROVE n + 1 \in G
  <2> SUFFICES ASSUME NEW t \in Seq(S), Len(t) = n + 1, Free(t) PROVE Under(f, t) = << >>
    OBVIOUS
  <2>1. PICK u \in Seq(S), x \in S : t = Append(u, x) /\ Len(u) = n
    BY LastApart
  <2>2. /\ \A i \in 1..n : u[i] = t[i]
        /\ x = t[n + 1]
    BY <2>1
  <2>3. Free(u) /\ x.no # f.no
    BY <2>1, <2>2
  <2>4. Under(f, u) = << >>
    BY <2>1, <2>3
  <2> QED
    BY <2>1, <2>3, <2>4, UnderAppend
<1>3. G = Nat
  <2> HIDE DEF G
  <2>1. G \in SUBSET Nat
    BY DEF G
  <2> QED
    BY <1>1, <1>2, <2>1, SetInduction
<1> QED
  BY <1>3

\* Under the number that all of the fields have there are all.
LEMMA UnderAll ==
  ASSUME NEW f, NEW S, NEW s \in Seq(S), \A i \in 1..Len(s) : s[i].no = f.no
  PROVE  Under(f, s) = s
<1> DEFINE Full(t) == \A i \in 1..Len(t) : t[i].no = f.no
           G == {n \in Nat : \A t \in Seq(S) : Len(t) = n /\ Full(t) => Under(f, t) = t}
<1>1. 0 \in G
  BY UnderNil
<1>2. ASSUME NEW n \in G PROVE n + 1 \in G
  <2> SUFFICES ASSUME NEW t \in Seq(S), Len(t) = n + 1, Full(t) PROVE Under(f, t) = t
    OBVIOUS
  <2>1. PICK u \in Seq(S), x \in S : t = Append(u, x) /\ Len(u) = n
    BY LastApart
  <2>2. /\ \A i \in 1..n : u[i] = t[i]
        /\ x = t[n + 1]
    BY <2>1
  <2>3. Full(u) /\ x.no = f.no
    BY <2>1, <2>2
  <2>4. Under(f, u) = u
    BY <2>1, <2>3
  <2> QED
    BY <2>1, <2>3, <2>4, UnderAppend
<1>3. G = Nat
  <2> HIDE DEF G
  <2>1. G \in SUBSET Nat
    BY DEF G
  <2> QED
    BY <1>1, <1>2, <2>1, SetInduction
<1> QED
  BY <1>3

\* What is under a number are fields of the input.
LEMMA UnderType ==
  ASSUME NEW f, NEW S, NEW s \in Seq(S)
  PROVE  Under(f, s) \in Seq(S)
<1>1. CASE S = {}
  <2>1. s = << >>
    BY <1>1
  <2> QED
    BY <2>1, UnderNil
<1>2. CASE S # {}
  BY <1>2, UnderAppend
<1> QED
  BY <1>1, <1>2

AppendsLast(s, t, x) == Append(s \o t, x) = s \o Append(t, x)

\* Appending to a concatenation appends to its second part.
LEMMA ConcatAppend ==
  ASSUME NEW S, NEW s \in Seq(S), NEW t \in Seq(S), NEW x \in S
  PROVE  AppendsLast(s, t, x)
<1> DEFINE u == Append(t, x)
           v == s \o t
<1>1. u \in Seq(S) /\ Len(u) = Len(t) + 1 /\ v \in Seq(S) /\ Len(v) = Len(s) + Len(t)
  BY ConcatProperties, AppendProperties
<1>2. /\ \A i \in 1..Len(v) : v[i] = IF i <= Len(s) THEN s[i] ELSE t[i - Len(s)]
      /\ \A i \in 1..Len(t) : u[i] = t[i]
      /\ u[Len(t) + 1] = x
  BY ConcatProperties, AppendProperties
<1> HIDE DEF u, v
<1> DEFINE a == Append(v, x)
           b == s \o u
<1>3. /\ a \in Seq(S) /\ Len(a) = Len(v) + 1 /\ a[Len(v) + 1] = x
      /\ \A i \in 1..Len(v) : a[i] = v[i]
  <2>1. \A w \in Seq(S) : /\ Append(w, x) \in Seq(S) /\ Len(Append(w, x)) = Len(w) + 1
                          /\ Append(w, x)[Len(w) + 1] = x
                          /\ \A i \in 1..Len(w) : Append(w, x)[i] = w[i]
    BY AppendProperties
  <2> QED
    BY <1>1, <2>1
<1>4. /\ b \in Seq(S) /\ Len(b) = Len(s) + Len(u)
      /\ \A i \in 1..(Len(s) + Len(u)) : b[i] = IF i <= Len(s) THEN s[i] ELSE u[i - Len(s)]
  <2>1. \A w \in Seq(S) : /\ s \o w \in Seq(S) /\ Len(s \o w) = Len(s) + Len(w)
                          /\ \A i \in 1..(Len(s) + Len(w)) :
                               (s \o w)[i] = IF i <= Len(s) THEN s[i] ELSE w[i - Len(s)]
    BY ConcatProperties
  <2> QED
    BY <1>1, <2>1
<1> HIDE DEF a, b
<1>5. Len(a) = Len(b) /\ Len(s) \in Nat /\ Len(t) \in Nat
  BY <1>1, <1>3, <1>4
<1>6. ASSUME NEW i \in 1..Len(a) PROVE a[i] = b[i]
  <2>1. CASE i <= Len(s)
    <3>1. i \in 1..Len(v) /\ i \in 1..(Len(s) + Len(u))
      BY <1>1, <1>5, <2>1
    <3>2. a[i] = v[i] /\ v[i] = s[i]
      BY <1>2, <1>3, <2>1, <3>1
    <3>3. b[i] = s[i]
      BY <1>4, <2>1, <3>1
    <3> QED
      BY <3>2, <3>3
  <2>2. CASE i > Len(s) /\ i <= Len(v)
    <3>1. i - Len(s) \in 1..Len(t)
      BY <1>1, <1>5, <2>2
    <3>2. b[i] = u[i - Len(s)] /\ a[i] = v[i] /\ v[i] = t[i - Len(s)]
      BY <1>1, <1>2, <1>3, <1>4, <1>5, <2>2
    <3> QED
      BY <1>2, <3>1, <3>2
  <2>3. CASE i = Len(v) + 1
    <3>1. i - Len(s) = Len(t) + 1 /\ ~(i <= Len(s))
      BY <1>1, <1>5, <2>3
    <3>2. b[i] = u[i - Len(s)]
      BY <1>4, <1>5, <3>1
    <3> QED
      BY <1>2, <1>3, <2>3, <3>1, <3>2
  <2> QED
    BY <1>1, <1>3, <1>5, <2>1, <2>2, <2>3
<1>7. a = b
  BY <1>3, <1>4, <1>5, <1>6, SeqEqual
<1> QED
  BY <1>7 DEF a, b, u, v, AppendsLast

\* The fields of two inputs, one after the other.
LEMMA UnderConcat ==
  ASSUME NEW f, NEW S, NEW s \in Seq(S), NEW t \in Seq(S)
  PROVE  Under(f, s \o t) = Under(f, s) \o Under(f, t)
<1> DEFINE G == {n \in Nat : \A u \in Seq(S) :
                   Len(u) = n => Under(f, s \o u) = Under(f, s) \o Under(f, u)}
<1>1. 0 \in G
  <2> SUFFICES ASSUME NEW u \in Seq(S), Len(u) = 0
               PROVE  Under(f, s \o u) = Under(f, s) \o Under(f, u)
    OBVIOUS
  <2>1. u = << >> /\ s \o << >> = s
    OBVIOUS
  <2>2. Under(f, s) \o << >> = Under(f, s)
    <3>1. Under(f, s) \in Seq(S)
      BY UnderType
    <3> QED
      BY <3>1
  <2> QED
    BY <2>1, <2>2, UnderNil
<1>2. ASSUME NEW n \in G PROVE n + 1 \in G
  <2> SUFFICES ASSUME NEW u \in Seq(S), Len(u) = n + 1
               PROVE  Under(f, s \o u) = Under(f, s) \o Under(f, u)
    OBVIOUS
  <2>1. PICK v \in Seq(S), x \in S : u = Append(v, x) /\ Len(v) = n
    BY LastApart
  <2>2. s \o u = Append(s \o v, x) /\ s \o v \in Seq(S)
    BY <2>1
  <2>3. Under(f, s \o v) = Under(f, s) \o Under(f, v)
    BY <2>1
  <2>4. Under(f, s) \in Seq(S) /\ Under(f, v) \in Seq(S)
    BY UnderType
  <2>5. Under(f, s \o u) = IF x.no = f.no THEN Append(Under(f, s \o v), x) ELSE Under(f, s \o v)
    <3> DEFINE w == s \o v
    <3>1. w \in Seq(S) /\ s \o u = Append(w, x)
      BY <2>2
    <3> HIDE DEF w
    <3>2. Under(f, Append(w, x)) = IF x.no = f.no THEN Append(Under(f, w), x) ELSE Under(f, w)
      BY <3>1, UnderAppend
    <3> QED
      BY <3>1, <3>2 DEF w
  <2>6. Under(f, u) = IF x.no = f.no THEN Append(Under(f, v), x) ELSE Under(f, v)
    BY <2>1, UnderAppend
  <2> DEFINE a == Under(f, s)
             b == Under(f, v)
  <2> HIDE DEF a, b
  <2>7. a \in Seq(S) /\ b \in Seq(S)
    BY <2>4 DEF a, b
  <2>8. Append(a \o b, x) = a \o Append(b, x)
    <3>1. AppendsLast(a, b, x)
      BY <2>1, <2>7, ConcatAppend
    <3> QED
      BY <3>1 DEF AppendsLast
  <2> QED
    BY <2>3, <2>5, <2>6, <2>8 DEF a, b
<1>3. G = Nat
  <2> HIDE DEF G
  <2>1. G \in SUBSET Nat
    BY DEF G
  <2> QED
    BY <1>1, <1>2, <2>1, SetInduction
<1> QED
  BY <1>3

AllUnder(f, s)  == \A k \in 1..Len(s) : s[k].no = f.no
NoneUnder(f, s) == \A k \in 1..Len(s) : s[k].no # f.no

\* The lists of several fields, one after the other: none of them under the number.
LEMMA UnderFlattenNone ==
  ASSUME NEW f, NEW S, NEW W \in Seq(Seq(S)),
         \A j \in 1..Len(W) : \A k \in 1..Len(W[j]) : W[j][k].no # f.no
  PROVE  Under(f, FlattenSeq(W)) = << >>
<1> DEFINE Free(V) == \A j \in 1..Len(V) : \A k \in 1..Len(V[j]) : V[j][k].no # f.no
           G == {n \in Nat : \A V \in Seq(Seq(S)) :
                   Len(V) = n /\ Free(V) => Under(f, FlattenSeq(V)) = << >>}
<1>1. 0 \in G
  BY UnderNil, FlattenNil
<1>2. ASSUME NEW n \in G PROVE n + 1 \in G
  <2> SUFFICES ASSUME NEW V \in Seq(Seq(S)), Len(V) = n + 1, Free(V)
               PROVE  Under(f, FlattenSeq(V)) = << >>
    OBVIOUS
  <2>1. PICK U \in Seq(Seq(S)), x \in Seq(S) : V = Append(U, x) /\ Len(U) = n
    BY LastApart
  <2>2. /\ \A j \in 1..n : U[j] = V[j]
        /\ x = V[n + 1]
    BY <2>1
  <2>3. Free(U) /\ \A k \in 1..Len(x) : x[k].no # f.no
    <3>1. Len(V) = n + 1 /\ n + 1 \in 1..Len(V) /\ \A j \in 1..n : j \in 1..Len(V)
      BY <2>1
    <3>2. \A j \in 1..n : \A k \in 1..Len(V[j]) : V[j][k].no # f.no
      BY <3>1
    <3>3. Free(U)
      BY <2>1, <2>2, <3>2
    <3>4. \A k \in 1..Len(V[n + 1]) : V[n + 1][k].no # f.no
      BY <3>1
    <3> QED
      BY <2>2, <3>3, <3>4
  <2>4. Under(f, FlattenSeq(U)) = << >>
    BY <2>1, <2>3
  <2>5. FlattenSeq(V) = FlattenSeq(U) \o x /\ FlattenSeq(U) \in Seq(S)
    BY <2>1, FlattenAppend, FlattenType
  <2>6. Under(f, FlattenSeq(V)) = Under(f, FlattenSeq(U)) \o Under(f, x)
    <3> DEFINE u == FlattenSeq(U)
    <3> HIDE DEF u
    <3>1. Under(f, u \o x) = Under(f, u) \o Under(f, x)
      BY <2>5, UnderConcat DEF u
    <3> QED
      BY <2>5, <3>1 DEF u
  <2>7. Under(f, x) = << >>
    BY <2>3, UnderNone
  <2> QED
    BY <2>4, <2>6, <2>7
<1>3. G = Nat
  <2> HIDE DEF G
  <2>1. G \in SUBSET Nat
    BY DEF G
  <2> QED
    BY <1>1, <1>2, <2>1, SetInduction
<1>4. Free(W)
  OBVIOUS
<1>5. Len(W) \in G
  <2> HIDE DEF G
  <2> QED
    BY <1>3
<1> HIDE DEF Free
<1> QED
  BY <1>4, <1>5

\* ... and one of them, all of it, under the number.
LEMMA UnderFlatten ==
  ASSUME NEW f, NEW S, NEW W \in Seq(Seq(S)), NEW i \in 1..Len(W),
         AllUnder(f, W[i]), \A j \in 1..Len(W) : j # i => NoneUnder(f, W[j])
  PROVE  Under(f, FlattenSeq(W)) = W[i]
<1> DEFINE Only(V) == AllUnder(f, V[i]) /\ \A j \in 1..Len(V) : j # i => NoneUnder(f, V[j])
           G == {n \in Nat : \A V \in Seq(Seq(S)) :
                   Len(V) = n /\ Only(V) /\ i \in 1..n => Under(f, FlattenSeq(V)) = V[i]}
<1>1. 0 \in G
  OBVIOUS
<1>2. ASSUME NEW n \in G PROVE n + 1 \in G
  <2> SUFFICES ASSUME NEW V \in Seq(Seq(S)), Len(V) = n + 1, Only(V), i \in 1..(n + 1)
               PROVE  Under(f, FlattenSeq(V)) = V[i]
    OBVIOUS
  <2>1. PICK U \in Seq(Seq(S)), x \in Seq(S) : V = Append(U, x) /\ Len(U) = n
    BY LastApart
  <2>2. /\ \A j \in 1..n : U[j] = V[j] /\ j # n + 1 /\ j \in 1..Len(V)
        /\ x = V[n + 1] /\ n + 1 \in 1..Len(V)
    BY <2>1
  <2>3. FlattenSeq(V) = FlattenSeq(U) \o x /\ FlattenSeq(U) \in Seq(S)
    BY <2>1, FlattenAppend, FlattenType
  <2>4. Under(f, FlattenSeq(V)) = Under(f, FlattenSeq(U)) \o Under(f, x)
    <3> DEFINE u == FlattenSeq(U)
    <3> HIDE DEF u
    <3>1. Under(f, u \o x) = Under(f, u) \o Under(f, x)
      BY <2>3, UnderConcat DEF u
    <3> QED
      BY <2>3, <3>1 DEF u
  <2>5. CASE i = n + 1
    <3>1. \A j \in 1..Len(U) : NoneUnder(f, U[j])
      BY <2>1, <2>2, <2>5
    <3>2. AllUnder(f, x)
      BY <2>2, <2>5
    <3>3. Under(f, FlattenSeq(U)) = << >>
      BY <3>1, UnderFlattenNone DEF NoneUnder
    <3>4. Under(f, x) = x
      BY <3>2, UnderAll DEF AllUnder
    <3> QED
      BY <2>2, <2>4, <2>5, <3>3, <3>4
  <2>6. CASE i # n + 1
    <3>1. i \in 1..n /\ U[i] = V[i] /\ U[i] \in Seq(S)
      BY <2>1, <2>2, <2>6
    <3>2. Only(U)
      BY <2>1, <2>2, <3>1
    <3> HIDE DEF Only
    <3>3. Under(f, FlattenSeq(U)) = U[i]
      BY <2>1, <3>1, <3>2
    <3>4. NoneUnder(f, x)
      BY <2>2, <2>6 DEF Only
    <3>5. Under(f, x) = << >>
      BY <3>4, UnderNone DEF NoneUnder
    <3> QED
      BY <2>4, <3>1, <3>3, <3>5
  <2> QED
    BY <2>5, <2>6
<1>3. G = Nat
  <2> HIDE DEF G
  <2>1. G \in SUBSET Nat
    BY DEF G
  <2> QED
    BY <1>1, <1>2, <2>1, SetInduction
<1>4. Only(W)
  OBVIOUS
<1>5. Len(W) \in G
  <2> HIDE DEF G
  <2> QED
    BY <1>3
<1> HIDE DEF Only
<1> QED
  BY <1>4, <1>5

\* A field under another number changes nothing, wherever it is put: the default
\* branch of decode() skips it.
LEMMA UnderInsert ==
  ASSUME NEW f, NEW S, NEW s \in Seq(S), NEW x \in S, NEW i \in 1..(Len(s) + 1), x.no # f.no
  PROVE  Under(f, InsertAt(s, i, x)) = Under(f, s)
<1> DEFINE p == SubSeq(s, 1, i - 1)
           q == SubSeq(s, i, Len(s))
           o == <<x>>
           r == p \o o
<1>1. p \in Seq(S) /\ q \in Seq(S) /\ o \in Seq(S) /\ r \in Seq(S)
  OBVIOUS
<1>2. s = p \o q
  <2>1. /\ Len(p) = i - 1 /\ \A k \in 1..(i - 1) : p[k] = s[k]
        /\ Len(q) = Len(s) - (i - 1) /\ \A k \in 1..(Len(s) - (i - 1)) : q[k] = s[k + (i - 1)]
    OBVIOUS
  <2> HIDE DEF p, q, o, r
  <2>2. Len(p \o q) = Len(s)
    BY <1>1, <2>1
  <2>3. ASSUME NEW k \in 1..Len(s) PROVE (p \o q)[k] = s[k]
    <3>1. \A m \in 1..(Len(p) + Len(q)) : (p \o q)[m] = IF m <= Len(p) THEN p[m] ELSE q[m - Len(p)]
      BY <1>1, ConcatProperties
    <3>2. (p \o q)[k] = IF k <= i - 1 THEN p[k] ELSE q[k - (i - 1)]
      BY <2>1, <3>1
    <3>3. CASE k <= i - 1
      BY <2>1, <3>2, <3>3
    <3>4. CASE ~(k <= i - 1)
      <4>1. k - (i - 1) \in 1..(Len(s) - (i - 1))
        BY <3>4
      <4>2. q[k - (i - 1)] = s[(k - (i - 1)) + (i - 1)] /\ (k - (i - 1)) + (i - 1) = k
        BY <2>1, <4>1
      <4> QED
        BY <3>2, <3>4, <4>2
    <3> QED
      BY <3>3, <3>4
  <2>4. p \o q \in Seq(S)
    BY <1>1
  <2> QED
    BY <2>2, <2>3, <2>4, SeqEqual
<1>3. Len(o) = 1 /\ o[1] = x
  OBVIOUS
<1>4. InsertAt(s, i, x) = r \o q
  BY DEF InsertAt
<1>5. r = p \o o
  OBVIOUS
<1> HIDE DEF p, q, o, r
<1>6. Under(f, o) = << >>
  BY <1>1, <1>3, UnderNone
<1>7. Under(f, p) \in Seq(S)
  BY <1>1, UnderType
<1>8. Under(f, r) = Under(f, p) \o Under(f, o)
  BY <1>1, <1>5, UnderConcat
<1>9. Under(f, r) = Under(f, p)
  BY <1>6, <1>7, <1>8
<1>10. Under(f, r \o q) = Under(f, r) \o Under(f, q)
  BY <1>1, UnderConcat
<1>11. Under(f, p \o q) = Under(f, p) \o Under(f, q)
  BY <1>1, UnderConcat
<1> QED
  BY <1>2, <1>4, <1>9, <1>10, <1>11
Types == DOMAIN Schema
\* The objects that decode() gives back as they were: every property is a field, a
\* repeated one is there, a list of one value if it is not repeated.
Listed(f, list) ==
  /\ Len(list) \in Nat /\ list = [k \in 1..Len(list) |-> list[k]]
  /\ Repeated(f) \/ Len(list) = 1
  /\ \A k \in 1..Len(list) : list[k] = [leaf |-> list[k].leaf, obj |-> list[k].obj]
  /\ Embedded(f) \/ \A k \in 1..Len(list) : list[k].obj = None
Shaped(type, o) ==
  /\ type \in Types
  /\ o = [name \in DOMAIN o |-> o[name]]
  /\ DOMAIN o \subseteq Names(type)
  /\ \A f \in FieldsOf(type) :
       IF f.name \in DOMAIN o THEN Listed(f, o[f.name]) ELSE ~Repeated(f)

\* The messages embedded in an object, with their types.
Within(f, list) == {<<f.type, list[k].obj>> : k \in 1..Len(list)}
Inside(type, o) ==
  UNION {Within(f, o[f.name]) : f \in {g \in FieldsOf(type) : Embedded(g) /\ g.name \in DOMAIN o}}

Exact0(type, o) == FALSE
Exact1(type, o) == Shaped(type, o) /\ \A p \in Inside(type, o) : Exact0(p[1], p[2])
Exact2(type, o) == Shaped(type, o) /\ \A p \in Inside(type, o) : Exact1(p[1], p[2])
Exact3(type, o) == Shaped(type, o) /\ \A p \in Inside(type, o) : Exact2(p[1], p[2])
Exact4(type, o) == Shaped(type, o) /\ \A p \in Inside(type, o) : Exact3(p[1], p[2])
Exact5(type, o) == Shaped(type, o) /\ \A p \in Inside(type, o) : Exact4(p[1], p[2])
Exact(type, o)  == Shaped(type, o) /\ \A p \in Inside(type, o) : Exact5(p[1], p[2])

\* What the four kinds of fields are.
LEMMA FieldParts ==
  /\ \A no, name : /\ One(no, name).no = no /\ One(no, name).name = name
                   /\ ~Repeated(One(no, name)) /\ ~Embedded(One(no, name))
                   /\ Many(no, name).no = no /\ Many(no, name).name = name
                   /\ Repeated(Many(no, name)) /\ ~Embedded(Many(no, name))
  /\ \A no, name, type :
       type # "leaf" =>
         /\ Sub(no, name, type).no = no /\ Sub(no, name, type).name = name
         /\ ~Repeated(Sub(no, name, type)) /\ Embedded(Sub(no, name, type))
         /\ Sub(no, name, type).type = type
         /\ Subs(no, name, type).no = no /\ Subs(no, name, type).name = name
         /\ Repeated(Subs(no, name, type)) /\ Embedded(Subs(no, name, type))
         /\ Subs(no, name, type).type = type
BY DEF One, Many, Sub, Subs, Repeated, Embedded

\* The message types and their fields.
LEMMA HelloFields ==
  /\ "Hello" \in Types
  /\ Fields("Hello") = <<One(1, "version"), One(2, "peerId")>>
  /\ FieldsOf("Hello") = {One(1, "version"), One(2, "peerId")}
<1>1. "Hello" \in Types /\ Fields("Hello") = Hello.fields
  BY DEF Types, Schema, Fields
<1>2. Hello.fields = <<One(1, "version"), One(2, "peerId")>>
  BY DEF Hello, Codec, Choice
<1> QED
  BY <1>1, <1>2 DEF FieldsOf, Range

LEMMA ShakeFields ==
  /\ "Shake" \in Types
  /\ Fields("Shake") = <<One(1, "isDuplicate")>>
  /\ FieldsOf("Shake") = {One(1, "isDuplicate")}
<1>1. "Shake" \in Types /\ Fields("Shake") = Shake.fields
  BY DEF Types, Schema, Fields
<1>2. Shake.fields = <<One(1, "isDuplicate")>>
  BY DEF Shake, Codec, Choice
<1> QED
  BY <1>1, <1>2 DEF FieldsOf, Range

LEMMA LinkFields ==
  /\ "Link" \in Types
  /\ Fields("Link") = <<Sub(1, "tbs", "LinkTBS"), One(2, "signature")>>
  /\ FieldsOf("Link") = {Sub(1, "tbs", "LinkTBS"), One(2, "signature")}
<1>1. "Link" \in Types /\ Fields("Link") = Link.fields
  BY DEF Types, Schema, Fields
<1>2. Link.fields = <<Sub(1, "tbs", "LinkTBS"), One(2, "signature")>>
  BY DEF Link, Codec, Choice
<1> QED
  BY <1>1, <1>2 DEF FieldsOf, Range

LEMMA LinkTBSFields ==
  /\ "LinkTBS" \in Types
  /\ Fields("LinkTBS") = <<One(1, "trusteePubKey"), One(2, "trusteeDisplayName"),
                           One(3, "validFrom"), One(4, "validTo"), One(5, "channelId")>>
  /\ FieldsOf("LinkTBS") = {One(1, "trusteePubKey"), One(2, "trusteeDisplayName"),
                            One(3, "validFrom"), One(4, "validTo"), One(5, "channelId")}
<1>1. "LinkTBS" \in Types /\ Fields("LinkTBS") = LinkTBS.fields
  BY DEF Types, Schema, Fields
<1>2. LinkTBS.fields = <<One(1, "trusteePubKey"), One(2, "trusteeDisplayName"),
                         One(3, "validFrom"), One(4, "validTo"), One(5, "channelId")>>
  BY DEF LinkTBS, Codec, Choice
<1> QED
  BY <1>1, <1>2 DEF FieldsOf, Range

LEMMA InviteFields ==
  /\ "Invite" \in Types
  /\ Fields("Invite") = <<One(1, "channelPubKey"), One(2, "channelName"), Subs(3, "chain", "Link")>>
  /\ FieldsOf("Invite") = {One(1, "channelPubKey"), One(2, "channelName"), Subs(3, "chain", "Link")}
<1>1. "Invite" \in Types /\ Fields("Invite") = Invite.fields
  BY DEF Types, Schema, Fields
<1>2. Invite.fields = <<One(1, "channelPubKey"), One(2, "channelName"), Subs(3, "chain", "Link")>>
  BY DEF Invite, Codec, Choice
<1> QED
  BY <1>1, <1>2 DEF FieldsOf, Range

LEMMA EncryptedInviteFields ==
  /\ "EncryptedInvite" \in Types
  /\ Fields("EncryptedInvite") = <<One(1, "requestId"), One(2, "box")>>
  /\ FieldsOf("EncryptedInvite") = {One(1, "requestId"), One(2, "box")}
<1>1. "EncryptedInvite" \in Types /\ Fields("EncryptedInvite") = EncryptedInvite.fields
  BY DEF Types, Schema, Fields
<1>2. EncryptedInvite.fields = <<One(1, "requestId"), One(2, "box")>>
  BY DEF EncryptedInvite, Codec, Choice
<1> QED
  BY <1>1, <1>2 DEF FieldsOf, Range

LEMMA InviteRequestFields ==
  /\ "InviteRequest" \in Types
  /\ Fields("InviteRequest") = <<One(1, "peerId"), One(2, "trusteePubKey"), One(3, "boxPubKey")>>
  /\ FieldsOf("InviteRequest") = {One(1, "peerId"), One(2, "trusteePubKey"), One(3, "boxPubKey")}
<1>1. "InviteRequest" \in Types /\ Fields("InviteRequest") = InviteRequest.fields
  BY DEF Types, Schema, Fields
<1>2. InviteRequest.fields = <<One(1, "peerId"), One(2, "trusteePubKey"), One(3, "boxPubKey")>>
  BY DEF InviteRequest, Codec, Choice
<1> QED
  BY <1>1, <1>2 DEF FieldsOf, Range

LEMMA ChannelMessageFields ==
  /\ "ChannelMessage" \in Types
  /\ Fields("ChannelMessage") = <<Sub(1, "tbs", "MessageTBS"), One(2, "signature")>>
  /\ FieldsOf("ChannelMessage") = {Sub(1, "tbs", "MessageTBS"), One(2, "signature")}
<1>1. "ChannelMessage" \in Types /\ Fields("ChannelMessage") = ChannelMessage.fields
  BY DEF Types, Schema, Fields
<1>2. ChannelMessage.fields = <<Sub(1, "tbs", "MessageTBS"), One(2, "signature")>>
  BY DEF ChannelMessage, Codec, Choice
<1> QED
  BY <1>1, <1>2 DEF FieldsOf, Range

LEMMA RootFields ==
  /\ "Root" \in Types
  /\ Fields("Root") = <<>>
  /\ FieldsOf("Root") = {}
<1>1. "Root" \in Types /\ Fields("Root") = Root.fields
  BY DEF Types, Schema, Fields
<1>2. Root.fields = <<>>
  BY DEF Root, Codec, Choice
<1> QED
  BY <1>1, <1>2 DEF FieldsOf, Range

LEMMA BodyFields ==
  /\ "Body" \in Types
  /\ Fields("Body") = <<Sub(1, "root", "Root"), One(2, "json")>>
  /\ FieldsOf("Body") = {Sub(1, "root", "Root"), One(2, "json")}
<1>1. "Body" \in Types /\ Fields("Body") = Body.fields
  BY DEF Types, Schema, Fields
<1>2. Body.fields = <<Sub(1, "root", "Root"), One(2, "json")>>
  BY DEF Body, Codec, Choice
<1> QED
  BY <1>1, <1>2 DEF FieldsOf, Range

LEMMA MessageTBSFields ==
  /\ "MessageTBS" \in Types
  /\ Fields("MessageTBS") = <<Many(1, "parents"), One(2, "height"), Subs(3, "chain", "Link"),
                              One(4, "timestamp"), Sub(5, "body", "Body")>>
  /\ FieldsOf("MessageTBS") = {Many(1, "parents"), One(2, "height"), Subs(3, "chain", "Link"),
                               One(4, "timestamp"), Sub(5, "body", "Body")}
<1>1. "MessageTBS" \in Types /\ Fields("MessageTBS") = MessageTBS.fields
  BY DEF Types, Schema, Fields
<1>2. MessageTBS.fields = <<Many(1, "parents"), One(2, "height"), Subs(3, "chain", "Link"),
                            One(4, "timestamp"), Sub(5, "body", "Body")>>
  BY DEF MessageTBS, Codec, Choice
<1> QED
  BY <1>1, <1>2 DEF FieldsOf, Range

LEMMA QueryFields ==
  /\ "Query" \in Types
  /\ Fields("Query") = <<One(1, "height"), One(2, "hash"), One(3, "isBackward"), One(4, "limit")>>
  /\ FieldsOf("Query") = {One(1, "height"), One(2, "hash"), One(3, "isBackward"), One(4, "limit")}
<1>1. "Query" \in Types /\ Fields("Query") = Query.fields
  BY DEF Types, Schema, Fields
<1>2. Query.fields = <<One(1, "height"), One(2, "hash"), One(3, "isBackward"), One(4, "limit")>>
  BY DEF Query, Codec, Choice
<1> QED
  BY <1>1, <1>2 DEF FieldsOf, Range

LEMMA QueryResponseFields ==
  /\ "QueryResponse" \in Types
  /\ Fields("QueryResponse") = <<Subs(1, "abbreviatedMessages", "Abbreviated"),
                                 One(2, "forwardHash"), One(3, "backwardHash")>>
  /\ FieldsOf("QueryResponse") = {Subs(1, "abbreviatedMessages", "Abbreviated"),
                                  One(2, "forwardHash"), One(3, "backwardHash")}
<1>1. "QueryResponse" \in Types /\ Fields("QueryResponse") = QueryResponse.fields
  BY DEF Types, Schema, Fields
<1>2. QueryResponse.fields = <<Subs(1, "abbreviatedMessages", "Abbreviated"),
                               One(2, "forwardHash"), One(3, "backwardHash")>>
  BY DEF QueryResponse, Codec, Choice
<1> QED
  BY <1>1, <1>2 DEF FieldsOf, Range

LEMMA AbbreviatedFields ==
  /\ "Abbreviated" \in Types
  /\ Fields("Abbreviated") = <<Many(1, "parents"), One(2, "hash")>>
  /\ FieldsOf("Abbreviated") = {Many(1, "parents"), One(2, "hash")}
<1>1. "Abbreviated" \in Types /\ Fields("Abbreviated") = Abbreviated.fields
  BY DEF Types, Schema, Fields
<1>2. Abbreviated.fields = <<Many(1, "parents"), One(2, "hash")>>
  BY DEF Abbreviated, Codec, Choice
<1> QED
  BY <1>1, <1>2 DEF FieldsOf, Range

LEMMA BulkFields ==
  /\ "Bulk" \in Types
  /\ Fields("Bulk") = <<Many(1, "hashes")>>
  /\ FieldsOf("Bulk") = {Many(1, "hashes")}
<1>1. "Bulk" \in Types /\ Fields("Bulk") = Bulk.fields
  BY DEF Types, Schema, Fields
<1>2. Bulk.fields = <<Many(1, "hashes")>>
  BY DEF Bulk, Codec, Choice
<1> QED
  BY <1>1, <1>2 DEF FieldsOf, Range

LEMMA BulkResponseFields ==
  /\ "BulkResponse" \in Types
  /\ Fields("BulkResponse") = <<Subs(1, "messages", "ChannelMessage"), One(2, "forwardIndex")>>
  /\ FieldsOf("BulkResponse") = {Subs(1, "messages", "ChannelMessage"), One(2, "forwardIndex")}
<1>1. "BulkResponse" \in Types /\ Fields("BulkResponse") = BulkResponse.fields
  BY DEF Types, Schema, Fields
<1>2. BulkResponse.fields = <<Subs(1, "messages", "ChannelMessage"), One(2, "forwardIndex")>>
  BY DEF BulkResponse, Codec, Choice
<1> QED
  BY <1>1, <1>2 DEF FieldsOf, Range

LEMMA SyncRequestFields ==
  /\ "SyncRequest" \in Types
  /\ Fields("SyncRequest") = <<One(1, "channelId"), One(2, "seq"), One(3, "nonce"), One(4, "box")>>
  /\ FieldsOf("SyncRequest") = {One(1, "channelId"), One(2, "seq"), One(3, "nonce"), One(4, "box")}
<1>1. "SyncRequest" \in Types /\ Fields("SyncRequest") = SyncRequest.fields
  BY DEF Types, Schema, Fields
<1>2. SyncRequest.fields = <<One(1, "channelId"), One(2, "seq"), One(3, "nonce"), One(4, "box")>>
  BY DEF SyncRequest, Codec, Choice
<1> QED
  BY <1>1, <1>2 DEF FieldsOf, Range

LEMMA RequestTBSFields ==
  /\ "RequestTBS" \in Types
  /\ Fields("RequestTBS") = <<Subs(1, "chain", "Link"), Sub(2, "query", "Query"),
                              Sub(3, "bulk", "Bulk"), One(4, "responsePubKey")>>
  /\ FieldsOf("RequestTBS") = {Subs(1, "chain", "Link"), Sub(2, "query", "Query"),
                               Sub(3, "bulk", "Bulk"), One(4, "responsePubKey")}
<1>1. "RequestTBS" \in Types /\ Fields("RequestTBS") = RequestTBS.fields
  BY DEF Types, Schema, Fields
<1>2. RequestTBS.fields = <<Subs(1, "chain", "Link"), Sub(2, "query", "Query"),
                            Sub(3, "bulk", "Bulk"), One(4, "responsePubKey")>>
  BY DEF RequestTBS, Codec, Choice
<1> QED
  BY <1>1, <1>2 DEF FieldsOf, Range

LEMMA RequestContentFields ==
  /\ "RequestContent" \in Types
  /\ Fields("RequestContent") = <<Sub(1, "tbs", "RequestTBS"), One(2, "signature")>>
  /\ FieldsOf("RequestContent") = {Sub(1, "tbs", "RequestTBS"), One(2, "signature")}
<1>1. "RequestContent" \in Types /\ Fields("RequestContent") = RequestContent.fields
  BY DEF Types, Schema, Fields
<1>2. RequestContent.fields = <<Sub(1, "tbs", "RequestTBS"), One(2, "signature")>>
  BY DEF RequestContent, Codec, Choice
<1> QED
  BY <1>1, <1>2 DEF FieldsOf, Range

LEMMA SyncResponseFields ==
  /\ "SyncResponse" \in Types
  /\ Fields("SyncResponse") = <<One(1, "channelId"), One(2, "seq"), One(3, "box")>>
  /\ FieldsOf("SyncResponse") = {One(1, "channelId"), One(2, "seq"), One(3, "box")}
<1>1. "SyncResponse" \in Types /\ Fields("SyncResponse") = SyncResponse.fields
  BY DEF Types, Schema, Fields
<1>2. SyncResponse.fields = <<One(1, "channelId"), One(2, "seq"), One(3, "box")>>
  BY DEF SyncResponse, Codec, Choice
<1> QED
  BY <1>1, <1>2 DEF FieldsOf, Range

LEMMA ResponseContentFields ==
  /\ "ResponseContent" \in Types
  /\ Fields("ResponseContent") = <<Sub(1, "queryResponse", "QueryResponse"),
                                   Sub(2, "bulkResponse", "BulkResponse")>>
  /\ FieldsOf("ResponseContent") = {Sub(1, "queryResponse", "QueryResponse"),
                                    Sub(2, "bulkResponse", "BulkResponse")}
<1>1. "ResponseContent" \in Types /\ Fields("ResponseContent") = ResponseContent.fields
  BY DEF Types, Schema, Fields
<1>2. ResponseContent.fields = <<Sub(1, "queryResponse", "QueryResponse"),
                                 Sub(2, "bulkResponse", "BulkResponse")>>
  BY DEF ResponseContent, Codec, Choice
<1> QED
  BY <1>1, <1>2 DEF FieldsOf, Range

LEMMA ErrorFields ==
  /\ "Error" \in Types
  /\ Fields("Error") = <<One(1, "reason")>>
  /\ FieldsOf("Error") = {One(1, "reason")}
<1>1. "Error" \in Types /\ Fields("Error") = Error.fields
  BY DEF Types, Schema, Fields
<1>2. Error.fields = <<One(1, "reason")>>
  BY DEF Error, Codec, Choice
<1> QED
  BY <1>1, <1>2 DEF FieldsOf, Range

LEMMA NotificationFields ==
  /\ "Notification" \in Types
  /\ Fields("Notification") = <<One(1, "channelId")>>
  /\ FieldsOf("Notification") = {One(1, "channelId")}
<1>1. "Notification" \in Types /\ Fields("Notification") = Notification.fields
  BY DEF Types, Schema, Fields
<1>2. Notification.fields = <<One(1, "channelId")>>
  BY DEF Notification, Codec, Choice
<1> QED
  BY <1>1, <1>2 DEF FieldsOf, Range

LEMMA PingFields ==
  /\ "Ping" \in Types
  /\ Fields("Ping") = <<One(1, "seq")>>
  /\ FieldsOf("Ping") = {One(1, "seq")}
<1>1. "Ping" \in Types /\ Fields("Ping") = Ping.fields
  BY DEF Types, Schema, Fields
<1>2. Ping.fields = <<One(1, "seq")>>
  BY DEF Ping, Codec, Choice
<1> QED
  BY <1>1, <1>2 DEF FieldsOf, Range

LEMMA PongFields ==
  /\ "Pong" \in Types
  /\ Fields("Pong") = <<One(1, "seq")>>
  /\ FieldsOf("Pong") = {One(1, "seq")}
<1>1. "Pong" \in Types /\ Fields("Pong") = Pong.fields
  BY DEF Types, Schema, Fields
<1>2. Pong.fields = <<One(1, "seq")>>
  BY DEF Pong, Codec, Choice
<1> QED
  BY <1>1, <1>2 DEF FieldsOf, Range

LEMMA PacketFields ==
  /\ "Packet" \in Types
  /\ Fields("Packet") = <<Sub(1, "error", "Error"), Sub(2, "invite", "EncryptedInvite"),
                          Sub(3, "syncRequest", "SyncRequest"),
                          Sub(4, "syncResponse", "SyncResponse"),
                          Sub(5, "notification", "Notification"), Sub(6, "ping", "Ping"),
                          Sub(7, "pong", "Pong")>>
  /\ FieldsOf("Packet") = {Sub(1, "error", "Error"), Sub(2, "invite", "EncryptedInvite"),
                           Sub(3, "syncRequest", "SyncRequest"),
                           Sub(4, "syncResponse", "SyncResponse"),
                           Sub(5, "notification", "Notification"), Sub(6, "ping", "Ping"),
                           Sub(7, "pong", "Pong")}
<1>1. "Packet" \in Types /\ Fields("Packet") = Packet.fields
  BY DEF Types, Schema, Fields
<1>2. Packet.fields = <<Sub(1, "error", "Error"), Sub(2, "invite", "EncryptedInvite"),
                        Sub(3, "syncRequest", "SyncRequest"),
                        Sub(4, "syncResponse", "SyncResponse"),
                        Sub(5, "notification", "Notification"), Sub(6, "ping", "Ping"),
                        Sub(7, "pong", "Pong")>>
  BY DEF Packet, Codec, Choice
<1> QED
  BY <1>1, <1>2 DEF FieldsOf, Range

LEMMA IdentityFields ==
  /\ "Identity" \in Types
  /\ Fields("Identity") = <<One(1, "name"), One(2, "publicKey"), One(3, "secretKey"),
                            Subs(4, "channelChains", "ChannelChain"), One(5, "metadata")>>
  /\ FieldsOf("Identity") = {One(1, "name"), One(2, "publicKey"), One(3, "secretKey"),
                             Subs(4, "channelChains", "ChannelChain"), One(5, "metadata")}
<1>1. "Identity" \in Types /\ Fields("Identity") = Identity.fields
  BY DEF Types, Schema, Fields
<1>2. Identity.fields = <<One(1, "name"), One(2, "publicKey"), One(3, "secretKey"),
                          Subs(4, "channelChains", "ChannelChain"), One(5, "metadata")>>
  BY DEF Identity, Codec, Choice
<1> QED
  BY <1>1, <1>2 DEF FieldsOf, Range

LEMMA ChannelChainFields ==
  /\ "ChannelChain" \in Types
  /\ Fields("ChannelChain") = <<One(1, "channelId"), Subs(2, "links", "Link")>>
  /\ FieldsOf("ChannelChain") = {One(1, "channelId"), Subs(2, "links", "Link")}
<1>1. "ChannelChain" \in Types /\ Fields("ChannelChain") = ChannelChain.fields
  BY DEF Types, Schema, Fields
<1>2. ChannelChain.fields = <<One(1, "channelId"), Subs(2, "links", "Link")>>
  BY DEF ChannelChain, Codec, Choice
<1> QED
  BY <1>1, <1>2 DEF FieldsOf, Range

LEMMA ChannelFields ==
  /\ "Channel" \in Types
  /\ Fields("Channel") = <<One(1, "publicKey"), One(2, "name"), One(3, "isFeed"), One(4, "metadata")>>
  /\ FieldsOf("Channel") = {One(1, "publicKey"), One(2, "name"), One(3, "isFeed"), One(4, "metadata")}
<1>1. "Channel" \in Types /\ Fields("Channel") = Channel.fields
  BY DEF Types, Schema, Fields
<1>2. Channel.fields = <<One(1, "publicKey"), One(2, "name"), One(3, "isFeed"), One(4, "metadata")>>
  BY DEF Channel, Codec, Choice
<1> QED
  BY <1>1, <1>2 DEF FieldsOf, Range

Distinct(fields) ==
  /\ Len(fields) \in Nat /\ DOMAIN fields = 1..Len(fields)
  /\ \A i \in DOMAIN fields : fields[i].no = i /\ i < 15
  /\ \A i, j \in DOMAIN fields : fields[i].name = fields[j].name => i = j

\* Fields that are numbered one after the other and have different names.
LEMMA Distinct0 == Distinct(<< >>)
BY DEF Distinct

LEMMA Distinct1 ==
  ASSUME NEW a,
         a.no = 1
  PROVE  Distinct(<<a>>)
BY DEF Distinct

LEMMA Distinct2 ==
  ASSUME NEW a, NEW b,
         a.no = 1, b.no = 2,
         a.name \notin {b.name}
  PROVE  Distinct(<<a, b>>)
BY DEF Distinct

LEMMA Distinct3 ==
  ASSUME NEW a, NEW b, NEW c,
         a.no = 1, b.no = 2, c.no = 3,
         a.name \notin {b.name, c.name},
         b.name \notin {c.name}
  PROVE  Distinct(<<a, b, c>>)
BY DEF Distinct

LEMMA Distinct4 ==
  ASSUME NEW a, NEW b, NEW c, NEW d,
         a.no = 1, b.no = 2, c.no = 3, d.no = 4,
         a.name \notin {b.name, c.name, d.name},
         b.name \notin {c.name, d.name},
         c.name \notin {d.name}
  PROVE  Distinct(<<a, b, c, d>>)
BY DEF Distinct

LEMMA Distinct5 ==
  ASSUME NEW a, NEW b, NEW c, NEW d, NEW e,
         a.no = 1, b.no = 2, c.no = 3, d.no = 4, e.no = 5,
         a.name \notin {b.name, c.name, d.name, e.name},
         b.name \notin {c.name, d.name, e.name},
         c.name \notin {d.name, e.name},
         d.name \notin {e.name}
  PROVE  Distinct(<<a, b, c, d, e>>)
BY DEF Distinct

LEMMA Distinct7 ==
  ASSUME NEW a, NEW b, NEW c, NEW d, NEW e, NEW f, NEW g,
         a.no = 1, b.no = 2, c.no = 3, d.no = 4, e.no = 5, f.no = 6, g.no = 7,
         a.name \notin {b.name, c.name, d.name, e.name, f.name, g.name},
         b.name \notin {c.name, d.name, e.name, f.name, g.name},
         c.name \notin {d.name, e.name, f.name, g.name},
         d.name \notin {e.name, f.name, g.name},
         e.name \notin {f.name, g.name},
         f.name \notin {g.name}
  PROVE  Distinct(<<a, b, c, d, e, f, g>>)
BY DEF Distinct

\* The numbers and names in messages.proto are distinct, and below 15.
LEMMA Numbered == ASSUME NEW type \in Types PROVE Distinct(Fields(type))
<1>1. Distinct(Fields("Hello"))
  BY HelloFields, FieldParts, Distinct2
<1>2. Distinct(Fields("Shake"))
  BY ShakeFields, FieldParts, Distinct1
<1>3. Distinct(Fields("Link"))
  BY LinkFields, FieldParts, Distinct2
<1>4. Distinct(Fields("LinkTBS"))
  BY LinkTBSFields, FieldParts, Distinct5
<1>5. Distinct(Fields("Invite"))
  BY InviteFields, FieldParts, Distinct3
<1>6. Distinct(Fields("EncryptedInvite"))
  BY EncryptedInviteFields, FieldParts, Distinct2
<1>7. Distinct(Fields("InviteRequest"))
  BY InviteRequestFields, FieldParts, Distinct3
<1>8. Distinct(Fields("ChannelMessage"))
  BY ChannelMessageFields, FieldParts, Distinct2
<1>9. Distinct(Fields("Root"))
  BY RootFields, FieldParts, Distinct0
<1>10. Distinct(Fields("Body"))
  BY BodyFields, FieldParts, Distinct2
<1>11. Distinct(Fields("MessageTBS"))
  BY MessageTBSFields, FieldParts, Distinct5
<1>12. Distinct(Fields("Query"))
  BY QueryFields, FieldParts, Distinct4
<1>13. Distinct(Fields("QueryResponse"))
  BY QueryResponseFields, FieldParts, Distinct3
<1>14. Distinct(Fields("Abbreviated"))
  BY AbbreviatedFields, FieldParts, Distinct2
<1>15. Distinct(Fields("Bulk"))
  BY BulkFields, FieldParts, Distinct1
<1>16. Distinct(Fields("BulkResponse"))
  BY BulkResponseFields, FieldParts, Distinct2
<1>17. Distinct(Fields("SyncRequest"))
  BY SyncRequestFields, FieldParts, Distinct4
<1>18. Distinct(Fields("RequestTBS"))
  BY RequestTBSFields, FieldParts, Distinct4
<1>19. Distinct(Fields("RequestContent"))
  BY RequestContentFields, FieldParts, Distinct2
<1>20. Distinct(Fields("SyncResponse"))
  BY SyncResponseFields, FieldParts, Distinct3
<1>21. Distinct(Fields("ResponseContent"))
  BY ResponseContentFields, FieldParts, Distinct2
<1>22. Distinct(Fields("Error"))
  BY ErrorFields, FieldParts, Distinct1
<1>23. Distinct(Fields("Notification"))
  BY NotificationFields, FieldParts, Distinct1
<1>24. Distinct(Fields("Ping"))
  BY PingFields, FieldParts, Distinct1
<1>25. Distinct(Fields("Pong"))
  BY PongFields, FieldParts, Distinct1
<1>26. Distinct(Fields("Packet"))
  BY PacketFields, FieldParts, Distinct7
<1>27. Distinct(Fields("Identity"))
  BY IdentityFields, FieldParts, Distinct5
<1>28. Distinct(Fields("ChannelChain"))
  BY ChannelChainFields, FieldParts, Distinct2
<1>29. Distinct(Fields("Channel"))
  BY ChannelFields, FieldParts, Distinct4
<1>30. type \in {"Hello", "Shake", "Link", "LinkTBS", "Invite", "EncryptedInvite",
                 "InviteRequest", "ChannelMessage", "Root", "Body", "MessageTBS", "Query",
                 "QueryResponse", "Abbreviated", "Bulk", "BulkResponse", "SyncRequest",
                 "RequestTBS", "RequestContent", "SyncResponse", "ResponseContent", "Error",
                 "Notification", "Ping", "Pong", "Packet", "Identity", "ChannelChain", "Channel"}
  BY DEF Types, Schema
<1> QED
  BY <1>1, <1>2, <1>3, <1>4, <1>5, <1>6, <1>7, <1>8, <1>9, <1>10, <1>11, <1>12, <1>13, <1>14,
     <1>15, <1>16, <1>17, <1>18, <1>19, <1>20, <1>21, <1>22, <1>23, <1>24, <1>25, <1>26, <1>27,
          <1>28, <1>29, <1>30

\* What encode() writes, given the bytes e of the embedded messages.
Parts(f, e, list) ==
  [k \in 1..Len(list) |->
     [no |-> f.no, leaf |-> list[k].leaf,
      sub |-> IF Embedded(f) THEN e[<<f.type, list[k].obj>>] ELSE << >>]]
Layout(type, o, e) ==
  [i \in DOMAIN Fields(type) |->
     IF Fields(type)[i].name \in DOMAIN o
     THEN Parts(Fields(type)[i], e, o[Fields(type)[i].name]) ELSE << >>]

Came(f, b) == Assign(f, Under(f, b))
Has(type, b) == {f \in FieldsOf(type) : Repeated(f) \/ Came(f, b) # << >>}

\* The same fields under every number that the type has.
Like(type, b, c) == \A f \in FieldsOf(type) : Under(f, b) = Under(f, c)

\* A name stands for one field of a type.
LEMMA NamedIs ==
  ASSUME NEW type \in Types, NEW f \in FieldsOf(type)
  PROVE  f.name \in Names(type) /\ FieldNamed(type, f.name) = f
<1>1. f.name \in Names(type)
  BY DEF Names
<1>2. \A g \in FieldsOf(type) : g.name = f.name => g = f
  BY Numbered DEF Distinct, FieldsOf, Range
<1>3. FieldNamed(type, f.name) = f
  BY <1>2 DEF FieldNamed
<1> QED
  BY <1>1, <1>3

\* The fields of a type, by their place.
LEMMA IndexOf ==
  ASSUME NEW type, NEW f
  PROVE  f \in FieldsOf(type) <=> \E i \in DOMAIN Fields(type) : Fields(type)[i] = f
BY DEF FieldsOf, Range

Part(f, w) ==
  /\ Len(w) \in Nat /\ w = [k \in 1..Len(w) |-> w[k]]
  /\ \A k \in 1..Len(w) : w[k].no = f.no /\ DOMAIN w[k] = {"no", "leaf", "sub"}
  /\ Repeated(f) \/ Len(w) < 2

\* What encode() writes for one field is under its number.
LEMMA LayoutParts ==
  ASSUME NEW type, NEW o, Shaped(type, o), NEW e, NEW i \in DOMAIN Fields(type)
  PROVE  Part(Fields(type)[i], Layout(type, o, e)[i])
<1> DEFINE f == Fields(type)[i]
           list == o[f.name]
           w == Layout(type, o, e)[i]
<1>1. w = IF f.name \in DOMAIN o THEN Parts(f, e, list) ELSE << >>
  BY DEF Layout
<1>2. CASE f.name \notin DOMAIN o
  BY <1>1, <1>2 DEF Part
<1>3. CASE f.name \in DOMAIN o
  <2>1. Listed(f, list)
    BY <1>3, IndexOf DEF Shaped
  <2> HIDE DEF f, list
  <2>2. Len(list) \in Nat /\ (Repeated(f) \/ Len(list) < 2)
    <3>1. Len(list) = 1 => Len(list) < 2
      OBVIOUS
    <3> QED
      BY <2>1, <3>1 DEF Listed
  <2>3. /\ Len(Parts(f, e, list)) = Len(list)
        /\ Parts(f, e, list) = [k \in 1..Len(list) |-> Parts(f, e, list)[k]]
        /\ \A k \in 1..Len(list) : /\ Parts(f, e, list)[k].no = f.no
                                  /\ DOMAIN Parts(f, e, list)[k] = {"no", "leaf", "sub"}
    BY <2>2 DEF Parts
  <2> HIDE DEF w
  <2>4. Part(f, w)
    BY <1>1, <1>3, <2>2, <2>3 DEF Part
  <2> QED
    BY <2>4 DEF f, w
<1> QED
  BY <1>2, <1>3

\* A set that holds the fields written.
Atoms(W) == UNION {{W[j][k] : k \in 1..Len(W[j])} : j \in DOMAIN W}

\* All that encode() writes for an object are fields with a number, a leaf and a
\* message within.
LEMMA LayoutType ==
  ASSUME NEW type, NEW o, Shaped(type, o), NEW e
  PROVE  LET W == Layout(type, o, e)
         IN  /\ Len(W) = Len(Fields(type)) /\ DOMAIN W = 1..Len(W) /\ W \in Seq(Seq(Atoms(W)))
             /\ \A s \in Atoms(W) : DOMAIN s = {"no", "leaf", "sub"}
<1> DEFINE W == Layout(type, o, e)
           n == Len(Fields(type))
<1>1. type \in Types
  BY DEF Shaped
<1>2. DOMAIN Fields(type) = 1..n /\ n \in Nat
  BY <1>1, Numbered DEF Distinct
<1>3. W = [j \in 1..n |-> W[j]] /\ DOMAIN W = 1..n
  BY <1>2 DEF Layout
<1>4. \A j \in 1..n : Part(Fields(type)[j], W[j])
  BY <1>2, LayoutParts
<1> HIDE DEF W, n
<1>5. ASSUME NEW j \in 1..n PROVE W[j] \in Seq(Atoms(W))
  <2> DEFINE w == W[j]
  <2>1. Len(w) \in Nat /\ w = [k \in 1..Len(w) |-> w[k]]
    BY <1>4 DEF Part
  <2>2. \A k \in 1..Len(w) : w[k] \in Atoms(W)
    BY <1>3 DEF Atoms
  <2> HIDE DEF w
  <2>3. w \in Seq(Atoms(W))
    BY <2>1, <2>2
  <2> QED
    BY <2>3 DEF w
<1>6. Len(W) = n
  BY <1>2, <1>3
<1>7. W \in Seq(Seq(Atoms(W)))
  BY <1>2, <1>3, <1>5
<1>8. \A s \in Atoms(W) : DOMAIN s = {"no", "leaf", "sub"}
  <2> SUFFICES ASSUME NEW s \in Atoms(W) PROVE DOMAIN s = {"no", "leaf", "sub"}
    OBVIOUS
  <2>1. PICK j \in DOMAIN W : s \in {W[j][k] : k \in 1..Len(W[j])}
    BY DEF Atoms
  <2>2. PICK k \in 1..Len(W[j]) : s = W[j][k]
    BY <2>1
  <2>3. Part(Fields(type)[j], W[j])
    BY <1>3, <1>4
  <2> QED
    BY <2>2, <2>3 DEF Part
<1> QED
  BY <1>3, <1>6, <1>7, <1>8 DEF W, n

\* decode() finds each list that encode() wrote.
LEMMA CameBack ==
  ASSUME NEW type, NEW o, Shaped(type, o), NEW e, NEW b, Like(type, b, FlattenSeq(Layout(type, o, e))),
         NEW i \in DOMAIN Fields(type)
  PROVE  Came(Fields(type)[i], b) = Layout(type, o, e)[i]
<1> DEFINE W == Layout(type, o, e)
           f == Fields(type)[i]
           w == W[i]
<1>1. type \in Types
  BY DEF Shaped
<1>2. /\ W \in Seq(Seq(Atoms(W))) /\ DOMAIN Fields(type) = 1..Len(W)
      /\ \A j \in 1..Len(W) : Fields(type)[j].no = j
  BY <1>1, LayoutType, Numbered DEF Distinct
<1>3. \A j \in 1..Len(W) : Part(Fields(type)[j], W[j])
  BY <1>2, LayoutParts
<1>4. AllUnder(f, W[i]) /\ \A j \in 1..Len(W) : j # i => NoneUnder(f, W[j])
  <2> HIDE DEF W
  <2> QED
    BY <1>2, <1>3 DEF Part, AllUnder, NoneUnder
<1>5. Under(f, FlattenSeq(W)) = W[i]
  <2>1. i \in 1..Len(W)
    BY <1>2
  <2> HIDE DEF W, f
  <2> QED
    BY <1>2, <1>4, <2>1, UnderFlatten
<1>6. Under(f, b) = w
  BY <1>5, IndexOf DEF Like
<1>7. Part(f, w)
  BY <1>2, <1>3
<1> HIDE DEF w, f
<1>8. ASSUME Repeated(f) \/ w = << >> PROVE Came(f, b) = w
  BY <1>6, <1>8 DEF Assign, Came
<1>9. ASSUME ~Repeated(f) /\ w # << >> PROVE Came(f, b) = w
  <2>1. Len(w) \in Nat /\ w = [k \in 1..Len(w) |-> w[k]] /\ Len(w) < 2
    BY <1>7, <1>9 DEF Part
  <2>2. Len(w) = 1
    <3>1. Len(w) = 0 => w = << >>
      BY <2>1
    <3> QED
      BY <1>9, <2>1, <3>1
  <2>3. w = <<w[1]>>
    BY <2>1, <2>2
  <2> QED
    BY <1>6, <1>9, <2>2, <2>3 DEF Assign, Came
<1>10. Came(f, b) = w
  BY <1>8, <1>9
<1> QED
  BY <1>10 DEF f, w

\* So it gives the object the properties it had, each from the list written for it.
Found(type, o, e, b, name) ==
  LET f == FieldNamed(type, name)
  IN  /\ f \in FieldsOf(type) /\ f.name = name /\ Listed(f, o[name])
      /\ Came(f, b) = Parts(f, e, o[name])
\* decode() gives the object the properties that it had.
LEMMA HadBack ==
  ASSUME NEW type, NEW o, Shaped(type, o), NEW e, NEW b, Like(type, b, FlattenSeq(Layout(type, o, e)))
  PROVE  /\ {f.name : f \in Has(type, b)} = DOMAIN o
         /\ \A name \in DOMAIN o : Found(type, o, e, b, name)
<1>1. type \in Types
  BY DEF Shaped
<1>2. ASSUME NEW f \in FieldsOf(type)
      PROVE  /\ f.name \in DOMAIN o => Listed(f, o[f.name]) /\ Came(f, b) = Parts(f, e, o[f.name])
             /\ f.name \notin DOMAIN o => ~Repeated(f) /\ Came(f, b) = << >>
  <2>1. PICK i \in DOMAIN Fields(type) : Fields(type)[i] = f
    BY IndexOf
  <2>2. Came(f, b) = Layout(type, o, e)[i]
    BY <2>1, CameBack
  <2> QED
    BY <2>1, <2>2 DEF Layout, Shaped
<1>3. ASSUME NEW f \in FieldsOf(type) PROVE f \in Has(type, b) <=> f.name \in DOMAIN o
  <2>1. CASE f.name \notin DOMAIN o
    BY <1>2, <2>1 DEF Has
  <2>2. CASE f.name \in DOMAIN o
    <3> DEFINE list == o[f.name]
    <3>1. Repeated(f) \/ Len(list) = 1
      BY <1>2, <2>2 DEF Listed
    <3>2. Len(list) = 1 => Parts(f, e, list) # << >>
      BY DEF Parts
    <3>3. Came(f, b) = Parts(f, e, list)
      BY <1>2, <2>2
    <3> HIDE DEF list
    <3> QED
      BY <2>2, <3>1, <3>2, <3>3 DEF Has
  <2> QED
    BY <2>1, <2>2
<1>4. ASSUME NEW name \in DOMAIN o
      PROVE  FieldNamed(type, name) \in FieldsOf(type) /\ FieldNamed(type, name).name = name
  <2>1. PICK f \in FieldsOf(type) : name = f.name
    BY DEF Shaped, Names
  <2> QED
    BY <1>1, <2>1, NamedIs
<1>5. {f.name : f \in Has(type, b)} = DOMAIN o
  <2>1. \A f \in Has(type, b) : f \in FieldsOf(type)
    BY DEF Has
  <2>2. \A name \in DOMAIN o : \E f \in Has(type, b) : name = f.name
    BY <1>3, <1>4
  <2>3. \A f \in Has(type, b) : f.name \in DOMAIN o
    BY <1>3, <2>1
  <2> QED
    BY <2>2, <2>3
<1> QED
  BY <1>2, <1>4, <1>5 DEF Found

\* encode() writes the layout of an object, at level 1.
LEMMA Laid1 ==
  ASSUME NEW type, NEW o, Shaped(type, o)
  PROVE  Encode1(type, o) = FlattenSeq(Layout(type, o, [p \in Inside(type, o) |-> Encode0(p[1], p[2])]))
<1> DEFINE e == [p \in Inside(type, o) |-> Encode0(p[1], p[2])]
<1>1. ASSUME NEW i \in DOMAIN Fields(type)
      PROVE  Written(Encode0, Fields(type)[i], o) = Layout(type, o, e)[i]
  <2> DEFINE f == Fields(type)[i]
             list == o[f.name]
  <2>1. CASE f.name \notin DOMAIN o
    BY <2>1 DEF Written, Layout
  <2>2. CASE f.name \in DOMAIN o
    <3>1. f \in FieldsOf(type)
      BY IndexOf
    <3>2. DOMAIN list = 1..Len(list)
      BY <2>2, <3>1 DEF Shaped, Listed
    <3>3. ASSUME Embedded(f), NEW k \in 1..Len(list)
          PROVE  e[<<f.type, list[k].obj>>] = Encode0(f.type, list[k].obj)
      <4>1. <<f.type, list[k].obj>> \in Within(f, list)
        BY DEF Within
      <4>2. Within(f, list) \subseteq Inside(type, o)
        BY <2>2, <3>1, <3>3 DEF Inside
      <4> QED
        BY <4>1, <4>2
    <3>4. Layout(type, o, e)[i] = Parts(f, e, list)
      BY <2>2 DEF Layout
    <3> HIDE DEF e, list
    <3> QED
      BY <2>2, <3>2, <3>3, <3>4 DEF Written, Parts, list
  <2> QED
    BY <2>1, <2>2
<1>2. Layout(type, o, e) = [i \in DOMAIN Fields(type) |-> Layout(type, o, e)[i]]
  BY DEF Layout
<1> HIDE DEF e
<1>3. [i \in DOMAIN Fields(type) |-> Written(Encode0, Fields(type)[i], o)] = Layout(type, o, e)
  BY <1>1, <1>2
<1> QED
  BY <1>3 DEF Encode1, EncodeBy, e

\* decode() undoes encode(), at level 1, for bytes that are the same under every number.
LEMMA DecodeInverse1 ==
  ASSUME NEW type, NEW o, Exact1(type, o), NEW b, Like(type, b, Encode1(type, o))
  PROVE  Decode1(type, b) = o
<1> DEFINE e == [p \in Inside(type, o) |-> Encode0(p[1], p[2])]
           Value(f, t) == [leaf |-> t.leaf, obj |-> IF Embedded(f) THEN Decode0(f.type, t.sub) ELSE None]
           Values(f) == [k \in DOMAIN Came(f, b) |-> Value(f, Came(f, b)[k])]
<1>1. Shaped(type, o)
  BY DEF Exact1
<1>2. Like(type, b, FlattenSeq(Layout(type, o, e)))
  BY <1>1, Laid1
<1>3. Decode1(type, b) = [name \in {f.name : f \in Has(type, b)} |-> Values(FieldNamed(type, name))]
  BY DEF Decode1, DecodeBy, Has, Came
<1>4. ASSUME NEW name \in DOMAIN o PROVE Values(FieldNamed(type, name)) = o[name]
  <2> DEFINE f == FieldNamed(type, name)
             list == o[name]
  <2>1. f \in FieldsOf(type) /\ f.name = name /\ Listed(f, list) /\ Came(f, b) = Parts(f, e, list)
    <3> HIDE DEF e
    <3>1. Found(type, o, e, b, name)
      BY <1>1, <1>2, HadBack
    <3> QED
      BY <3>1 DEF Found
  <2>2. ASSUME NEW k \in 1..Len(list) PROVE Value(f, Parts(f, e, list)[k]) = list[k]
    <3>1. list[k] = [leaf |-> list[k].leaf, obj |-> list[k].obj]
      BY <2>1 DEF Listed
    <3>2. CASE Embedded(f)
      <4> DEFINE p == <<f.type, list[k].obj>>
      <4>1. p \in Inside(type, o)
        <5>1. p \in Within(f, list)
          BY DEF Within
        <5>2. Within(f, list) \subseteq Inside(type, o)
          BY <2>1, <3>2 DEF Inside
        <5> QED
          BY <5>1, <5>2
      <4>2. e[p] = Encode0(f.type, list[k].obj)
        BY <4>1
      <4>3. Exact0(f.type, list[k].obj)
        BY <4>1 DEF Exact1
      <4>4. Decode0(f.type, Encode0(f.type, list[k].obj)) = list[k].obj
        BY <4>3 DEF Exact0
      <4> HIDE DEF list, f, e
      <4> QED
        BY <3>1, <3>2, <4>2, <4>4 DEF Parts
    <3>3. CASE ~Embedded(f)
      <4>1. list[k].obj = None
        BY <2>1, <3>3 DEF Listed
      <4> HIDE DEF list, f, e
      <4> QED
        BY <3>1, <3>3, <4>1 DEF Parts
    <3> QED
      BY <3>2, <3>3
  <2>3. list = [k \in 1..Len(list) |-> list[k]]
    BY <2>1 DEF Listed
  <2>4. DOMAIN Parts(f, e, list) = 1..Len(list)
    BY DEF Parts
  <2> HIDE DEF list, f, e, Value
  <2>5. Values(f) = [k \in 1..Len(list) |-> Value(f, Parts(f, e, list)[k])]
    BY <2>1, <2>4
  <2> HIDE DEF Values
  <2>6. Values(f) = list
    BY <2>2, <2>3, <2>5
  <2> QED
    BY <2>6 DEF f, list
<1>5. {f.name : f \in Has(type, b)} = DOMAIN o /\ o = [name \in DOMAIN o |-> o[name]]
  BY <1>1, <1>2, HadBack DEF Shaped
<1> HIDE DEF Values
<1> QED
  BY <1>3, <1>4, <1>5

\* encode() writes the layout of an object, at level 2.
LEMMA Laid2 ==
  ASSUME NEW type, NEW o, Shaped(type, o)
  PROVE  Encode2(type, o) = FlattenSeq(Layout(type, o, [p \in Inside(type, o) |-> Encode1(p[1], p[2])]))
<1> DEFINE e == [p \in Inside(type, o) |-> Encode1(p[1], p[2])]
<1>1. ASSUME NEW i \in DOMAIN Fields(type)
      PROVE  Written(Encode1, Fields(type)[i], o) = Layout(type, o, e)[i]
  <2> DEFINE f == Fields(type)[i]
             list == o[f.name]
  <2>1. CASE f.name \notin DOMAIN o
    BY <2>1 DEF Written, Layout
  <2>2. CASE f.name \in DOMAIN o
    <3>1. f \in FieldsOf(type)
      BY IndexOf
    <3>2. DOMAIN list = 1..Len(list)
      BY <2>2, <3>1 DEF Shaped, Listed
    <3>3. ASSUME Embedded(f), NEW k \in 1..Len(list)
          PROVE  e[<<f.type, list[k].obj>>] = Encode1(f.type, list[k].obj)
      <4>1. <<f.type, list[k].obj>> \in Within(f, list)
        BY DEF Within
      <4>2. Within(f, list) \subseteq Inside(type, o)
        BY <2>2, <3>1, <3>3 DEF Inside
      <4> QED
        BY <4>1, <4>2
    <3>4. Layout(type, o, e)[i] = Parts(f, e, list)
      BY <2>2 DEF Layout
    <3> HIDE DEF e, list
    <3> QED
      BY <2>2, <3>2, <3>3, <3>4 DEF Written, Parts, list
  <2> QED
    BY <2>1, <2>2
<1>2. Layout(type, o, e) = [i \in DOMAIN Fields(type) |-> Layout(type, o, e)[i]]
  BY DEF Layout
<1> HIDE DEF e
<1>3. [i \in DOMAIN Fields(type) |-> Written(Encode1, Fields(type)[i], o)] = Layout(type, o, e)
  BY <1>1, <1>2
<1> QED
  BY <1>3 DEF Encode2, EncodeBy, e

\* decode() undoes encode(), at level 2, for bytes that are the same under every number.
LEMMA DecodeInverse2 ==
  ASSUME NEW type, NEW o, Exact2(type, o), NEW b, Like(type, b, Encode2(type, o))
  PROVE  Decode2(type, b) = o
<1> DEFINE e == [p \in Inside(type, o) |-> Encode1(p[1], p[2])]
           Value(f, t) == [leaf |-> t.leaf, obj |-> IF Embedded(f) THEN Decode1(f.type, t.sub) ELSE None]
           Values(f) == [k \in DOMAIN Came(f, b) |-> Value(f, Came(f, b)[k])]
<1>1. Shaped(type, o)
  BY DEF Exact2
<1>2. Like(type, b, FlattenSeq(Layout(type, o, e)))
  BY <1>1, Laid2
<1>3. Decode2(type, b) = [name \in {f.name : f \in Has(type, b)} |-> Values(FieldNamed(type, name))]
  BY DEF Decode2, DecodeBy, Has, Came
<1>4. ASSUME NEW name \in DOMAIN o PROVE Values(FieldNamed(type, name)) = o[name]
  <2> DEFINE f == FieldNamed(type, name)
             list == o[name]
  <2>1. f \in FieldsOf(type) /\ f.name = name /\ Listed(f, list) /\ Came(f, b) = Parts(f, e, list)
    <3> HIDE DEF e
    <3>1. Found(type, o, e, b, name)
      BY <1>1, <1>2, HadBack
    <3> QED
      BY <3>1 DEF Found
  <2>2. ASSUME NEW k \in 1..Len(list) PROVE Value(f, Parts(f, e, list)[k]) = list[k]
    <3>1. list[k] = [leaf |-> list[k].leaf, obj |-> list[k].obj]
      BY <2>1 DEF Listed
    <3>2. CASE Embedded(f)
      <4> DEFINE p == <<f.type, list[k].obj>>
      <4>1. p \in Inside(type, o)
        <5>1. p \in Within(f, list)
          BY DEF Within
        <5>2. Within(f, list) \subseteq Inside(type, o)
          BY <2>1, <3>2 DEF Inside
        <5> QED
          BY <5>1, <5>2
      <4>2. e[p] = Encode1(f.type, list[k].obj)
        BY <4>1
      <4>3. Exact1(f.type, list[k].obj)
        BY <4>1 DEF Exact2
      <4>4. Decode1(f.type, Encode1(f.type, list[k].obj)) = list[k].obj
        BY <4>3, DecodeInverse1 DEF Like
      <4> HIDE DEF list, f, e
      <4> QED
        BY <3>1, <3>2, <4>2, <4>4 DEF Parts
    <3>3. CASE ~Embedded(f)
      <4>1. list[k].obj = None
        BY <2>1, <3>3 DEF Listed
      <4> HIDE DEF list, f, e
      <4> QED
        BY <3>1, <3>3, <4>1 DEF Parts
    <3> QED
      BY <3>2, <3>3
  <2>3. list = [k \in 1..Len(list) |-> list[k]]
    BY <2>1 DEF Listed
  <2>4. DOMAIN Parts(f, e, list) = 1..Len(list)
    BY DEF Parts
  <2> HIDE DEF list, f, e, Value
  <2>5. Values(f) = [k \in 1..Len(list) |-> Value(f, Parts(f, e, list)[k])]
    BY <2>1, <2>4
  <2> HIDE DEF Values
  <2>6. Values(f) = list
    BY <2>2, <2>3, <2>5
  <2> QED
    BY <2>6 DEF f, list
<1>5. {f.name : f \in Has(type, b)} = DOMAIN o /\ o = [name \in DOMAIN o |-> o[name]]
  BY <1>1, <1>2, HadBack DEF Shaped
<1> HIDE DEF Values
<1> QED
  BY <1>3, <1>4, <1>5

\* encode() writes the layout of an object, at level 3.
LEMMA Laid3 ==
  ASSUME NEW type, NEW o, Shaped(type, o)
  PROVE  Encode3(type, o) = FlattenSeq(Layout(type, o, [p \in Inside(type, o) |-> Encode2(p[1], p[2])]))
<1> DEFINE e == [p \in Inside(type, o) |-> Encode2(p[1], p[2])]
<1>1. ASSUME NEW i \in DOMAIN Fields(type)
      PROVE  Written(Encode2, Fields(type)[i], o) = Layout(type, o, e)[i]
  <2> DEFINE f == Fields(type)[i]
             list == o[f.name]
  <2>1. CASE f.name \notin DOMAIN o
    BY <2>1 DEF Written, Layout
  <2>2. CASE f.name \in DOMAIN o
    <3>1. f \in FieldsOf(type)
      BY IndexOf
    <3>2. DOMAIN list = 1..Len(list)
      BY <2>2, <3>1 DEF Shaped, Listed
    <3>3. ASSUME Embedded(f), NEW k \in 1..Len(list)
          PROVE  e[<<f.type, list[k].obj>>] = Encode2(f.type, list[k].obj)
      <4>1. <<f.type, list[k].obj>> \in Within(f, list)
        BY DEF Within
      <4>2. Within(f, list) \subseteq Inside(type, o)
        BY <2>2, <3>1, <3>3 DEF Inside
      <4> QED
        BY <4>1, <4>2
    <3>4. Layout(type, o, e)[i] = Parts(f, e, list)
      BY <2>2 DEF Layout
    <3> HIDE DEF e, list
    <3> QED
      BY <2>2, <3>2, <3>3, <3>4 DEF Written, Parts, list
  <2> QED
    BY <2>1, <2>2
<1>2. Layout(type, o, e) = [i \in DOMAIN Fields(type) |-> Layout(type, o, e)[i]]
  BY DEF Layout
<1> HIDE DEF e
<1>3. [i \in DOMAIN Fields(type) |-> Written(Encode2, Fields(type)[i], o)] = Layout(type, o, e)
  BY <1>1, <1>2
<1> QED
  BY <1>3 DEF Encode3, EncodeBy, e

\* decode() undoes encode(), at level 3, for bytes that are the same under every number.
LEMMA DecodeInverse3 ==
  ASSUME NEW type, NEW o, Exact3(type, o), NEW b, Like(type, b, Encode3(type, o))
  PROVE  Decode3(type, b) = o
<1> DEFINE e == [p \in Inside(type, o) |-> Encode2(p[1], p[2])]
           Value(f, t) == [leaf |-> t.leaf, obj |-> IF Embedded(f) THEN Decode2(f.type, t.sub) ELSE None]
           Values(f) == [k \in DOMAIN Came(f, b) |-> Value(f, Came(f, b)[k])]
<1>1. Shaped(type, o)
  BY DEF Exact3
<1>2. Like(type, b, FlattenSeq(Layout(type, o, e)))
  BY <1>1, Laid3
<1>3. Decode3(type, b) = [name \in {f.name : f \in Has(type, b)} |-> Values(FieldNamed(type, name))]
  BY DEF Decode3, DecodeBy, Has, Came
<1>4. ASSUME NEW name \in DOMAIN o PROVE Values(FieldNamed(type, name)) = o[name]
  <2> DEFINE f == FieldNamed(type, name)
             list == o[name]
  <2>1. f \in FieldsOf(type) /\ f.name = name /\ Listed(f, list) /\ Came(f, b) = Parts(f, e, list)
    <3> HIDE DEF e
    <3>1. Found(type, o, e, b, name)
      BY <1>1, <1>2, HadBack
    <3> QED
      BY <3>1 DEF Found
  <2>2. ASSUME NEW k \in 1..Len(list) PROVE Value(f, Parts(f, e, list)[k]) = list[k]
    <3>1. list[k] = [leaf |-> list[k].leaf, obj |-> list[k].obj]
      BY <2>1 DEF Listed
    <3>2. CASE Embedded(f)
      <4> DEFINE p == <<f.type, list[k].obj>>
      <4>1. p \in Inside(type, o)
        <5>1. p \in Within(f, list)
          BY DEF Within
        <5>2. Within(f, list) \subseteq Inside(type, o)
          BY <2>1, <3>2 DEF Inside
        <5> QED
          BY <5>1, <5>2
      <4>2. e[p] = Encode2(f.type, list[k].obj)
        BY <4>1
      <4>3. Exact2(f.type, list[k].obj)
        BY <4>1 DEF Exact3
      <4>4. Decode2(f.type, Encode2(f.type, list[k].obj)) = list[k].obj
        BY <4>3, DecodeInverse2 DEF Like
      <4> HIDE DEF list, f, e
      <4> QED
        BY <3>1, <3>2, <4>2, <4>4 DEF Parts
    <3>3. CASE ~Embedded(f)
      <4>1. list[k].obj = None
        BY <2>1, <3>3 DEF Listed
      <4> HIDE DEF list, f, e
      <4> QED
        BY <3>1, <3>3, <4>1 DEF Parts
    <3> QED
      BY <3>2, <3>3
  <2>3. list = [k \in 1..Len(list) |-> list[k]]
    BY <2>1 DEF Listed
  <2>4. DOMAIN Parts(f, e, list) = 1..Len(list)
    BY DEF Parts
  <2> HIDE DEF list, f, e, Value
  <2>5. Values(f) = [k \in 1..Len(list) |-> Value(f, Parts(f, e, list)[k])]
    BY <2>1, <2>4
  <2> HIDE DEF Values
  <2>6. Values(f) = list
    BY <2>2, <2>3, <2>5
  <2> QED
    BY <2>6 DEF f, list
<1>5. {f.name : f \in Has(type, b)} = DOMAIN o /\ o = [name \in DOMAIN o |-> o[name]]
  BY <1>1, <1>2, HadBack DEF Shaped
<1> HIDE DEF Values
<1> QED
  BY <1>3, <1>4, <1>5

\* encode() writes the layout of an object, at level 4.
LEMMA Laid4 ==
  ASSUME NEW type, NEW o, Shaped(type, o)
  PROVE  Encode4(type, o) = FlattenSeq(Layout(type, o, [p \in Inside(type, o) |-> Encode3(p[1], p[2])]))
<1> DEFINE e == [p \in Inside(type, o) |-> Encode3(p[1], p[2])]
<1>1. ASSUME NEW i \in DOMAIN Fields(type)
      PROVE  Written(Encode3, Fields(type)[i], o) = Layout(type, o, e)[i]
  <2> DEFINE f == Fields(type)[i]
             list == o[f.name]
  <2>1. CASE f.name \notin DOMAIN o
    BY <2>1 DEF Written, Layout
  <2>2. CASE f.name \in DOMAIN o
    <3>1. f \in FieldsOf(type)
      BY IndexOf
    <3>2. DOMAIN list = 1..Len(list)
      BY <2>2, <3>1 DEF Shaped, Listed
    <3>3. ASSUME Embedded(f), NEW k \in 1..Len(list)
          PROVE  e[<<f.type, list[k].obj>>] = Encode3(f.type, list[k].obj)
      <4>1. <<f.type, list[k].obj>> \in Within(f, list)
        BY DEF Within
      <4>2. Within(f, list) \subseteq Inside(type, o)
        BY <2>2, <3>1, <3>3 DEF Inside
      <4> QED
        BY <4>1, <4>2
    <3>4. Layout(type, o, e)[i] = Parts(f, e, list)
      BY <2>2 DEF Layout
    <3> HIDE DEF e, list
    <3> QED
      BY <2>2, <3>2, <3>3, <3>4 DEF Written, Parts, list
  <2> QED
    BY <2>1, <2>2
<1>2. Layout(type, o, e) = [i \in DOMAIN Fields(type) |-> Layout(type, o, e)[i]]
  BY DEF Layout
<1> HIDE DEF e
<1>3. [i \in DOMAIN Fields(type) |-> Written(Encode3, Fields(type)[i], o)] = Layout(type, o, e)
  BY <1>1, <1>2
<1> QED
  BY <1>3 DEF Encode4, EncodeBy, e

\* decode() undoes encode(), at level 4, for bytes that are the same under every number.
LEMMA DecodeInverse4 ==
  ASSUME NEW type, NEW o, Exact4(type, o), NEW b, Like(type, b, Encode4(type, o))
  PROVE  Decode4(type, b) = o
<1> DEFINE e == [p \in Inside(type, o) |-> Encode3(p[1], p[2])]
           Value(f, t) == [leaf |-> t.leaf, obj |-> IF Embedded(f) THEN Decode3(f.type, t.sub) ELSE None]
           Values(f) == [k \in DOMAIN Came(f, b) |-> Value(f, Came(f, b)[k])]
<1>1. Shaped(type, o)
  BY DEF Exact4
<1>2. Like(type, b, FlattenSeq(Layout(type, o, e)))
  BY <1>1, Laid4
<1>3. Decode4(type, b) = [name \in {f.name : f \in Has(type, b)} |-> Values(FieldNamed(type, name))]
  BY DEF Decode4, DecodeBy, Has, Came
<1>4. ASSUME NEW name \in DOMAIN o PROVE Values(FieldNamed(type, name)) = o[name]
  <2> DEFINE f == FieldNamed(type, name)
             list == o[name]
  <2>1. f \in FieldsOf(type) /\ f.name = name /\ Listed(f, list) /\ Came(f, b) = Parts(f, e, list)
    <3> HIDE DEF e
    <3>1. Found(type, o, e, b, name)
      BY <1>1, <1>2, HadBack
    <3> QED
      BY <3>1 DEF Found
  <2>2. ASSUME NEW k \in 1..Len(list) PROVE Value(f, Parts(f, e, list)[k]) = list[k]
    <3>1. list[k] = [leaf |-> list[k].leaf, obj |-> list[k].obj]
      BY <2>1 DEF Listed
    <3>2. CASE Embedded(f)
      <4> DEFINE p == <<f.type, list[k].obj>>
      <4>1. p \in Inside(type, o)
        <5>1. p \in Within(f, list)
          BY DEF Within
        <5>2. Within(f, list) \subseteq Inside(type, o)
          BY <2>1, <3>2 DEF Inside
        <5> QED
          BY <5>1, <5>2
      <4>2. e[p] = Encode3(f.type, list[k].obj)
        BY <4>1
      <4>3. Exact3(f.type, list[k].obj)
        BY <4>1 DEF Exact4
      <4>4. Decode3(f.type, Encode3(f.type, list[k].obj)) = list[k].obj
        BY <4>3, DecodeInverse3 DEF Like
      <4> HIDE DEF list, f, e
      <4> QED
        BY <3>1, <3>2, <4>2, <4>4 DEF Parts
    <3>3. CASE ~Embedded(f)
      <4>1. list[k].obj = None
        BY <2>1, <3>3 DEF Listed
      <4> HIDE DEF list, f, e
      <4> QED
        BY <3>1, <3>3, <4>1 DEF Parts
    <3> QED
      BY <3>2, <3>3
  <2>3. list = [k \in 1..Len(list) |-> list[k]]
    BY <2>1 DEF Listed
  <2>4. DOMAIN Parts(f, e, list) = 1..Len(list)
    BY DEF Parts
  <2> HIDE DEF list, f, e, Value
  <2>5. Values(f) = [k \in 1..Len(list) |-> Value(f, Parts(f, e, list)[k])]
    BY <2>1, <2>4
  <2> HIDE DEF Values
  <2>6. Values(f) = list
    BY <2>2, <2>3, <2>5
  <2> QED
    BY <2>6 DEF f, list
<1>5. {f.name : f \in Has(type, b)} = DOMAIN o /\ o = [name \in DOMAIN o |-> o[name]]
  BY <1>1, <1>2, HadBack DEF Shaped
<1> HIDE DEF Values
<1> QED
  BY <1>3, <1>4, <1>5

\* encode() writes the layout of an object, at level 5.
LEMMA Laid5 ==
  ASSUME NEW type, NEW o, Shaped(type, o)
  PROVE  Encode5(type, o) = FlattenSeq(Layout(type, o, [p \in Inside(type, o) |-> Encode4(p[1], p[2])]))
<1> DEFINE e == [p \in Inside(type, o) |-> Encode4(p[1], p[2])]
<1>1. ASSUME NEW i \in DOMAIN Fields(type)
      PROVE  Written(Encode4, Fields(type)[i], o) = Layout(type, o, e)[i]
  <2> DEFINE f == Fields(type)[i]
             list == o[f.name]
  <2>1. CASE f.name \notin DOMAIN o
    BY <2>1 DEF Written, Layout
  <2>2. CASE f.name \in DOMAIN o
    <3>1. f \in FieldsOf(type)
      BY IndexOf
    <3>2. DOMAIN list = 1..Len(list)
      BY <2>2, <3>1 DEF Shaped, Listed
    <3>3. ASSUME Embedded(f), NEW k \in 1..Len(list)
          PROVE  e[<<f.type, list[k].obj>>] = Encode4(f.type, list[k].obj)
      <4>1. <<f.type, list[k].obj>> \in Within(f, list)
        BY DEF Within
      <4>2. Within(f, list) \subseteq Inside(type, o)
        BY <2>2, <3>1, <3>3 DEF Inside
      <4> QED
        BY <4>1, <4>2
    <3>4. Layout(type, o, e)[i] = Parts(f, e, list)
      BY <2>2 DEF Layout
    <3> HIDE DEF e, list
    <3> QED
      BY <2>2, <3>2, <3>3, <3>4 DEF Written, Parts, list
  <2> QED
    BY <2>1, <2>2
<1>2. Layout(type, o, e) = [i \in DOMAIN Fields(type) |-> Layout(type, o, e)[i]]
  BY DEF Layout
<1> HIDE DEF e
<1>3. [i \in DOMAIN Fields(type) |-> Written(Encode4, Fields(type)[i], o)] = Layout(type, o, e)
  BY <1>1, <1>2
<1> QED
  BY <1>3 DEF Encode5, EncodeBy, e

\* decode() undoes encode(), at level 5, for bytes that are the same under every number.
LEMMA DecodeInverse5 ==
  ASSUME NEW type, NEW o, Exact5(type, o), NEW b, Like(type, b, Encode5(type, o))
  PROVE  Decode5(type, b) = o
<1> DEFINE e == [p \in Inside(type, o) |-> Encode4(p[1], p[2])]
           Value(f, t) == [leaf |-> t.leaf, obj |-> IF Embedded(f) THEN Decode4(f.type, t.sub) ELSE None]
           Values(f) == [k \in DOMAIN Came(f, b) |-> Value(f, Came(f, b)[k])]
<1>1. Shaped(type, o)
  BY DEF Exact5
<1>2. Like(type, b, FlattenSeq(Layout(type, o, e)))
  BY <1>1, Laid5
<1>3. Decode5(type, b) = [name \in {f.name : f \in Has(type, b)} |-> Values(FieldNamed(type, name))]
  BY DEF Decode5, DecodeBy, Has, Came
<1>4. ASSUME NEW name \in DOMAIN o PROVE Values(FieldNamed(type, name)) = o[name]
  <2> DEFINE f == FieldNamed(type, name)
             list == o[name]
  <2>1. f \in FieldsOf(type) /\ f.name = name /\ Listed(f, list) /\ Came(f, b) = Parts(f, e, list)
    <3> HIDE DEF e
    <3>1. Found(type, o, e, b, name)
      BY <1>1, <1>2, HadBack
    <3> QED
      BY <3>1 DEF Found
  <2>2. ASSUME NEW k \in 1..Len(list) PROVE Value(f, Parts(f, e, list)[k]) = list[k]
    <3>1. list[k] = [leaf |-> list[k].leaf, obj |-> list[k].obj]
      BY <2>1 DEF Listed
    <3>2. CASE Embedded(f)
      <4> DEFINE p == <<f.type, list[k].obj>>
      <4>1. p \in Inside(type, o)
        <5>1. p \in Within(f, list)
          BY DEF Within
        <5>2. Within(f, list) \subseteq Inside(type, o)
          BY <2>1, <3>2 DEF Inside
        <5> QED
          BY <5>1, <5>2
      <4>2. e[p] = Encode4(f.type, list[k].obj)
        BY <4>1
      <4>3. Exact4(f.type, list[k].obj)
        BY <4>1 DEF Exact5
      <4>4. Decode4(f.type, Encode4(f.type, list[k].obj)) = list[k].obj
        BY <4>3, DecodeInverse4 DEF Like
      <4> HIDE DEF list, f, e
      <4> QED
        BY <3>1, <3>2, <4>2, <4>4 DEF Parts
    <3>3. CASE ~Embedded(f)
      <4>1. list[k].obj = None
        BY <2>1, <3>3 DEF Listed
      <4> HIDE DEF list, f, e
      <4> QED
        BY <3>1, <3>3, <4>1 DEF Parts
    <3> QED
      BY <3>2, <3>3
  <2>3. list = [k \in 1..Len(list) |-> list[k]]
    BY <2>1 DEF Listed
  <2>4. DOMAIN Parts(f, e, list) = 1..Len(list)
    BY DEF Parts
  <2> HIDE DEF list, f, e, Value
  <2>5. Values(f) = [k \in 1..Len(list) |-> Value(f, Parts(f, e, list)[k])]
    BY <2>1, <2>4
  <2> HIDE DEF Values
  <2>6. Values(f) = list
    BY <2>2, <2>3, <2>5
  <2> QED
    BY <2>6 DEF f, list
<1>5. {f.name : f \in Has(type, b)} = DOMAIN o /\ o = [name \in DOMAIN o |-> o[name]]
  BY <1>1, <1>2, HadBack DEF Shaped
<1> HIDE DEF Values
<1> QED
  BY <1>3, <1>4, <1>5

\* encode() writes the layout of an object, at level 6.
LEMMA Laid6 ==
  ASSUME NEW type, NEW o, Shaped(type, o)
  PROVE  Encode(type, o) = FlattenSeq(Layout(type, o, [p \in Inside(type, o) |-> Encode5(p[1], p[2])]))
<1> DEFINE e == [p \in Inside(type, o) |-> Encode5(p[1], p[2])]
<1>1. ASSUME NEW i \in DOMAIN Fields(type)
      PROVE  Written(Encode5, Fields(type)[i], o) = Layout(type, o, e)[i]
  <2> DEFINE f == Fields(type)[i]
             list == o[f.name]
  <2>1. CASE f.name \notin DOMAIN o
    BY <2>1 DEF Written, Layout
  <2>2. CASE f.name \in DOMAIN o
    <3>1. f \in FieldsOf(type)
      BY IndexOf
    <3>2. DOMAIN list = 1..Len(list)
      BY <2>2, <3>1 DEF Shaped, Listed
    <3>3. ASSUME Embedded(f), NEW k \in 1..Len(list)
          PROVE  e[<<f.type, list[k].obj>>] = Encode5(f.type, list[k].obj)
      <4>1. <<f.type, list[k].obj>> \in Within(f, list)
        BY DEF Within
      <4>2. Within(f, list) \subseteq Inside(type, o)
        BY <2>2, <3>1, <3>3 DEF Inside
      <4> QED
        BY <4>1, <4>2
    <3>4. Layout(type, o, e)[i] = Parts(f, e, list)
      BY <2>2 DEF Layout
    <3> HIDE DEF e, list
    <3> QED
      BY <2>2, <3>2, <3>3, <3>4 DEF Written, Parts, list
  <2> QED
    BY <2>1, <2>2
<1>2. Layout(type, o, e) = [i \in DOMAIN Fields(type) |-> Layout(type, o, e)[i]]
  BY DEF Layout
<1> HIDE DEF e
<1>3. [i \in DOMAIN Fields(type) |-> Written(Encode5, Fields(type)[i], o)] = Layout(type, o, e)
  BY <1>1, <1>2
<1> QED
  BY <1>3 DEF Encode, EncodeBy, e

\* decode() undoes encode(), at level 6, for bytes that are the same under every number.
LEMMA DecodeInverse6 ==
  ASSUME NEW type, NEW o, Exact(type, o), NEW b, Like(type, b, Encode(type, o))
  PROVE  Decode(type, b) = o
<1> DEFINE e == [p \in Inside(type, o) |-> Encode5(p[1], p[2])]
           Value(f, t) == [leaf |-> t.leaf, obj |-> IF Embedded(f) THEN Decode5(f.type, t.sub) ELSE None]
           Values(f) == [k \in DOMAIN Came(f, b) |-> Value(f, Came(f, b)[k])]
<1>1. Shaped(type, o)
  BY DEF Exact
<1>2. Like(type, b, FlattenSeq(Layout(type, o, e)))
  BY <1>1, Laid6
<1>3. Decode(type, b) = [name \in {f.name : f \in Has(type, b)} |-> Values(FieldNamed(type, name))]
  BY DEF Decode, DecodeBy, Has, Came
<1>4. ASSUME NEW name \in DOMAIN o PROVE Values(FieldNamed(type, name)) = o[name]
  <2> DEFINE f == FieldNamed(type, name)
             list == o[name]
  <2>1. f \in FieldsOf(type) /\ f.name = name /\ Listed(f, list) /\ Came(f, b) = Parts(f, e, list)
    <3> HIDE DEF e
    <3>1. Found(type, o, e, b, name)
      BY <1>1, <1>2, HadBack
    <3> QED
      BY <3>1 DEF Found
  <2>2. ASSUME NEW k \in 1..Len(list) PROVE Value(f, Parts(f, e, list)[k]) = list[k]
    <3>1. list[k] = [leaf |-> list[k].leaf, obj |-> list[k].obj]
      BY <2>1 DEF Listed
    <3>2. CASE Embedded(f)
      <4> DEFINE p == <<f.type, list[k].obj>>
      <4>1. p \in Inside(type, o)
        <5>1. p \in Within(f, list)
          BY DEF Within
        <5>2. Within(f, list) \subseteq Inside(type, o)
          BY <2>1, <3>2 DEF Inside
        <5> QED
          BY <5>1, <5>2
      <4>2. e[p] = Encode5(f.type, list[k].obj)
        BY <4>1
      <4>3. Exact5(f.type, list[k].obj)
        BY <4>1 DEF Exact
      <4>4. Decode5(f.type, Encode5(f.type, list[k].obj)) = list[k].obj
        BY <4>3, DecodeInverse5 DEF Like
      <4> HIDE DEF list, f, e
      <4> QED
        BY <3>1, <3>2, <4>2, <4>4 DEF Parts
    <3>3. CASE ~Embedded(f)
      <4>1. list[k].obj = None
        BY <2>1, <3>3 DEF Listed
      <4> HIDE DEF list, f, e
      <4> QED
        BY <3>1, <3>3, <4>1 DEF Parts
    <3> QED
      BY <3>2, <3>3
  <2>3. list = [k \in 1..Len(list) |-> list[k]]
    BY <2>1 DEF Listed
  <2>4. DOMAIN Parts(f, e, list) = 1..Len(list)
    BY DEF Parts
  <2> HIDE DEF list, f, e, Value
  <2>5. Values(f) = [k \in 1..Len(list) |-> Value(f, Parts(f, e, list)[k])]
    BY <2>1, <2>4
  <2> HIDE DEF Values
  <2>6. Values(f) = list
    BY <2>2, <2>3, <2>5
  <2> QED
    BY <2>6 DEF f, list
<1>5. {f.name : f \in Has(type, b)} = DOMAIN o /\ o = [name \in DOMAIN o |-> o[name]]
  BY <1>1, <1>2, HadBack DEF Shaped
<1> HIDE DEF Values
<1> QED
  BY <1>3, <1>4, <1>5

\* An object that is exact up to some level is exact up to the next.
LEMMA Raise1 == ASSUME NEW type, NEW o, Exact1(type, o) PROVE Exact2(type, o)
BY DEF Exact1, Exact2, Exact0
LEMMA Raise2 == ASSUME NEW type, NEW o, Exact2(type, o) PROVE Exact3(type, o)
BY Raise1 DEF Exact2, Exact3
LEMMA Raise3 == ASSUME NEW type, NEW o, Exact3(type, o) PROVE Exact4(type, o)
BY Raise2 DEF Exact3, Exact4
LEMMA Raise4 == ASSUME NEW type, NEW o, Exact4(type, o) PROVE Exact5(type, o)
BY Raise3 DEF Exact4, Exact5
LEMMA Raise5 == ASSUME NEW type, NEW o, Exact5(type, o) PROVE Exact(type, o)
BY Raise4 DEF Exact5, Exact

\* The value of a plain field.
LEMMA LeafListed ==
  ASSUME NEW f, ~Embedded(f), NEW s PROVE Listed(f, Leaf(s))
<1>1. Leaf(s) = [k \in 1..1 |-> [leaf |-> s, obj |-> None]] /\ Len(Leaf(s)) = 1
  BY DEF Leaf
<1> QED
  BY <1>1 DEF Listed

\* The value of a field with a message within.
LEMMA ObjectListed ==
  ASSUME NEW f, Embedded(f), NEW o
  PROVE  Listed(f, Object(o)) /\ Within(f, Object(o)) = {<<f.type, o>>}
<1>1. Object(o) = [k \in 1..1 |-> [leaf |-> Blank, obj |-> o]] /\ Len(Object(o)) = 1
  BY DEF Object
<1> QED
  BY <1>1 DEF Listed, Within

\* A list is a sequence of its values.
LEMMA ListsAre ==
  ASSUME NEW values, NEW list \in Lists(values)
  PROVE  Len(list) \in Nat /\ list = [k \in 1..Len(list) |-> list[k]] /\ list \in Seq(values)
<1>1. PICK n \in 0..MaxList : list \in [1..n -> values]
  BY DEF Lists
<1>2. n \in Nat
  BY WireAssumption
<1> QED
  BY <1>1, <1>2

\* The values of a repeated plain field.
LEMMA LeavesListed ==
  ASSUME NEW f, Repeated(f), ~Embedded(f), NEW S, NEW list \in Seq(LeafValues(S)) PROVE Listed(f, list)
<1>1. Len(list) \in Nat /\ list = [k \in 1..Len(list) |-> list[k]]
  OBVIOUS
<1>2. \A k \in 1..Len(list) : \E s \in S : list[k] = [leaf |-> s, obj |-> None]
  BY DEF LeafValues, Leaf
<1> QED
  BY <1>1, <1>2 DEF Listed

\* The values of a repeated field with messages within.
LEMMA ObjectsListed ==
  ASSUME NEW f, Repeated(f), Embedded(f), NEW S, NEW list \in Seq(ObjectValues(S))
  PROVE  Listed(f, list) /\ \A p \in Within(f, list) : p[1] = f.type /\ p[2] \in S
<1>1. Len(list) \in Nat /\ list = [k \in 1..Len(list) |-> list[k]]
  OBVIOUS
<1>2. \A k \in 1..Len(list) : \E o \in S : list[k] = [leaf |-> Blank, obj |-> o]
  BY DEF ObjectValues, Object
<1>3. ASSUME NEW k \in 1..Len(list) PROVE list[k].obj \in S
  <2>1. PICK o \in S : list[k] = [leaf |-> Blank, obj |-> o]
    BY <1>2
  <2> QED
    BY <2>1
<1> QED
  BY <1>1, <1>2, <1>3 DEF Listed, Within

\* A message without lists and messages within it is exact.
LEMMA PlainExact ==
  ASSUME NEW type \in Types, NEW o, o = [name \in DOMAIN o |-> o[name]], DOMAIN o \subseteq Names(type),
         \A f \in FieldsOf(type) : ~Embedded(f) /\ ~Repeated(f),
         \A name \in DOMAIN o : \E s : o[name] = Leaf(s)
  PROVE  Exact1(type, o)
BY LeafListed DEF Exact1, Shaped, Inside

\* Exact: the signed part of a link.
LEMMA LinkTBSExact ==
  ASSUME NEW n
  PROVE  Exact1("LinkTBS", [trusteePubKey |-> Leaf(n), trusteeDisplayName |-> Leaf("name"),
                            validFrom |-> Leaf("from"), validTo |-> Leaf("to")])
BY LinkTBSFields, FieldParts, PlainExact DEF Names

\* Exact: a link.
LEMMA LinkExact ==
  ASSUME NEW t, Exact1("LinkTBS", t), NEW s
  PROVE  Exact2("Link", [tbs |-> Object(t), signature |-> Leaf(s)])
<1> DEFINE o == [tbs |-> Object(t), signature |-> Leaf(s)]
           f1 == Sub(1, "tbs", "LinkTBS")
           f2 == One(2, "signature")
<1>1. /\ DOMAIN o = {"tbs", "signature"} /\ o = [name \in DOMAIN o |-> o[name]]
      /\ o["tbs"] = Object(t)
      /\ o["signature"] = Leaf(s)
  OBVIOUS
<1>2. "Link" \in Types /\ FieldsOf("Link") = {f1, f2}
  BY LinkFields
<1>3. /\ f1.name = "tbs" /\ Embedded(f1) /\ ~Repeated(f1) /\ f1.type = "LinkTBS"
      /\ f2.name = "signature" /\ ~Embedded(f2) /\ ~Repeated(f2)
  BY FieldParts
<1> HIDE DEF o, f1, f2
<1>4. /\ Listed(f1, Object(t))
      /\ Within(f1, Object(t)) = {<<"LinkTBS", t>>}
      /\ Listed(f2, Leaf(s))
  BY <1>3, LeafListed, ObjectListed
<1>5. Shaped("Link", o)
  BY <1>1, <1>2, <1>3, <1>4 DEF Shaped, Names
<1>6. ASSUME NEW p \in Inside("Link", o) PROVE Exact1(p[1], p[2])
  BY <1>1, <1>2, <1>3, <1>4 DEF Inside
<1>7. Exact2("Link", o)
  BY <1>5, <1>6 DEF Exact2
<1> QED
  BY <1>7 DEF o

\* Exact: what Link.serialize() builds.
LEMMA LinkOutExact ==
  ASSUME NEW names, NEW l \in LinkOut(names)
  PROVE  Exact2("Link", l)
<1> DEFINE t(n) == [trusteePubKey |-> Leaf(n), trusteeDisplayName |-> Leaf("name"),
                    validFrom |-> Leaf("from"), validTo |-> Leaf("to")]
<1>1. \A n : Exact1("LinkTBS", t(n))
  BY LinkTBSExact
<1>2. PICK n \in names : l = [tbs |-> Object(t(n)), signature |-> Leaf("on link to " \o n)]
  BY DEF LinkOut
<1> HIDE DEF t
<1> QED
  BY <1>1, <1>2, LinkExact

\* Exact: an empty root.
LEMMA RootExact == Exact1("Root", None)
BY RootFields DEF Exact1, Shaped, Inside, Names, None

\* Exact: the body of a root message.
LEMMA RootBodyExact == Exact2("Body", [root |-> Object(None)])
<1> DEFINE o == [root |-> Object(None)]
           f1 == Sub(1, "root", "Root")
           f2 == One(2, "json")
<1>1. /\ DOMAIN o = {"root"} /\ o = [name \in DOMAIN o |-> o[name]]
      /\ o["root"] = Object(None)
  OBVIOUS
<1>2. "Body" \in Types /\ FieldsOf("Body") = {f1, f2}
  BY BodyFields
<1>3. /\ f1.name = "root" /\ Embedded(f1) /\ ~Repeated(f1) /\ f1.type = "Root"
      /\ f2.name = "json" /\ ~Embedded(f2) /\ ~Repeated(f2)
  BY FieldParts
<1> HIDE DEF o, f1, f2
<1>4. /\ Listed(f1, Object(None))
      /\ Within(f1, Object(None)) = {<<"Root", None>>}
  BY <1>3, ObjectListed
<1>5. Shaped("Body", o)
  BY <1>1, <1>2, <1>3, <1>4 DEF Shaped, Names
<1>6. ASSUME NEW p \in Inside("Body", o) PROVE Exact1(p[1], p[2])
  BY <1>1, <1>2, <1>3, <1>4, RootExact DEF Inside
<1>7. Exact2("Body", o)
  BY <1>5, <1>6 DEF Exact2
<1> QED
  BY <1>7 DEF o

\* Exact: the body of any other message.
LEMMA JsonBodyExact ==
  ASSUME NEW s
  PROVE  Exact2("Body", [json |-> Leaf(s)])
<1> DEFINE o == [json |-> Leaf(s)]
           f1 == Sub(1, "root", "Root")
           f2 == One(2, "json")
<1>1. /\ DOMAIN o = {"json"} /\ o = [name \in DOMAIN o |-> o[name]]
      /\ o["json"] = Leaf(s)
  OBVIOUS
<1>2. "Body" \in Types /\ FieldsOf("Body") = {f1, f2}
  BY BodyFields
<1>3. /\ f1.name = "root" /\ Embedded(f1) /\ ~Repeated(f1) /\ f1.type = "Root"
      /\ f2.name = "json" /\ ~Embedded(f2) /\ ~Repeated(f2)
  BY FieldParts
<1> HIDE DEF o, f1, f2
<1>4. /\ Listed(f2, Leaf(s))
  BY <1>3, LeafListed
<1>5. Shaped("Body", o)
  BY <1>1, <1>2, <1>3, <1>4 DEF Shaped, Names
<1>6. ASSUME NEW p \in Inside("Body", o) PROVE Exact1(p[1], p[2])
  BY <1>1, <1>2, <1>3, <1>4 DEF Inside
<1>7. Exact2("Body", o)
  BY <1>5, <1>6 DEF Exact2
<1> QED
  BY <1>7 DEF o

\* Exact: the signed part of a message.
LEMMA MessageTBSExact ==
  ASSUME NEW S, NEW parents \in Seq(LeafValues(S)), NEW h, NEW time,
         NEW links, NEW chain \in Seq(ObjectValues(LinkOut(links))), NEW b, Exact2("Body", b)
  PROVE  Exact3("MessageTBS", [parents |-> parents, height |-> Leaf(h), chain |-> chain,
                               timestamp |-> Leaf(time), body |-> Object(b)])
<1> DEFINE o == [parents |-> parents, height |-> Leaf(h), chain |-> chain,
                 timestamp |-> Leaf(time), body |-> Object(b)]
           f1 == Many(1, "parents")
           f2 == One(2, "height")
           f3 == Subs(3, "chain", "Link")
           f4 == One(4, "timestamp")
           f5 == Sub(5, "body", "Body")
<1>1. /\ DOMAIN o = {"parents", "height", "chain", "timestamp", "body"} /\ o = [name \in DOMAIN o |-> o[name]]
      /\ o["parents"] = parents
      /\ o["height"] = Leaf(h)
      /\ o["chain"] = chain
      /\ o["timestamp"] = Leaf(time)
      /\ o["body"] = Object(b)
  OBVIOUS
<1>2. "MessageTBS" \in Types /\ FieldsOf("MessageTBS") = {f1, f2, f3, f4, f5}
  BY MessageTBSFields
<1>3. /\ f1.name = "parents" /\ ~Embedded(f1) /\ Repeated(f1)
      /\ f2.name = "height" /\ ~Embedded(f2) /\ ~Repeated(f2)
      /\ f3.name = "chain" /\ Embedded(f3) /\ Repeated(f3) /\ f3.type = "Link"
      /\ f4.name = "timestamp" /\ ~Embedded(f4) /\ ~Repeated(f4)
      /\ f5.name = "body" /\ Embedded(f5) /\ ~Repeated(f5) /\ f5.type = "Body"
  BY FieldParts
<1> HIDE DEF o, f1, f2, f3, f4, f5
<1>4. /\ Listed(f1, parents)
      /\ Listed(f2, Leaf(h))
      /\ Listed(f3, chain)
      /\ \A p \in Within(f3, chain) : Exact2(p[1], p[2])
      /\ Listed(f4, Leaf(time))
      /\ Listed(f5, Object(b))
      /\ Within(f5, Object(b)) = {<<"Body", b>>}
  BY <1>3, LeafListed, LeavesListed, ObjectListed, ObjectsListed, LinkOutExact
<1>5. Shaped("MessageTBS", o)
  BY <1>1, <1>2, <1>3, <1>4 DEF Shaped, Names
<1>6. ASSUME NEW p \in Inside("MessageTBS", o) PROVE Exact2(p[1], p[2])
  BY <1>1, <1>2, <1>3, <1>4 DEF Inside
<1>7. Exact3("MessageTBS", o)
  BY <1>5, <1>6 DEF Exact3
<1> QED
  BY <1>7 DEF o

\* Exact: a message.
LEMMA ChannelMessageExact ==
  ASSUME NEW t, Exact3("MessageTBS", t), NEW s
  PROVE  Exact4("ChannelMessage", [tbs |-> Object(t), signature |-> Leaf(s)])
<1> DEFINE o == [tbs |-> Object(t), signature |-> Leaf(s)]
           f1 == Sub(1, "tbs", "MessageTBS")
           f2 == One(2, "signature")
<1>1. /\ DOMAIN o = {"tbs", "signature"} /\ o = [name \in DOMAIN o |-> o[name]]
      /\ o["tbs"] = Object(t)
      /\ o["signature"] = Leaf(s)
  OBVIOUS
<1>2. "ChannelMessage" \in Types /\ FieldsOf("ChannelMessage") = {f1, f2}
  BY ChannelMessageFields
<1>3. /\ f1.name = "tbs" /\ Embedded(f1) /\ ~Repeated(f1) /\ f1.type = "MessageTBS"
      /\ f2.name = "signature" /\ ~Embedded(f2) /\ ~Repeated(f2)
  BY FieldParts
<1> HIDE DEF o, f1, f2
<1>4. /\ Listed(f1, Object(t))
      /\ Within(f1, Object(t)) = {<<"MessageTBS", t>>}
      /\ Listed(f2, Leaf(s))
  BY <1>3, LeafListed, ObjectListed
<1>5. Shaped("ChannelMessage", o)
  BY <1>1, <1>2, <1>3, <1>4 DEF Shaped, Names
<1>6. ASSUME NEW p \in Inside("ChannelMessage", o) PROVE Exact3(p[1], p[2])
  BY <1>1, <1>2, <1>3, <1>4 DEF Inside
<1>7. Exact4("ChannelMessage", o)
  BY <1>5, <1>6 DEF Exact4
<1> QED
  BY <1>7 DEF o

\* Exact: a hello.
LEMMA HelloExact == Exact1("Hello", [version |-> Leaf("1"), peerId |-> Leaf("id")])
BY HelloFields, FieldParts, PlainExact DEF Names

\* Exact: a shake.
LEMMA ShakeExact ==
  ASSUME NEW d
  PROVE  Exact1("Shake", [isDuplicate |-> Leaf(d)])
BY ShakeFields, FieldParts, PlainExact DEF Names

\* Exact: an invite request.
LEMMA InviteRequestExact == Exact1("InviteRequest",
                                   [peerId |-> Leaf("id"), trusteePubKey |-> Leaf("a"),
                                    boxPubKey |-> Leaf("box")])
BY InviteRequestFields, FieldParts, PlainExact DEF Names

\* Exact: a stored channel.
LEMMA ChannelExact ==
  ASSUME NEW f, NEW m
  PROVE  Exact1("Channel", [publicKey |-> Leaf("key"), name |-> Leaf("name"),
                            isFeed |-> Leaf(f), metadata |-> Leaf(m)])
BY ChannelFields, FieldParts, PlainExact DEF Names

\* Exact: a query by height.
LEMMA QueryExact ==
  ASSUME NEW n, NEW back, NEW limit
  PROVE  Exact1("Query", [height |-> Leaf(n), isBackward |-> Leaf(back), limit |-> Leaf(limit)])
BY QueryFields, FieldParts, PlainExact DEF Names

\* Exact: a query by hash.
LEMMA QueryHashExact ==
  ASSUME NEW h, NEW back, NEW limit
  PROVE  Exact1("Query", [hash |-> Leaf(h), isBackward |-> Leaf(back), limit |-> Leaf(limit)])
BY QueryFields, FieldParts, PlainExact DEF Names

\* Exact: a bulk query.
LEMMA BulkExact ==
  ASSUME NEW S, NEW hs \in Seq(LeafValues(S))
  PROVE  Exact1("Bulk", [hashes |-> hs])
<1> DEFINE o == [hashes |-> hs]
           f1 == Many(1, "hashes")
<1>1. /\ DOMAIN o = {"hashes"} /\ o = [name \in DOMAIN o |-> o[name]]
      /\ o["hashes"] = hs
  OBVIOUS
<1>2. "Bulk" \in Types /\ FieldsOf("Bulk") = {f1}
  BY BulkFields
<1>3. /\ f1.name = "hashes" /\ ~Embedded(f1) /\ Repeated(f1)
  BY FieldParts
<1> HIDE DEF o, f1
<1>4. /\ Listed(f1, hs)
  BY <1>3, LeavesListed
<1>5. Shaped("Bulk", o)
  BY <1>1, <1>2, <1>3, <1>4 DEF Shaped, Names
<1>6. ASSUME NEW p \in Inside("Bulk", o) PROVE Exact0(p[1], p[2])
  BY <1>1, <1>2, <1>3, <1>4 DEF Inside
<1>7. Exact1("Bulk", o)
  BY <1>5, <1>6 DEF Exact1
<1> QED
  BY <1>7 DEF o

\* Exact: the signed part of a query.
LEMMA QueryRequestExact ==
  ASSUME NEW q, Exact1("Query", q), NEW links, NEW chain \in Seq(ObjectValues(LinkOut(links))), NEW key
  PROVE  Exact3("RequestTBS", [responsePubKey |-> Leaf(key), query |-> Object(q), chain |-> chain])
<1> DEFINE o == [responsePubKey |-> Leaf(key), query |-> Object(q), chain |-> chain]
           f1 == Subs(1, "chain", "Link")
           f2 == Sub(2, "query", "Query")
           f3 == Sub(3, "bulk", "Bulk")
           f4 == One(4, "responsePubKey")
<1>1. /\ DOMAIN o = {"responsePubKey", "query", "chain"} /\ o = [name \in DOMAIN o |-> o[name]]
      /\ o["responsePubKey"] = Leaf(key)
      /\ o["query"] = Object(q)
      /\ o["chain"] = chain
  OBVIOUS
<1>2. "RequestTBS" \in Types /\ FieldsOf("RequestTBS") = {f1, f2, f3, f4}
  BY RequestTBSFields
<1>3. /\ f1.name = "chain" /\ Embedded(f1) /\ Repeated(f1) /\ f1.type = "Link"
      /\ f2.name = "query" /\ Embedded(f2) /\ ~Repeated(f2) /\ f2.type = "Query"
      /\ f3.name = "bulk" /\ Embedded(f3) /\ ~Repeated(f3) /\ f3.type = "Bulk"
      /\ f4.name = "responsePubKey" /\ ~Embedded(f4) /\ ~Repeated(f4)
  BY FieldParts
<1> HIDE DEF o, f1, f2, f3, f4
<1>4. /\ Listed(f1, chain)
      /\ \A p \in Within(f1, chain) : Exact2(p[1], p[2])
      /\ Listed(f2, Object(q))
      /\ Within(f2, Object(q)) = {<<"Query", q>>}
      /\ Listed(f4, Leaf(key))
  BY <1>3, LeafListed, ObjectListed, ObjectsListed, LinkOutExact
<1>5. Shaped("RequestTBS", o)
  BY <1>1, <1>2, <1>3, <1>4 DEF Shaped, Names
<1>6. ASSUME NEW p \in Inside("RequestTBS", o) PROVE Exact2(p[1], p[2])
  BY <1>1, <1>2, <1>3, <1>4, Raise1 DEF Inside
<1>7. Exact3("RequestTBS", o)
  BY <1>5, <1>6 DEF Exact3
<1> QED
  BY <1>7 DEF o

\* Exact: the signed part of a bulk query.
LEMMA BulkRequestExact ==
  ASSUME NEW q, Exact1("Bulk", q), NEW links, NEW chain \in Seq(ObjectValues(LinkOut(links))), NEW key
  PROVE  Exact3("RequestTBS", [responsePubKey |-> Leaf(key), bulk |-> Object(q), chain |-> chain])
<1> DEFINE o == [responsePubKey |-> Leaf(key), bulk |-> Object(q), chain |-> chain]
           f1 == Subs(1, "chain", "Link")
           f2 == Sub(2, "query", "Query")
           f3 == Sub(3, "bulk", "Bulk")
           f4 == One(4, "responsePubKey")
<1>1. /\ DOMAIN o = {"responsePubKey", "bulk", "chain"} /\ o = [name \in DOMAIN o |-> o[name]]
      /\ o["responsePubKey"] = Leaf(key)
      /\ o["bulk"] = Object(q)
      /\ o["chain"] = chain
  OBVIOUS
<1>2. "RequestTBS" \in Types /\ FieldsOf("RequestTBS") = {f1, f2, f3, f4}
  BY RequestTBSFields
<1>3. /\ f1.name = "chain" /\ Embedded(f1) /\ Repeated(f1) /\ f1.type = "Link"
      /\ f2.name = "query" /\ Embedded(f2) /\ ~Repeated(f2) /\ f2.type = "Query"
      /\ f3.name = "bulk" /\ Embedded(f3) /\ ~Repeated(f3) /\ f3.type = "Bulk"
      /\ f4.name = "responsePubKey" /\ ~Embedded(f4) /\ ~Repeated(f4)
  BY FieldParts
<1> HIDE DEF o, f1, f2, f3, f4
<1>4. /\ Listed(f1, chain)
      /\ \A p \in Within(f1, chain) : Exact2(p[1], p[2])
      /\ Listed(f3, Object(q))
      /\ Within(f3, Object(q)) = {<<"Bulk", q>>}
      /\ Listed(f4, Leaf(key))
  BY <1>3, LeafListed, ObjectListed, ObjectsListed, LinkOutExact
<1>5. Shaped("RequestTBS", o)
  BY <1>1, <1>2, <1>3, <1>4 DEF Shaped, Names
<1>6. ASSUME NEW p \in Inside("RequestTBS", o) PROVE Exact2(p[1], p[2])
  BY <1>1, <1>2, <1>3, <1>4, Raise1 DEF Inside
<1>7. Exact3("RequestTBS", o)
  BY <1>5, <1>6 DEF Exact3
<1> QED
  BY <1>7 DEF o

\* Exact: a request.
LEMMA RequestContentExact ==
  ASSUME NEW t, Exact3("RequestTBS", t), NEW s
  PROVE  Exact4("RequestContent", [tbs |-> Object(t), signature |-> Leaf(s)])
<1> DEFINE o == [tbs |-> Object(t), signature |-> Leaf(s)]
           f1 == Sub(1, "tbs", "RequestTBS")
           f2 == One(2, "signature")
<1>1. /\ DOMAIN o = {"tbs", "signature"} /\ o = [name \in DOMAIN o |-> o[name]]
      /\ o["tbs"] = Object(t)
      /\ o["signature"] = Leaf(s)
  OBVIOUS
<1>2. "RequestContent" \in Types /\ FieldsOf("RequestContent") = {f1, f2}
  BY RequestContentFields
<1>3. /\ f1.name = "tbs" /\ Embedded(f1) /\ ~Repeated(f1) /\ f1.type = "RequestTBS"
      /\ f2.name = "signature" /\ ~Embedded(f2) /\ ~Repeated(f2)
  BY FieldParts
<1> HIDE DEF o, f1, f2
<1>4. /\ Listed(f1, Object(t))
      /\ Within(f1, Object(t)) = {<<"RequestTBS", t>>}
      /\ Listed(f2, Leaf(s))
  BY <1>3, LeafListed, ObjectListed
<1>5. Shaped("RequestContent", o)
  BY <1>1, <1>2, <1>3, <1>4 DEF Shaped, Names
<1>6. ASSUME NEW p \in Inside("RequestContent", o) PROVE Exact3(p[1], p[2])
  BY <1>1, <1>2, <1>3, <1>4 DEF Inside
<1>7. Exact4("RequestContent", o)
  BY <1>5, <1>6 DEF Exact4
<1> QED
  BY <1>7 DEF o

\* Exact: an abbreviated message.
LEMMA AbbreviatedExact ==
  ASSUME NEW h, NEW S, NEW parents \in Seq(LeafValues(S))
  PROVE  Exact1("Abbreviated", [hash |-> Leaf(h), parents |-> parents])
<1> DEFINE o == [hash |-> Leaf(h), parents |-> parents]
           f1 == Many(1, "parents")
           f2 == One(2, "hash")
<1>1. /\ DOMAIN o = {"hash", "parents"} /\ o = [name \in DOMAIN o |-> o[name]]
      /\ o["hash"] = Leaf(h)
      /\ o["parents"] = parents
  OBVIOUS
<1>2. "Abbreviated" \in Types /\ FieldsOf("Abbreviated") = {f1, f2}
  BY AbbreviatedFields
<1>3. /\ f1.name = "parents" /\ ~Embedded(f1) /\ Repeated(f1)
      /\ f2.name = "hash" /\ ~Embedded(f2) /\ ~Repeated(f2)
  BY FieldParts
<1> HIDE DEF o, f1, f2
<1>4. /\ Listed(f1, parents)
      /\ Listed(f2, Leaf(h))
  BY <1>3, LeafListed, LeavesListed
<1>5. Shaped("Abbreviated", o)
  BY <1>1, <1>2, <1>3, <1>4 DEF Shaped, Names
<1>6. ASSUME NEW p \in Inside("Abbreviated", o) PROVE Exact0(p[1], p[2])
  BY <1>1, <1>2, <1>3, <1>4 DEF Inside
<1>7. Exact1("Abbreviated", o)
  BY <1>5, <1>6 DEF Exact1
<1> QED
  BY <1>7 DEF o

\* Exact: a page that is the only one.
LEMMA QueryResponseExact ==
  ASSUME NEW S, \A m \in S : Exact1("Abbreviated", m), NEW list \in Seq(ObjectValues(S))
  PROVE  Exact2("QueryResponse", [abbreviatedMessages |-> list])
<1> DEFINE o == [abbreviatedMessages |-> list]
           f1 == Subs(1, "abbreviatedMessages", "Abbreviated")
           f2 == One(2, "forwardHash")
           f3 == One(3, "backwardHash")
<1>1. /\ DOMAIN o = {"abbreviatedMessages"} /\ o = [name \in DOMAIN o |-> o[name]]
      /\ o["abbreviatedMessages"] = list
  OBVIOUS
<1>2. "QueryResponse" \in Types /\ FieldsOf("QueryResponse") = {f1, f2, f3}
  BY QueryResponseFields
<1>3. /\ f1.name = "abbreviatedMessages" /\ Embedded(f1) /\ Repeated(f1) /\ f1.type = "Abbreviated"
      /\ f2.name = "forwardHash" /\ ~Embedded(f2) /\ ~Repeated(f2)
      /\ f3.name = "backwardHash" /\ ~Embedded(f3) /\ ~Repeated(f3)
  BY FieldParts
<1> HIDE DEF o, f1, f2, f3
<1>4. /\ Listed(f1, list)
      /\ \A p \in Within(f1, list) : Exact1(p[1], p[2])
  BY <1>3, ObjectsListed
<1>5. Shaped("QueryResponse", o)
  BY <1>1, <1>2, <1>3, <1>4 DEF Shaped, Names
<1>6. ASSUME NEW p \in Inside("QueryResponse", o) PROVE Exact1(p[1], p[2])
  BY <1>1, <1>2, <1>3, <1>4 DEF Inside
<1>7. Exact2("QueryResponse", o)
  BY <1>5, <1>6 DEF Exact2
<1> QED
  BY <1>7 DEF o

\* Exact: a page with one after it.
LEMMA ForwardResponseExact ==
  ASSUME NEW S, \A m \in S : Exact1("Abbreviated", m), NEW list \in Seq(ObjectValues(S)), NEW h
  PROVE  Exact2("QueryResponse", [abbreviatedMessages |-> list, forwardHash |-> Leaf(h)])
<1> DEFINE o == [abbreviatedMessages |-> list, forwardHash |-> Leaf(h)]
           f1 == Subs(1, "abbreviatedMessages", "Abbreviated")
           f2 == One(2, "forwardHash")
           f3 == One(3, "backwardHash")
<1>1. /\ DOMAIN o = {"abbreviatedMessages", "forwardHash"} /\ o = [name \in DOMAIN o |-> o[name]]
      /\ o["abbreviatedMessages"] = list
      /\ o["forwardHash"] = Leaf(h)
  OBVIOUS
<1>2. "QueryResponse" \in Types /\ FieldsOf("QueryResponse") = {f1, f2, f3}
  BY QueryResponseFields
<1>3. /\ f1.name = "abbreviatedMessages" /\ Embedded(f1) /\ Repeated(f1) /\ f1.type = "Abbreviated"
      /\ f2.name = "forwardHash" /\ ~Embedded(f2) /\ ~Repeated(f2)
      /\ f3.name = "backwardHash" /\ ~Embedded(f3) /\ ~Repeated(f3)
  BY FieldParts
<1> HIDE DEF o, f1, f2, f3
<1>4. /\ Listed(f1, list)
      /\ \A p \in Within(f1, list) : Exact1(p[1], p[2])
      /\ Listed(f2, Leaf(h))
  BY <1>3, LeafListed, ObjectsListed
<1>5. Shaped("QueryResponse", o)
  BY <1>1, <1>2, <1>3, <1>4 DEF Shaped, Names
<1>6. ASSUME NEW p \in Inside("QueryResponse", o) PROVE Exact1(p[1], p[2])
  BY <1>1, <1>2, <1>3, <1>4 DEF Inside
<1>7. Exact2("QueryResponse", o)
  BY <1>5, <1>6 DEF Exact2
<1> QED
  BY <1>7 DEF o

\* Exact: a page with one before it.
LEMMA BackwardResponseExact ==
  ASSUME NEW S, \A m \in S : Exact1("Abbreviated", m), NEW list \in Seq(ObjectValues(S)), NEW h
  PROVE  Exact2("QueryResponse", [abbreviatedMessages |-> list, backwardHash |-> Leaf(h)])
<1> DEFINE o == [abbreviatedMessages |-> list, backwardHash |-> Leaf(h)]
           f1 == Subs(1, "abbreviatedMessages", "Abbreviated")
           f2 == One(2, "forwardHash")
           f3 == One(3, "backwardHash")
<1>1. /\ DOMAIN o = {"abbreviatedMessages", "backwardHash"} /\ o = [name \in DOMAIN o |-> o[name]]
      /\ o["abbreviatedMessages"] = list
      /\ o["backwardHash"] = Leaf(h)
  OBVIOUS
<1>2. "QueryResponse" \in Types /\ FieldsOf("QueryResponse") = {f1, f2, f3}
  BY QueryResponseFields
<1>3. /\ f1.name = "abbreviatedMessages" /\ Embedded(f1) /\ Repeated(f1) /\ f1.type = "Abbreviated"
      /\ f2.name = "forwardHash" /\ ~Embedded(f2) /\ ~Repeated(f2)
      /\ f3.name = "backwardHash" /\ ~Embedded(f3) /\ ~Repeated(f3)
  BY FieldParts
<1> HIDE DEF o, f1, f2, f3
<1>4. /\ Listed(f1, list)
      /\ \A p \in Within(f1, list) : Exact1(p[1], p[2])
      /\ Listed(f3, Leaf(h))
  BY <1>3, LeafListed, ObjectsListed
<1>5. Shaped("QueryResponse", o)
  BY <1>1, <1>2, <1>3, <1>4 DEF Shaped, Names
<1>6. ASSUME NEW p \in Inside("QueryResponse", o) PROVE Exact1(p[1], p[2])
  BY <1>1, <1>2, <1>3, <1>4 DEF Inside
<1>7. Exact2("QueryResponse", o)
  BY <1>5, <1>6 DEF Exact2
<1> QED
  BY <1>7 DEF o

\* Exact: the messages of a bulk response.
LEMMA BulkResponseExact ==
  ASSUME NEW S, \A m \in S : Exact4("ChannelMessage", m), NEW list \in Seq(ObjectValues(S)), NEW i
  PROVE  Exact5("BulkResponse", [messages |-> list, forwardIndex |-> Leaf(i)])
<1> DEFINE o == [messages |-> list, forwardIndex |-> Leaf(i)]
           f1 == Subs(1, "messages", "ChannelMessage")
           f2 == One(2, "forwardIndex")
<1>1. /\ DOMAIN o = {"messages", "forwardIndex"} /\ o = [name \in DOMAIN o |-> o[name]]
      /\ o["messages"] = list
      /\ o["forwardIndex"] = Leaf(i)
  OBVIOUS
<1>2. "BulkResponse" \in Types /\ FieldsOf("BulkResponse") = {f1, f2}
  BY BulkResponseFields
<1>3. /\ f1.name = "messages" /\ Embedded(f1) /\ Repeated(f1) /\ f1.type = "ChannelMessage"
      /\ f2.name = "forwardIndex" /\ ~Embedded(f2) /\ ~Repeated(f2)
  BY FieldParts
<1> HIDE DEF o, f1, f2
<1>4. /\ Listed(f1, list)
      /\ \A p \in Within(f1, list) : Exact4(p[1], p[2])
      /\ Listed(f2, Leaf(i))
  BY <1>3, LeafListed, ObjectsListed
<1>5. Shaped("BulkResponse", o)
  BY <1>1, <1>2, <1>3, <1>4 DEF Shaped, Names
<1>6. ASSUME NEW p \in Inside("BulkResponse", o) PROVE Exact4(p[1], p[2])
  BY <1>1, <1>2, <1>3, <1>4 DEF Inside
<1>7. Exact5("BulkResponse", o)
  BY <1>5, <1>6 DEF Exact5
<1> QED
  BY <1>7 DEF o

\* Exact: a response with a page.
LEMMA QueryContentExact ==
  ASSUME NEW q, Exact2("QueryResponse", q)
  PROVE  Exact3("ResponseContent", [queryResponse |-> Object(q)])
<1> DEFINE o == [queryResponse |-> Object(q)]
           f1 == Sub(1, "queryResponse", "QueryResponse")
           f2 == Sub(2, "bulkResponse", "BulkResponse")
<1>1. /\ DOMAIN o = {"queryResponse"} /\ o = [name \in DOMAIN o |-> o[name]]
      /\ o["queryResponse"] = Object(q)
  OBVIOUS
<1>2. "ResponseContent" \in Types /\ FieldsOf("ResponseContent") = {f1, f2}
  BY ResponseContentFields
<1>3. /\ f1.name = "queryResponse" /\ Embedded(f1) /\ ~Repeated(f1) /\ f1.type = "QueryResponse"
      /\ f2.name = "bulkResponse" /\ Embedded(f2) /\ ~Repeated(f2) /\ f2.type = "BulkResponse"
  BY FieldParts
<1> HIDE DEF o, f1, f2
<1>4. /\ Listed(f1, Object(q))
      /\ Within(f1, Object(q)) = {<<"QueryResponse", q>>}
  BY <1>3, ObjectListed
<1>5. Shaped("ResponseContent", o)
  BY <1>1, <1>2, <1>3, <1>4 DEF Shaped, Names
<1>6. ASSUME NEW p \in Inside("ResponseContent", o) PROVE Exact2(p[1], p[2])
  BY <1>1, <1>2, <1>3, <1>4 DEF Inside
<1>7. Exact3("ResponseContent", o)
  BY <1>5, <1>6 DEF Exact3
<1> QED
  BY <1>7 DEF o

\* Exact: a bulk response.
LEMMA BulkContentExact ==
  ASSUME NEW q, Exact5("BulkResponse", q)
  PROVE  Exact("ResponseContent", [bulkResponse |-> Object(q)])
<1> DEFINE o == [bulkResponse |-> Object(q)]
           f1 == Sub(1, "queryResponse", "QueryResponse")
           f2 == Sub(2, "bulkResponse", "BulkResponse")
<1>1. /\ DOMAIN o = {"bulkResponse"} /\ o = [name \in DOMAIN o |-> o[name]]
      /\ o["bulkResponse"] = Object(q)
  OBVIOUS
<1>2. "ResponseContent" \in Types /\ FieldsOf("ResponseContent") = {f1, f2}
  BY ResponseContentFields
<1>3. /\ f1.name = "queryResponse" /\ Embedded(f1) /\ ~Repeated(f1) /\ f1.type = "QueryResponse"
      /\ f2.name = "bulkResponse" /\ Embedded(f2) /\ ~Repeated(f2) /\ f2.type = "BulkResponse"
  BY FieldParts
<1> HIDE DEF o, f1, f2
<1>4. /\ Listed(f2, Object(q))
      /\ Within(f2, Object(q)) = {<<"BulkResponse", q>>}
  BY <1>3, ObjectListed
<1>5. Shaped("ResponseContent", o)
  BY <1>1, <1>2, <1>3, <1>4 DEF Shaped, Names
<1>6. ASSUME NEW p \in Inside("ResponseContent", o) PROVE Exact5(p[1], p[2])
  BY <1>1, <1>2, <1>3, <1>4 DEF Inside
<1>7. Exact("ResponseContent", o)
  BY <1>5, <1>6 DEF Exact
<1> QED
  BY <1>7 DEF o

\* Exact: an invite.
LEMMA InviteExact ==
  ASSUME NEW links, NEW chain \in Seq(ObjectValues(LinkOut(links))), NEW k, NEW n
  PROVE  Exact3("Invite", [channelPubKey |-> Leaf(k), channelName |-> Leaf(n), chain |-> chain])
<1> DEFINE o == [channelPubKey |-> Leaf(k), channelName |-> Leaf(n), chain |-> chain]
           f1 == One(1, "channelPubKey")
           f2 == One(2, "channelName")
           f3 == Subs(3, "chain", "Link")
<1>1. /\ DOMAIN o = {"channelPubKey", "channelName", "chain"} /\ o = [name \in DOMAIN o |-> o[name]]
      /\ o["channelPubKey"] = Leaf(k)
      /\ o["channelName"] = Leaf(n)
      /\ o["chain"] = chain
  OBVIOUS
<1>2. "Invite" \in Types /\ FieldsOf("Invite") = {f1, f2, f3}
  BY InviteFields
<1>3. /\ f1.name = "channelPubKey" /\ ~Embedded(f1) /\ ~Repeated(f1)
      /\ f2.name = "channelName" /\ ~Embedded(f2) /\ ~Repeated(f2)
      /\ f3.name = "chain" /\ Embedded(f3) /\ Repeated(f3) /\ f3.type = "Link"
  BY FieldParts
<1> HIDE DEF o, f1, f2, f3
<1>4. /\ Listed(f1, Leaf(k))
      /\ Listed(f2, Leaf(n))
      /\ Listed(f3, chain)
      /\ \A p \in Within(f3, chain) : Exact2(p[1], p[2])
  BY <1>3, LeafListed, ObjectsListed, LinkOutExact
<1>5. Shaped("Invite", o)
  BY <1>1, <1>2, <1>3, <1>4 DEF Shaped, Names
<1>6. ASSUME NEW p \in Inside("Invite", o) PROVE Exact2(p[1], p[2])
  BY <1>1, <1>2, <1>3, <1>4 DEF Inside
<1>7. Exact3("Invite", o)
  BY <1>5, <1>6 DEF Exact3
<1> QED
  BY <1>7 DEF o

\* Exact: a chain of an identity.
LEMMA ChannelChainExact ==
  ASSUME NEW links, NEW chain \in Seq(ObjectValues(LinkOut(links))), NEW c
  PROVE  Exact3("ChannelChain", [channelId |-> Leaf(c), links |-> chain])
<1> DEFINE o == [channelId |-> Leaf(c), links |-> chain]
           f1 == One(1, "channelId")
           f2 == Subs(2, "links", "Link")
<1>1. /\ DOMAIN o = {"channelId", "links"} /\ o = [name \in DOMAIN o |-> o[name]]
      /\ o["channelId"] = Leaf(c)
      /\ o["links"] = chain
  OBVIOUS
<1>2. "ChannelChain" \in Types /\ FieldsOf("ChannelChain") = {f1, f2}
  BY ChannelChainFields
<1>3. /\ f1.name = "channelId" /\ ~Embedded(f1) /\ ~Repeated(f1)
      /\ f2.name = "links" /\ Embedded(f2) /\ Repeated(f2) /\ f2.type = "Link"
  BY FieldParts
<1> HIDE DEF o, f1, f2
<1>4. /\ Listed(f1, Leaf(c))
      /\ Listed(f2, chain)
      /\ \A p \in Within(f2, chain) : Exact2(p[1], p[2])
  BY <1>3, LeafListed, ObjectsListed, LinkOutExact
<1>5. Shaped("ChannelChain", o)
  BY <1>1, <1>2, <1>3, <1>4 DEF Shaped, Names
<1>6. ASSUME NEW p \in Inside("ChannelChain", o) PROVE Exact2(p[1], p[2])
  BY <1>1, <1>2, <1>3, <1>4 DEF Inside
<1>7. Exact3("ChannelChain", o)
  BY <1>5, <1>6 DEF Exact3
<1> QED
  BY <1>7 DEF o

\* Exact: an identity.
LEMMA IdentityExact ==
  ASSUME NEW S, \A c \in S : Exact3("ChannelChain", c), NEW list \in Seq(ObjectValues(S)), NEW m
  PROVE  Exact4("Identity", [name |-> Leaf("name"), publicKey |-> Leaf("a"),
                             secretKey |-> Leaf("secret"), channelChains |-> list, metadata |-> Leaf(m)])
<1> DEFINE o == [name |-> Leaf("name"), publicKey |-> Leaf("a"), secretKey |-> Leaf("secret"),
                 channelChains |-> list, metadata |-> Leaf(m)]
           f1 == One(1, "name")
           f2 == One(2, "publicKey")
           f3 == One(3, "secretKey")
           f4 == Subs(4, "channelChains", "ChannelChain")
           f5 == One(5, "metadata")
<1>1. /\ DOMAIN o = {"name", "publicKey", "secretKey", "channelChains",
                     "metadata"} /\ o = [name \in DOMAIN o |-> o[name]]
      /\ o["name"] = Leaf("name")
      /\ o["publicKey"] = Leaf("a")
      /\ o["secretKey"] = Leaf("secret")
      /\ o["channelChains"] = list
      /\ o["metadata"] = Leaf(m)
  OBVIOUS
<1>2. "Identity" \in Types /\ FieldsOf("Identity") = {f1, f2, f3, f4, f5}
  BY IdentityFields
<1>3. /\ f1.name = "name" /\ ~Embedded(f1) /\ ~Repeated(f1)
      /\ f2.name = "publicKey" /\ ~Embedded(f2) /\ ~Repeated(f2)
      /\ f3.name = "secretKey" /\ ~Embedded(f3) /\ ~Repeated(f3)
      /\ f4.name = "channelChains" /\ Embedded(f4) /\ Repeated(f4) /\ f4.type = "ChannelChain"
      /\ f5.name = "metadata" /\ ~Embedded(f5) /\ ~Repeated(f5)
  BY FieldParts
<1> HIDE DEF o, f1, f2, f3, f4, f5
<1>4. /\ Listed(f1, Leaf("name"))
      /\ Listed(f2, Leaf("a"))
      /\ Listed(f3, Leaf("secret"))
      /\ Listed(f4, list)
      /\ \A p \in Within(f4, list) : Exact3(p[1], p[2])
      /\ Listed(f5, Leaf(m))
  BY <1>3, LeafListed, ObjectsListed
<1>5. Shaped("Identity", o)
  BY <1>1, <1>2, <1>3, <1>4 DEF Shaped, Names
<1>6. ASSUME NEW p \in Inside("Identity", o) PROVE Exact3(p[1], p[2])
  BY <1>1, <1>2, <1>3, <1>4 DEF Inside
<1>7. Exact4("Identity", o)
  BY <1>5, <1>6 DEF Exact4
<1> QED
  BY <1>7 DEF o

\* Exact: a packet with one of its members.
LEMMA PacketExact ==
  ASSUME NEW f \in FieldsOf("Packet"), NEW p, Exact1(f.type, p), NEW o, DOMAIN o = {f.name},
         o = [name \in DOMAIN o |-> o[name]], o[f.name] = Object(p)
  PROVE  Exact2("Packet", o)
<1>1. /\ "Packet" \in Types /\ \A g \in FieldsOf("Packet") : Embedded(g) /\ ~Repeated(g)
  BY PacketFields, FieldParts
<1>2. \A g \in FieldsOf("Packet") : g.name = f.name => g = f
  BY PacketFields, FieldParts
<1>3. Listed(f, Object(p)) /\ Within(f, Object(p)) = {<<f.type, p>>}
  BY <1>1, ObjectListed
<1>4. Shaped("Packet", o)
  BY <1>1, <1>2, <1>3 DEF Shaped, Names
<1>5. ASSUME NEW q \in Inside("Packet", o) PROVE Exact1(q[1], q[2])
  BY <1>1, <1>2, <1>3 DEF Inside
<1> QED
  BY <1>4, <1>5 DEF Exact2

-----------------------------------------------------------------------------
\* What the library encodes is exact, but for requests and responses.

\* An object that is exact up to the first level is exact.
LEMMA RaiseAll == ASSUME NEW type, NEW o, Exact1(type, o) PROVE Exact(type, o)
BY Raise1, Raise2, Raise3, Raise4, Raise5

\* A chain is a sequence of links.
LEMMA ChainsAre ==
  ASSUME NEW c \in Chains
  PROVE  c \in Seq(ObjectValues(LinkOut({"a", "b"})))
BY ListsAre DEF Chains

\* The chain of the root of a channel is empty.
LEMMA EmptyChain == << >> \in Chains
<1>1. << >> \in [1..0 -> ObjectValues(LinkOut({"a", "b"}))] /\ 0 \in 0..MaxList
  BY WireAssumption
<1> QED
  BY <1>1 DEF Chains, Lists

\* What Message.serialize() builds is exact.
LEMMA MessageOutExact ==
  ASSUME NEW m \in MessageOut
  PROVE  Exact4("ChannelMessage", m)
<1>1. Exact3("MessageTBS", RootTBS)
  <2>1. /\ << >> \in Seq(LeafValues({})) /\ << >> \in Seq(ObjectValues(LinkOut({})))
    OBVIOUS
  <2> QED
    BY <2>1, RootBodyExact, MessageTBSExact DEF RootTBS
<1>2. ASSUME NEW ps \in Lists(LeafValues({"h1", "h2"})), NEW c \in Chains
      PROVE  Exact3("MessageTBS", TextTBS(ps, c))
  BY ListsAre, ChainsAre, JsonBodyExact, MessageTBSExact DEF TextTBS
<1>3. \/ m = MessageWith(RootTBS)
      \/ \E ps \in Lists(LeafValues({"h1", "h2"})), c \in Chains : m = MessageWith(TextTBS(ps, c))
  BY DEF MessageOut
<1> QED
  BY <1>1, <1>2, <1>3, ChannelMessageExact DEF MessageWith

\* What an invite holds is exact.
LEMMA InviteOutExact ==
  ASSUME NEW o \in InviteOut
  PROVE  Exact3("Invite", o)
<1>1. PICK c \in Chains : o = [channelPubKey |-> Leaf("key"), channelName |-> Leaf("name"), chain |-> c]
  BY DEF InviteOut
<1> QED
  BY <1>1, ChainsAre, InviteExact

\* A chain in an identity is exact.
LEMMA ChannelChainOutExact ==
  ASSUME NEW o \in ChannelChainOut
  PROVE  Exact3("ChannelChain", o)
<1>1. PICK c \in Chains : o = [channelId |-> Leaf("channel"), links |-> c]
  BY DEF ChannelChainOut
<1> QED
  BY <1>1, ChainsAre, ChannelChainExact

\* The chains of an identity: of its own channel, which is a root, and of one that
\* it was invited to.
OwnChains == ChannelChainOut \cup {[channelId |-> Leaf("own channel"), links |-> << >>]}

\* Lists of at most two values.
LEMMA ShortLists ==
  ASSUME NEW S, NEW a \in S, NEW b \in S
  PROVE  << >> \in Seq(S) /\ <<a>> \in Seq(S) /\ <<a, b>> \in Seq(S)
OBVIOUS

\* A stored identity has a list of chains, all of which may come next.
LEMMA IdentityOutIs ==
  ASSUME NEW o \in IdentityOut
  PROVE  \E list \in Seq(ObjectValues(OwnChains)) : \E m : o = IdentityWith(list, m)
<1>1. PICK cs, m : /\ o = IdentityWith(cs, m)
                   /\ cs \in {<< >>} \cup UNION {{<<c>>, <<OwnChannel, c>>} :
                                                c \in ObjectValues(ChannelChainOut)}
  BY DEF IdentityOut
<1>2. ObjectValues(ChannelChainOut) \subseteq ObjectValues(OwnChains) /\ OwnChannel \in ObjectValues(OwnChains)
  BY DEF ObjectValues, OwnChains, OwnChannel
<1> DEFINE Every == ObjectValues(OwnChains)
           From == ObjectValues(ChannelChainOut)
<1>4. cs \in {<< >>} \cup UNION {{<<c>>, <<OwnChannel, c>>} : c \in From}
  BY <1>1
<1>5. From \subseteq Every /\ OwnChannel \in Every
  BY <1>2
<1> HIDE DEF Every, From
<1>6. cs = << >> \/ \E c \in From : cs = <<c>> \/ cs = <<OwnChannel, c>>
  BY <1>4, Zenon
<1>3. cs \in Seq(Every)
  BY <1>5, <1>6, ShortLists
<1> USE DEF Every
<1> QED
  BY <1>1, <1>3

\* What Identity.serialize() builds is exact.
LEMMA IdentityOutExact ==
  ASSUME NEW o \in IdentityOut
  PROVE  Exact4("Identity", o)
<1>0. PICK list \in Seq(ObjectValues(OwnChains)) : \E m : o = IdentityWith(list, m)
  BY IdentityOutIs
<1>1. PICK m : o = IdentityWith(list, m)
  BY <1>0
<1>2. ASSUME NEW c \in OwnChains PROVE Exact3("ChannelChain", c)
  <2>1. CASE c \in ChannelChainOut
    BY <2>1, ChannelChainOutExact
  <2>2. CASE c = [channelId |-> Leaf("own channel"), links |-> << >>]
    <3>1. << >> \in Seq(ObjectValues(LinkOut({})))
      OBVIOUS
    <3> QED
      BY <2>2, <3>1, ChannelChainExact
  <2> QED
    BY <2>1, <2>2 DEF OwnChains
<1> QED
  BY <1>1, <1>2, IdentityExact DEF IdentityWith

\* Every packet of Peer is exact.
LEMMA PacketOutExact ==
  ASSUME NEW o \in PacketOut
  PROVE  Exact2("Packet", o)
<1> DEFINE Packed(f, p) == /\ f \in FieldsOf("Packet") /\ Exact1(f.type, p)
                           /\ DOMAIN o = {f.name} /\ o = [name \in DOMAIN o |-> o[name]]
                           /\ o[f.name] = Object(p)
<1> SUFFICES \E f, p : Packed(f, p)
  BY PacketExact
<1>1. CASE o = [error |-> Object([reason |-> Leaf("why")])]
  <2> DEFINE p == [reason |-> Leaf("why")]
  <2>1. Exact1("Error", p)
    BY ErrorFields, FieldParts, PlainExact DEF Names
  <2> HIDE DEF p
  <2>2. Packed(Sub(1, "error", "Error"), p)
    BY <1>1, <2>1, PacketFields, FieldParts DEF p
  <2> QED
    BY <2>2
<1>2. CASE o = [invite |-> Object([requestId |-> Leaf("id"), box |-> Leaf("box")])]
  <2> DEFINE p == [requestId |-> Leaf("id"), box |-> Leaf("box")]
  <2>1. Exact1("EncryptedInvite", p)
    BY EncryptedInviteFields, FieldParts, PlainExact DEF Names
  <2> HIDE DEF p
  <2>2. Packed(Sub(2, "invite", "EncryptedInvite"), p)
    BY <1>2, <2>1, PacketFields, FieldParts DEF p
  <2> QED
    BY <2>2
<1>3. CASE o = [notification |-> Object([channelId |-> Leaf("channel")])]
  <2> DEFINE p == [channelId |-> Leaf("channel")]
  <2>1. Exact1("Notification", p)
    BY NotificationFields, FieldParts, PlainExact DEF Names
  <2> HIDE DEF p
  <2>2. Packed(Sub(5, "notification", "Notification"), p)
    BY <1>3, <2>1, PacketFields, FieldParts DEF p
  <2> QED
    BY <2>2
<1>4. ASSUME NEW s, o = [ping |-> Object([seq |-> Leaf(s)])]
      PROVE  \E f, p : Packed(f, p)
  <2> DEFINE p == [seq |-> Leaf(s)]
  <2>1. Exact1("Ping", p)
    BY PingFields, FieldParts, PlainExact DEF Names
  <2> HIDE DEF p
  <2>2. Packed(Sub(6, "ping", "Ping"), p)
    BY <1>4, <2>1, PacketFields, FieldParts DEF p
  <2> QED
    BY <2>2
<1>5. ASSUME NEW s, o = [pong |-> Object([seq |-> Leaf(s)])]
      PROVE  \E f, p : Packed(f, p)
  <2> DEFINE p == [seq |-> Leaf(s)]
  <2>1. Exact1("Pong", p)
    BY PongFields, FieldParts, PlainExact DEF Names
  <2> HIDE DEF p
  <2>2. Packed(Sub(7, "pong", "Pong"), p)
    BY <1>5, <2>1, PacketFields, FieldParts DEF p
  <2> QED
    BY <2>2
<1>6. ASSUME NEW s, o = [syncRequest |-> Object([channelId |-> Leaf("channel"), seq |-> Leaf(s),
                                                 nonce |-> Leaf("nonce"), box |-> Leaf("box")])]
      PROVE  \E f, p : Packed(f, p)
  <2> DEFINE p == [channelId |-> Leaf("channel"), seq |-> Leaf(s), nonce |-> Leaf("nonce"),
                   box |-> Leaf("box")]
  <2>1. Exact1("SyncRequest", p)
    BY SyncRequestFields, FieldParts, PlainExact DEF Names
  <2> HIDE DEF p
  <2>2. Packed(Sub(3, "syncRequest", "SyncRequest"), p)
    BY <1>6, <2>1, PacketFields, FieldParts DEF p
  <2> QED
    BY <2>2
<1>7. ASSUME NEW s, o = [syncResponse |-> Object([channelId |-> Leaf("channel"), seq |-> Leaf(s)])]
      PROVE  \E f, p : Packed(f, p)
  <2> DEFINE p == [channelId |-> Leaf("channel"), seq |-> Leaf(s)]
  <2>1. Exact1("SyncResponse", p)
    BY SyncResponseFields, FieldParts, PlainExact DEF Names
  <2> HIDE DEF p
  <2>2. Packed(Sub(4, "syncResponse", "SyncResponse"), p)
    BY <1>7, <2>1, PacketFields, FieldParts DEF p
  <2> QED
    BY <2>2
<1>8. ASSUME NEW s, o = [syncResponse |-> Object([channelId |-> Leaf("channel"),
                                                  seq |-> Leaf(s), box |-> Leaf("box")])]
      PROVE  \E f, p : Packed(f, p)
  <2> DEFINE p == [channelId |-> Leaf("channel"), seq |-> Leaf(s), box |-> Leaf("box")]
  <2>1. Exact1("SyncResponse", p)
    BY SyncResponseFields, FieldParts, PlainExact DEF Names
  <2> HIDE DEF p
  <2>2. Packed(Sub(4, "syncResponse", "SyncResponse"), p)
    BY <1>8, <2>1, PacketFields, FieldParts DEF p
  <2> QED
    BY <2>2
<1> HIDE DEF Packed
<1> QED
  BY <1>1, <1>2, <1>3, <1>4, <1>5, <1>6, <1>7, <1>8 DEF PacketOut
\* What the library builds, by type.
LEMMA OutIs ==
  /\ Out("Hello") = HelloOut /\ Out("Shake") = ShakeOut /\ Out("Packet") = PacketOut
  /\ Out("ResponseContent") = ResponseOut /\ Out("ChannelMessage") = MessageOut
  /\ Out("Invite") = InviteOut /\ Out("InviteRequest") = InviteRequestOut
  /\ Out("Identity") = IdentityOut /\ Out("Channel") = ChannelOut
BY DEF Out

\* The types whose objects have no property that their codec leaves out.
Whole == Kinds \ {"RequestContent", "ResponseContent"}

\* An object of such a type, as the library builds it, is exact.
LEMMA SentExact ==
  ASSUME NEW type \in Whole, NEW o \in Out(type)
  PROVE  Exact(type, o)
<1>1. ASSUME type = "Hello" PROVE Exact(type, o)
  BY <1>1, OutIs, HelloExact, RaiseAll DEF HelloOut
<1>2. ASSUME type = "Shake" PROVE Exact(type, o)
  BY <1>2, OutIs, ShakeExact, RaiseAll DEF ShakeOut
<1>3. ASSUME type = "Packet" PROVE Exact(type, o)
  BY <1>3, OutIs, PacketOutExact, Raise2, Raise3, Raise4, Raise5
<1>4. ASSUME type = "ChannelMessage" PROVE Exact(type, o)
  BY <1>4, OutIs, MessageOutExact, Raise4, Raise5
<1>5. ASSUME type = "Invite" PROVE Exact(type, o)
  BY <1>5, OutIs, InviteOutExact, Raise3, Raise4, Raise5
<1>6. ASSUME type = "InviteRequest" PROVE Exact(type, o)
  BY <1>6, OutIs, InviteRequestExact, RaiseAll DEF InviteRequestOut
<1>7. ASSUME type = "Identity" PROVE Exact(type, o)
  BY <1>7, OutIs, IdentityOutExact, Raise4, Raise5
<1>8. ASSUME type = "Channel" PROVE Exact(type, o)
  BY <1>8, OutIs, ChannelExact, RaiseAll DEF ChannelOut
<1> QED
  BY <1>1, <1>2, <1>3, <1>4, <1>5, <1>6, <1>7, <1>8 DEF Whole, Kinds

-----------------------------------------------------------------------------
\* Two objects that are told apart neither by encode() nor by reading them.  A query
\* and a bulk query carry properties that their codecs do not know, and a request
\* without a chain decodes with an empty one.

AlikeAt(Nested(_, _, _), f, a, b) ==
  \/ f.name \notin DOMAIN a /\ f.name \notin DOMAIN b
  \/ f.name \in DOMAIN a /\ f.name \in DOMAIN b /\ a[f.name] = b[f.name]
  \/ Repeated(f) /\ f.name \notin DOMAIN a /\ f.name \in DOMAIN b /\ b[f.name] = << >>
  \/ /\ f.name \in DOMAIN a /\ f.name \in DOMAIN b /\ Embedded(f)
     /\ \E x, y : a[f.name] = Object(x) /\ b[f.name] = Object(y) /\ Nested(f.type, x, y)
Alike0(type, a, b) == FALSE
Alike1(type, a, b) ==
  /\ type \in Types /\ Which(type, a) = Which(type, b)
  /\ \A f \in FieldsOf(type) : AlikeAt(Alike0, f, a, b)
Alike2(type, a, b) ==
  /\ type \in Types /\ Which(type, a) = Which(type, b)
  /\ \A f \in FieldsOf(type) : AlikeAt(Alike1, f, a, b)
Alike3(type, a, b) ==
  /\ type \in Types /\ Which(type, a) = Which(type, b)
  /\ \A f \in FieldsOf(type) : AlikeAt(Alike2, f, a, b)
Alike4(type, a, b) ==
  /\ type \in Types /\ Which(type, a) = Which(type, b)
  /\ \A f \in FieldsOf(type) : AlikeAt(Alike3, f, a, b)
Alike5(type, a, b) ==
  /\ type \in Types /\ Which(type, a) = Which(type, b)
  /\ \A f \in FieldsOf(type) : AlikeAt(Alike4, f, a, b)
Alike(type, a, b) ==
  /\ type \in Types /\ Which(type, a) = Which(type, b)
  /\ \A f \in FieldsOf(type) : AlikeAt(Alike5, f, a, b)

\* Objects that are alike up to some level are alike up to the next.
LEMMA RaiseAlike1 ==
  ASSUME NEW type, NEW a, NEW b, Alike1(type, a, b) PROVE Alike2(type, a, b)
<1>1. ASSUME NEW f \in FieldsOf(type), AlikeAt(Alike0, f, a, b) PROVE AlikeAt(Alike1, f, a, b)
  BY <1>1 DEF AlikeAt, Alike0
<1>2. \A f \in FieldsOf(type) : AlikeAt(Alike0, f, a, b)
  BY DEF Alike1
<1>3. type \in Types /\ Which(type, a) = Which(type, b)
  BY DEF Alike1
<1> QED
  BY <1>1, <1>2, <1>3 DEF Alike2

LEMMA RaiseAlike2 ==
  ASSUME NEW type, NEW a, NEW b, Alike2(type, a, b) PROVE Alike3(type, a, b)
<1>1. ASSUME NEW f \in FieldsOf(type), AlikeAt(Alike1, f, a, b) PROVE AlikeAt(Alike2, f, a, b)
  BY <1>1, RaiseAlike1 DEF AlikeAt
<1>2. \A f \in FieldsOf(type) : AlikeAt(Alike1, f, a, b)
  BY DEF Alike2
<1>3. type \in Types /\ Which(type, a) = Which(type, b)
  BY DEF Alike2
<1> QED
  BY <1>1, <1>2, <1>3 DEF Alike3

LEMMA RaiseAlike3 ==
  ASSUME NEW type, NEW a, NEW b, Alike3(type, a, b) PROVE Alike4(type, a, b)
<1>1. ASSUME NEW f \in FieldsOf(type), AlikeAt(Alike2, f, a, b) PROVE AlikeAt(Alike3, f, a, b)
  BY <1>1, RaiseAlike2 DEF AlikeAt
<1>2. \A f \in FieldsOf(type) : AlikeAt(Alike2, f, a, b)
  BY DEF Alike3
<1>3. type \in Types /\ Which(type, a) = Which(type, b)
  BY DEF Alike3
<1> QED
  BY <1>1, <1>2, <1>3 DEF Alike4

LEMMA RaiseAlike4 ==
  ASSUME NEW type, NEW a, NEW b, Alike4(type, a, b) PROVE Alike5(type, a, b)
<1>1. ASSUME NEW f \in FieldsOf(type), AlikeAt(Alike3, f, a, b) PROVE AlikeAt(Alike4, f, a, b)
  BY <1>1, RaiseAlike3 DEF AlikeAt
<1>2. \A f \in FieldsOf(type) : AlikeAt(Alike3, f, a, b)
  BY DEF Alike4
<1>3. type \in Types /\ Which(type, a) = Which(type, b)
  BY DEF Alike4
<1> QED
  BY <1>1, <1>2, <1>3 DEF Alike5

LEMMA RaiseAlike5 ==
  ASSUME NEW type, NEW a, NEW b, Alike5(type, a, b) PROVE Alike(type, a, b)
<1>1. ASSUME NEW f \in FieldsOf(type), AlikeAt(Alike4, f, a, b) PROVE AlikeAt(Alike5, f, a, b)
  BY <1>1, RaiseAlike4 DEF AlikeAt
<1>2. \A f \in FieldsOf(type) : AlikeAt(Alike4, f, a, b)
  BY DEF Alike5
<1>3. type \in Types /\ Which(type, a) = Which(type, b)
  BY DEF Alike5
<1> QED
  BY <1>1, <1>2, <1>3 DEF Alike

\* Objects that are alike up to the first level are alike.
LEMMA RaiseAlike == ASSUME NEW type, NEW a, NEW b, Alike1(type, a, b) PROVE Alike(type, a, b)
<1>1. Alike2(type, a, b)
  BY RaiseAlike1
<1>2. Alike3(type, a, b)
  BY <1>1, RaiseAlike2
<1>3. Alike4(type, a, b)
  BY <1>2, RaiseAlike3
<1>4. Alike5(type, a, b)
  BY <1>3, RaiseAlike4
<1> QED
  BY <1>4, RaiseAlike5

\* A value with a message within.
LEMMA ObjectIs ==
  ASSUME NEW x
  PROVE  /\ DOMAIN Object(x) = {1} /\ Object(x)[1].obj = x /\ Object(x)[1].leaf = Blank
BY DEF Object

\* The empty list has no elements.
LEMMA EmptyDomain == DOMAIN << >> = {}
OBVIOUS

\* encode() writes the same for objects that are alike, level by level.
LEMMA EncodeAlike1 ==
  ASSUME NEW type, NEW a, NEW b, Alike1(type, a, b)
  PROVE  Encode1(type, a) = Encode1(type, b)
<1>1. ASSUME NEW f \in FieldsOf(type)
      PROVE  Written(Encode0, f, a) = Written(Encode0, f, b)
  <2>1. AlikeAt(Alike0, f, a, b)
    BY DEF Alike1
  <2>2. ASSUME NEW x, NEW y, f.name \in DOMAIN a, f.name \in DOMAIN b, Embedded(f),
               a[f.name] = Object(x), b[f.name] = Object(y), Alike0(f.type, x, y)
        PROVE  Written(Encode0, f, a) = Written(Encode0, f, b)
    <3>1. Encode0(f.type, x) = Encode0(f.type, y)
      BY <2>2 DEF Alike0
    <3> QED
      BY <2>2, <3>1, ObjectIs DEF Written
  <2>3. CASE f.name \notin DOMAIN a /\ f.name \notin DOMAIN b
    BY <2>3 DEF Written
  <2>4. CASE f.name \in DOMAIN a /\ f.name \in DOMAIN b /\ a[f.name] = b[f.name]
    BY <2>4 DEF Written
  <2>5. CASE f.name \notin DOMAIN a /\ f.name \in DOMAIN b /\ b[f.name] = << >>
    BY <2>5, EmptyDomain DEF Written
  <2> QED
    BY <2>1, <2>2, <2>3, <2>4, <2>5 DEF AlikeAt
<1>2. \A i \in DOMAIN Fields(type) : Fields(type)[i] \in FieldsOf(type)
  BY IndexOf
<1>3. [i \in DOMAIN Fields(type) |-> Written(Encode0, Fields(type)[i], a)]
      = [i \in DOMAIN Fields(type) |-> Written(Encode0, Fields(type)[i], b)]
  BY <1>1, <1>2
<1> QED
  BY <1>3 DEF Encode1, EncodeBy

LEMMA EncodeAlike2 ==
  ASSUME NEW type, NEW a, NEW b, Alike2(type, a, b)
  PROVE  Encode2(type, a) = Encode2(type, b)
<1>1. ASSUME NEW f \in FieldsOf(type)
      PROVE  Written(Encode1, f, a) = Written(Encode1, f, b)
  <2>1. AlikeAt(Alike1, f, a, b)
    BY DEF Alike2
  <2>2. ASSUME NEW x, NEW y, f.name \in DOMAIN a, f.name \in DOMAIN b, Embedded(f),
               a[f.name] = Object(x), b[f.name] = Object(y), Alike1(f.type, x, y)
        PROVE  Written(Encode1, f, a) = Written(Encode1, f, b)
    <3>1. Encode1(f.type, x) = Encode1(f.type, y)
      BY <2>2, EncodeAlike1
    <3> QED
      BY <2>2, <3>1, ObjectIs DEF Written
  <2>3. CASE f.name \notin DOMAIN a /\ f.name \notin DOMAIN b
    BY <2>3 DEF Written
  <2>4. CASE f.name \in DOMAIN a /\ f.name \in DOMAIN b /\ a[f.name] = b[f.name]
    BY <2>4 DEF Written
  <2>5. CASE f.name \notin DOMAIN a /\ f.name \in DOMAIN b /\ b[f.name] = << >>
    BY <2>5, EmptyDomain DEF Written
  <2> QED
    BY <2>1, <2>2, <2>3, <2>4, <2>5 DEF AlikeAt
<1>2. \A i \in DOMAIN Fields(type) : Fields(type)[i] \in FieldsOf(type)
  BY IndexOf
<1>3. [i \in DOMAIN Fields(type) |-> Written(Encode1, Fields(type)[i], a)]
      = [i \in DOMAIN Fields(type) |-> Written(Encode1, Fields(type)[i], b)]
  BY <1>1, <1>2
<1> QED
  BY <1>3 DEF Encode2, EncodeBy

LEMMA EncodeAlike3 ==
  ASSUME NEW type, NEW a, NEW b, Alike3(type, a, b)
  PROVE  Encode3(type, a) = Encode3(type, b)
<1>1. ASSUME NEW f \in FieldsOf(type)
      PROVE  Written(Encode2, f, a) = Written(Encode2, f, b)
  <2>1. AlikeAt(Alike2, f, a, b)
    BY DEF Alike3
  <2>2. ASSUME NEW x, NEW y, f.name \in DOMAIN a, f.name \in DOMAIN b, Embedded(f),
               a[f.name] = Object(x), b[f.name] = Object(y), Alike2(f.type, x, y)
        PROVE  Written(Encode2, f, a) = Written(Encode2, f, b)
    <3>1. Encode2(f.type, x) = Encode2(f.type, y)
      BY <2>2, EncodeAlike2
    <3> QED
      BY <2>2, <3>1, ObjectIs DEF Written
  <2>3. CASE f.name \notin DOMAIN a /\ f.name \notin DOMAIN b
    BY <2>3 DEF Written
  <2>4. CASE f.name \in DOMAIN a /\ f.name \in DOMAIN b /\ a[f.name] = b[f.name]
    BY <2>4 DEF Written
  <2>5. CASE f.name \notin DOMAIN a /\ f.name \in DOMAIN b /\ b[f.name] = << >>
    BY <2>5, EmptyDomain DEF Written
  <2> QED
    BY <2>1, <2>2, <2>3, <2>4, <2>5 DEF AlikeAt
<1>2. \A i \in DOMAIN Fields(type) : Fields(type)[i] \in FieldsOf(type)
  BY IndexOf
<1>3. [i \in DOMAIN Fields(type) |-> Written(Encode2, Fields(type)[i], a)]
      = [i \in DOMAIN Fields(type) |-> Written(Encode2, Fields(type)[i], b)]
  BY <1>1, <1>2
<1> QED
  BY <1>3 DEF Encode3, EncodeBy

LEMMA EncodeAlike4 ==
  ASSUME NEW type, NEW a, NEW b, Alike4(type, a, b)
  PROVE  Encode4(type, a) = Encode4(type, b)
<1>1. ASSUME NEW f \in FieldsOf(type)
      PROVE  Written(Encode3, f, a) = Written(Encode3, f, b)
  <2>1. AlikeAt(Alike3, f, a, b)
    BY DEF Alike4
  <2>2. ASSUME NEW x, NEW y, f.name \in DOMAIN a, f.name \in DOMAIN b, Embedded(f),
               a[f.name] = Object(x), b[f.name] = Object(y), Alike3(f.type, x, y)
        PROVE  Written(Encode3, f, a) = Written(Encode3, f, b)
    <3>1. Encode3(f.type, x) = Encode3(f.type, y)
      BY <2>2, EncodeAlike3
    <3> QED
      BY <2>2, <3>1, ObjectIs DEF Written
  <2>3. CASE f.name \notin DOMAIN a /\ f.name \notin DOMAIN b
    BY <2>3 DEF Written
  <2>4. CASE f.name \in DOMAIN a /\ f.name \in DOMAIN b /\ a[f.name] = b[f.name]
    BY <2>4 DEF Written
  <2>5. CASE f.name \notin DOMAIN a /\ f.name \in DOMAIN b /\ b[f.name] = << >>
    BY <2>5, EmptyDomain DEF Written
  <2> QED
    BY <2>1, <2>2, <2>3, <2>4, <2>5 DEF AlikeAt
<1>2. \A i \in DOMAIN Fields(type) : Fields(type)[i] \in FieldsOf(type)
  BY IndexOf
<1>3. [i \in DOMAIN Fields(type) |-> Written(Encode3, Fields(type)[i], a)]
      = [i \in DOMAIN Fields(type) |-> Written(Encode3, Fields(type)[i], b)]
  BY <1>1, <1>2
<1> QED
  BY <1>3 DEF Encode4, EncodeBy

LEMMA EncodeAlike5 ==
  ASSUME NEW type, NEW a, NEW b, Alike5(type, a, b)
  PROVE  Encode5(type, a) = Encode5(type, b)
<1>1. ASSUME NEW f \in FieldsOf(type)
      PROVE  Written(Encode4, f, a) = Written(Encode4, f, b)
  <2>1. AlikeAt(Alike4, f, a, b)
    BY DEF Alike5
  <2>2. ASSUME NEW x, NEW y, f.name \in DOMAIN a, f.name \in DOMAIN b, Embedded(f),
               a[f.name] = Object(x), b[f.name] = Object(y), Alike4(f.type, x, y)
        PROVE  Written(Encode4, f, a) = Written(Encode4, f, b)
    <3>1. Encode4(f.type, x) = Encode4(f.type, y)
      BY <2>2, EncodeAlike4
    <3> QED
      BY <2>2, <3>1, ObjectIs DEF Written
  <2>3. CASE f.name \notin DOMAIN a /\ f.name \notin DOMAIN b
    BY <2>3 DEF Written
  <2>4. CASE f.name \in DOMAIN a /\ f.name \in DOMAIN b /\ a[f.name] = b[f.name]
    BY <2>4 DEF Written
  <2>5. CASE f.name \notin DOMAIN a /\ f.name \in DOMAIN b /\ b[f.name] = << >>
    BY <2>5, EmptyDomain DEF Written
  <2> QED
    BY <2>1, <2>2, <2>3, <2>4, <2>5 DEF AlikeAt
<1>2. \A i \in DOMAIN Fields(type) : Fields(type)[i] \in FieldsOf(type)
  BY IndexOf
<1>3. [i \in DOMAIN Fields(type) |-> Written(Encode4, Fields(type)[i], a)]
      = [i \in DOMAIN Fields(type) |-> Written(Encode4, Fields(type)[i], b)]
  BY <1>1, <1>2
<1> QED
  BY <1>3 DEF Encode5, EncodeBy

LEMMA EncodeAlike6 ==
  ASSUME NEW type, NEW a, NEW b, Alike(type, a, b)
  PROVE  Encode(type, a) = Encode(type, b)
<1>1. ASSUME NEW f \in FieldsOf(type)
      PROVE  Written(Encode5, f, a) = Written(Encode5, f, b)
  <2>1. AlikeAt(Alike5, f, a, b)
    BY DEF Alike
  <2>2. ASSUME NEW x, NEW y, f.name \in DOMAIN a, f.name \in DOMAIN b, Embedded(f),
               a[f.name] = Object(x), b[f.name] = Object(y), Alike5(f.type, x, y)
        PROVE  Written(Encode5, f, a) = Written(Encode5, f, b)
    <3>1. Encode5(f.type, x) = Encode5(f.type, y)
      BY <2>2, EncodeAlike5
    <3> QED
      BY <2>2, <3>1, ObjectIs DEF Written
  <2>3. CASE f.name \notin DOMAIN a /\ f.name \notin DOMAIN b
    BY <2>3 DEF Written
  <2>4. CASE f.name \in DOMAIN a /\ f.name \in DOMAIN b /\ a[f.name] = b[f.name]
    BY <2>4 DEF Written
  <2>5. CASE f.name \notin DOMAIN a /\ f.name \in DOMAIN b /\ b[f.name] = << >>
    BY <2>5, EmptyDomain DEF Written
  <2> QED
    BY <2>1, <2>2, <2>3, <2>4, <2>5 DEF AlikeAt
<1>2. \A i \in DOMAIN Fields(type) : Fields(type)[i] \in FieldsOf(type)
  BY IndexOf
<1>3. [i \in DOMAIN Fields(type) |-> Written(Encode5, Fields(type)[i], a)]
      = [i \in DOMAIN Fields(type) |-> Written(Encode5, Fields(type)[i], b)]
  BY <1>1, <1>2
<1> QED
  BY <1>3 DEF Encode, EncodeBy

\* Objects that are alike read the same, level by level.
LEMMA ReadsAlike1 ==
  ASSUME NEW type, NEW a, NEW b, Alike1(type, a, b)
  PROVE  Reads1(type, a) = Reads1(type, b)
<1> DEFINE Seen(f, list) ==
             [k \in DOMAIN list |->
                IF Embedded(f) THEN [leaf |-> Blank, in |-> <<Reads0(f.type, list[k].obj)>>]
                ELSE [leaf |-> list[k].leaf, in |-> << >>]]
<1>1. ASSUME NEW f \in FieldsOf(type)
      PROVE  Seen(f, Get(type, a, f.name)) = Seen(f, Get(type, b, f.name))
  <2>1. AlikeAt(Alike0, f, a, b)
    BY DEF Alike1
  <2>2. ASSUME NEW x, NEW y, f.name \in DOMAIN a, f.name \in DOMAIN b, Embedded(f),
               a[f.name] = Object(x), b[f.name] = Object(y), Alike0(f.type, x, y)
        PROVE  Seen(f, Get(type, a, f.name)) = Seen(f, Get(type, b, f.name))
    <3>1. Reads0(f.type, x) = Reads0(f.type, y)
      BY <2>2 DEF Alike0
    <3>2. Get(type, a, f.name) = Object(x) /\ Get(type, b, f.name) = Object(y)
      BY <2>2 DEF Get
    <3> QED
      BY <2>2, <3>1, <3>2, ObjectIs
  <2>3. CASE f.name \notin DOMAIN a /\ f.name \notin DOMAIN b
    BY <2>3 DEF Get
  <2>4. CASE f.name \in DOMAIN a /\ f.name \in DOMAIN b /\ a[f.name] = b[f.name]
    BY <2>4 DEF Get
  <2>5. CASE Repeated(f) /\ f.name \notin DOMAIN a /\ f.name \in DOMAIN b /\ b[f.name] = << >>
    BY <2>5, NamedIs DEF Get, Default, Alike1
  <2> HIDE DEF Seen
  <2> QED
    BY <2>1, <2>2, <2>3, <2>4, <2>5 DEF AlikeAt
<1>2. \A i \in DOMAIN Fields(type) : Fields(type)[i] \in FieldsOf(type)
  BY IndexOf
<1> HIDE DEF Seen
<1>3. [i \in DOMAIN Fields(type) |-> Seen(Fields(type)[i], Get(type, a, Fields(type)[i].name))]
      = [i \in DOMAIN Fields(type) |-> Seen(Fields(type)[i], Get(type, b, Fields(type)[i].name))]
  BY <1>1, <1>2
<1>4. Which(type, a) = Which(type, b)
  BY DEF Alike1
<1> QED
  BY <1>3, <1>4 DEF Reads1, ReadsBy, Seen

LEMMA ReadsAlike2 ==
  ASSUME NEW type, NEW a, NEW b, Alike2(type, a, b)
  PROVE  Reads2(type, a) = Reads2(type, b)
<1> DEFINE Seen(f, list) ==
             [k \in DOMAIN list |->
                IF Embedded(f) THEN [leaf |-> Blank, in |-> <<Reads1(f.type, list[k].obj)>>]
                ELSE [leaf |-> list[k].leaf, in |-> << >>]]
<1>1. ASSUME NEW f \in FieldsOf(type)
      PROVE  Seen(f, Get(type, a, f.name)) = Seen(f, Get(type, b, f.name))
  <2>1. AlikeAt(Alike1, f, a, b)
    BY DEF Alike2
  <2>2. ASSUME NEW x, NEW y, f.name \in DOMAIN a, f.name \in DOMAIN b, Embedded(f),
               a[f.name] = Object(x), b[f.name] = Object(y), Alike1(f.type, x, y)
        PROVE  Seen(f, Get(type, a, f.name)) = Seen(f, Get(type, b, f.name))
    <3>1. Reads1(f.type, x) = Reads1(f.type, y)
      BY <2>2, ReadsAlike1
    <3>2. Get(type, a, f.name) = Object(x) /\ Get(type, b, f.name) = Object(y)
      BY <2>2 DEF Get
    <3> QED
      BY <2>2, <3>1, <3>2, ObjectIs
  <2>3. CASE f.name \notin DOMAIN a /\ f.name \notin DOMAIN b
    BY <2>3 DEF Get
  <2>4. CASE f.name \in DOMAIN a /\ f.name \in DOMAIN b /\ a[f.name] = b[f.name]
    BY <2>4 DEF Get
  <2>5. CASE Repeated(f) /\ f.name \notin DOMAIN a /\ f.name \in DOMAIN b /\ b[f.name] = << >>
    BY <2>5, NamedIs DEF Get, Default, Alike2
  <2> HIDE DEF Seen
  <2> QED
    BY <2>1, <2>2, <2>3, <2>4, <2>5 DEF AlikeAt
<1>2. \A i \in DOMAIN Fields(type) : Fields(type)[i] \in FieldsOf(type)
  BY IndexOf
<1> HIDE DEF Seen
<1>3. [i \in DOMAIN Fields(type) |-> Seen(Fields(type)[i], Get(type, a, Fields(type)[i].name))]
      = [i \in DOMAIN Fields(type) |-> Seen(Fields(type)[i], Get(type, b, Fields(type)[i].name))]
  BY <1>1, <1>2
<1>4. Which(type, a) = Which(type, b)
  BY DEF Alike2
<1> QED
  BY <1>3, <1>4 DEF Reads2, ReadsBy, Seen

LEMMA ReadsAlike3 ==
  ASSUME NEW type, NEW a, NEW b, Alike3(type, a, b)
  PROVE  Reads3(type, a) = Reads3(type, b)
<1> DEFINE Seen(f, list) ==
             [k \in DOMAIN list |->
                IF Embedded(f) THEN [leaf |-> Blank, in |-> <<Reads2(f.type, list[k].obj)>>]
                ELSE [leaf |-> list[k].leaf, in |-> << >>]]
<1>1. ASSUME NEW f \in FieldsOf(type)
      PROVE  Seen(f, Get(type, a, f.name)) = Seen(f, Get(type, b, f.name))
  <2>1. AlikeAt(Alike2, f, a, b)
    BY DEF Alike3
  <2>2. ASSUME NEW x, NEW y, f.name \in DOMAIN a, f.name \in DOMAIN b, Embedded(f),
               a[f.name] = Object(x), b[f.name] = Object(y), Alike2(f.type, x, y)
        PROVE  Seen(f, Get(type, a, f.name)) = Seen(f, Get(type, b, f.name))
    <3>1. Reads2(f.type, x) = Reads2(f.type, y)
      BY <2>2, ReadsAlike2
    <3>2. Get(type, a, f.name) = Object(x) /\ Get(type, b, f.name) = Object(y)
      BY <2>2 DEF Get
    <3> QED
      BY <2>2, <3>1, <3>2, ObjectIs
  <2>3. CASE f.name \notin DOMAIN a /\ f.name \notin DOMAIN b
    BY <2>3 DEF Get
  <2>4. CASE f.name \in DOMAIN a /\ f.name \in DOMAIN b /\ a[f.name] = b[f.name]
    BY <2>4 DEF Get
  <2>5. CASE Repeated(f) /\ f.name \notin DOMAIN a /\ f.name \in DOMAIN b /\ b[f.name] = << >>
    BY <2>5, NamedIs DEF Get, Default, Alike3
  <2> HIDE DEF Seen
  <2> QED
    BY <2>1, <2>2, <2>3, <2>4, <2>5 DEF AlikeAt
<1>2. \A i \in DOMAIN Fields(type) : Fields(type)[i] \in FieldsOf(type)
  BY IndexOf
<1> HIDE DEF Seen
<1>3. [i \in DOMAIN Fields(type) |-> Seen(Fields(type)[i], Get(type, a, Fields(type)[i].name))]
      = [i \in DOMAIN Fields(type) |-> Seen(Fields(type)[i], Get(type, b, Fields(type)[i].name))]
  BY <1>1, <1>2
<1>4. Which(type, a) = Which(type, b)
  BY DEF Alike3
<1> QED
  BY <1>3, <1>4 DEF Reads3, ReadsBy, Seen

LEMMA ReadsAlike4 ==
  ASSUME NEW type, NEW a, NEW b, Alike4(type, a, b)
  PROVE  Reads4(type, a) = Reads4(type, b)
<1> DEFINE Seen(f, list) ==
             [k \in DOMAIN list |->
                IF Embedded(f) THEN [leaf |-> Blank, in |-> <<Reads3(f.type, list[k].obj)>>]
                ELSE [leaf |-> list[k].leaf, in |-> << >>]]
<1>1. ASSUME NEW f \in FieldsOf(type)
      PROVE  Seen(f, Get(type, a, f.name)) = Seen(f, Get(type, b, f.name))
  <2>1. AlikeAt(Alike3, f, a, b)
    BY DEF Alike4
  <2>2. ASSUME NEW x, NEW y, f.name \in DOMAIN a, f.name \in DOMAIN b, Embedded(f),
               a[f.name] = Object(x), b[f.name] = Object(y), Alike3(f.type, x, y)
        PROVE  Seen(f, Get(type, a, f.name)) = Seen(f, Get(type, b, f.name))
    <3>1. Reads3(f.type, x) = Reads3(f.type, y)
      BY <2>2, ReadsAlike3
    <3>2. Get(type, a, f.name) = Object(x) /\ Get(type, b, f.name) = Object(y)
      BY <2>2 DEF Get
    <3> QED
      BY <2>2, <3>1, <3>2, ObjectIs
  <2>3. CASE f.name \notin DOMAIN a /\ f.name \notin DOMAIN b
    BY <2>3 DEF Get
  <2>4. CASE f.name \in DOMAIN a /\ f.name \in DOMAIN b /\ a[f.name] = b[f.name]
    BY <2>4 DEF Get
  <2>5. CASE Repeated(f) /\ f.name \notin DOMAIN a /\ f.name \in DOMAIN b /\ b[f.name] = << >>
    BY <2>5, NamedIs DEF Get, Default, Alike4
  <2> HIDE DEF Seen
  <2> QED
    BY <2>1, <2>2, <2>3, <2>4, <2>5 DEF AlikeAt
<1>2. \A i \in DOMAIN Fields(type) : Fields(type)[i] \in FieldsOf(type)
  BY IndexOf
<1> HIDE DEF Seen
<1>3. [i \in DOMAIN Fields(type) |-> Seen(Fields(type)[i], Get(type, a, Fields(type)[i].name))]
      = [i \in DOMAIN Fields(type) |-> Seen(Fields(type)[i], Get(type, b, Fields(type)[i].name))]
  BY <1>1, <1>2
<1>4. Which(type, a) = Which(type, b)
  BY DEF Alike4
<1> QED
  BY <1>3, <1>4 DEF Reads4, ReadsBy, Seen

LEMMA ReadsAlike5 ==
  ASSUME NEW type, NEW a, NEW b, Alike5(type, a, b)
  PROVE  Reads5(type, a) = Reads5(type, b)
<1> DEFINE Seen(f, list) ==
             [k \in DOMAIN list |->
                IF Embedded(f) THEN [leaf |-> Blank, in |-> <<Reads4(f.type, list[k].obj)>>]
                ELSE [leaf |-> list[k].leaf, in |-> << >>]]
<1>1. ASSUME NEW f \in FieldsOf(type)
      PROVE  Seen(f, Get(type, a, f.name)) = Seen(f, Get(type, b, f.name))
  <2>1. AlikeAt(Alike4, f, a, b)
    BY DEF Alike5
  <2>2. ASSUME NEW x, NEW y, f.name \in DOMAIN a, f.name \in DOMAIN b, Embedded(f),
               a[f.name] = Object(x), b[f.name] = Object(y), Alike4(f.type, x, y)
        PROVE  Seen(f, Get(type, a, f.name)) = Seen(f, Get(type, b, f.name))
    <3>1. Reads4(f.type, x) = Reads4(f.type, y)
      BY <2>2, ReadsAlike4
    <3>2. Get(type, a, f.name) = Object(x) /\ Get(type, b, f.name) = Object(y)
      BY <2>2 DEF Get
    <3> QED
      BY <2>2, <3>1, <3>2, ObjectIs
  <2>3. CASE f.name \notin DOMAIN a /\ f.name \notin DOMAIN b
    BY <2>3 DEF Get
  <2>4. CASE f.name \in DOMAIN a /\ f.name \in DOMAIN b /\ a[f.name] = b[f.name]
    BY <2>4 DEF Get
  <2>5. CASE Repeated(f) /\ f.name \notin DOMAIN a /\ f.name \in DOMAIN b /\ b[f.name] = << >>
    BY <2>5, NamedIs DEF Get, Default, Alike5
  <2> HIDE DEF Seen
  <2> QED
    BY <2>1, <2>2, <2>3, <2>4, <2>5 DEF AlikeAt
<1>2. \A i \in DOMAIN Fields(type) : Fields(type)[i] \in FieldsOf(type)
  BY IndexOf
<1> HIDE DEF Seen
<1>3. [i \in DOMAIN Fields(type) |-> Seen(Fields(type)[i], Get(type, a, Fields(type)[i].name))]
      = [i \in DOMAIN Fields(type) |-> Seen(Fields(type)[i], Get(type, b, Fields(type)[i].name))]
  BY <1>1, <1>2
<1>4. Which(type, a) = Which(type, b)
  BY DEF Alike5
<1> QED
  BY <1>3, <1>4 DEF Reads5, ReadsBy, Seen

LEMMA ReadsAlike6 ==
  ASSUME NEW type, NEW a, NEW b, Alike(type, a, b)
  PROVE  Reads(type, a) = Reads(type, b)
<1> DEFINE Seen(f, list) ==
             [k \in DOMAIN list |->
                IF Embedded(f) THEN [leaf |-> Blank, in |-> <<Reads5(f.type, list[k].obj)>>]
                ELSE [leaf |-> list[k].leaf, in |-> << >>]]
<1>1. ASSUME NEW f \in FieldsOf(type)
      PROVE  Seen(f, Get(type, a, f.name)) = Seen(f, Get(type, b, f.name))
  <2>1. AlikeAt(Alike5, f, a, b)
    BY DEF Alike
  <2>2. ASSUME NEW x, NEW y, f.name \in DOMAIN a, f.name \in DOMAIN b, Embedded(f),
               a[f.name] = Object(x), b[f.name] = Object(y), Alike5(f.type, x, y)
        PROVE  Seen(f, Get(type, a, f.name)) = Seen(f, Get(type, b, f.name))
    <3>1. Reads5(f.type, x) = Reads5(f.type, y)
      BY <2>2, ReadsAlike5
    <3>2. Get(type, a, f.name) = Object(x) /\ Get(type, b, f.name) = Object(y)
      BY <2>2 DEF Get
    <3> QED
      BY <2>2, <3>1, <3>2, ObjectIs
  <2>3. CASE f.name \notin DOMAIN a /\ f.name \notin DOMAIN b
    BY <2>3 DEF Get
  <2>4. CASE f.name \in DOMAIN a /\ f.name \in DOMAIN b /\ a[f.name] = b[f.name]
    BY <2>4 DEF Get
  <2>5. CASE Repeated(f) /\ f.name \notin DOMAIN a /\ f.name \in DOMAIN b /\ b[f.name] = << >>
    BY <2>5, NamedIs DEF Get, Default, Alike
  <2> HIDE DEF Seen
  <2> QED
    BY <2>1, <2>2, <2>3, <2>4, <2>5 DEF AlikeAt
<1>2. \A i \in DOMAIN Fields(type) : Fields(type)[i] \in FieldsOf(type)
  BY IndexOf
<1> HIDE DEF Seen
<1>3. [i \in DOMAIN Fields(type) |-> Seen(Fields(type)[i], Get(type, a, Fields(type)[i].name))]
      = [i \in DOMAIN Fields(type) |-> Seen(Fields(type)[i], Get(type, b, Fields(type)[i].name))]
  BY <1>1, <1>2
<1>4. Which(type, a) = Which(type, b)
  BY DEF Alike
<1> QED
  BY <1>3, <1>4 DEF Reads, ReadsBy, Seen

-----------------------------------------------------------------------------
\* What signatures cover, part by part.

\* What is covered is covered by a signature on a link of a chain, on a message, or on
\* the request.
LEMMA CoveredIs ==
  ASSUME NEW type, NEW o, NEW p
  PROVE  p \in Covered(type, o) <=>
           \/ \E c \in ChainsIn(type, o) : p \in Marks(LinkParts(c))
           \/ \E m \in MessagesIn(type, o) : p \in Marks(MessageParts(m))
           \/ type = "RequestContent"
              /\ p = <<Signature(type, o), Encode("RequestTBS", Tbs(type, o))>>
<1> DEFINE links == LinksOf(type, o)
           texts == MessagesOf(type, o)
           asked == RequestOf(type, o)
<1>1. Covered(type, o) = Marks(links \cup texts \cup asked)
  BY DEF Covered
<1>2. p \in Marks(links \cup texts \cup asked) <=> p \in Marks(links) \/ p \in Marks(texts) \/ p \in Marks(asked)
  BY DEF Marks
<1>3. p \in Marks(links) <=> \E c \in ChainsIn(type, o) : p \in Marks(LinkParts(c))
  BY DEF Marks, LinksOf
<1>4. p \in Marks(texts) <=> \E m \in MessagesIn(type, o) : p \in Marks(MessageParts(m))
  BY DEF Marks, MessagesOf
<1>5. p \in Marks(asked) <=>
        type = "RequestContent" /\ p = <<Signature(type, o), Encode("RequestTBS", Tbs(type, o))>>
  <2>1. CASE type = "RequestContent"
    <3>1. asked = {<<Signature(type, o), "RequestTBS", Tbs(type, o)>>}
      BY <2>1 DEF RequestOf
    <3> HIDE DEF asked
    <3> QED
      BY <2>1, <3>1 DEF Marks
  <2>2. CASE type # "RequestContent"
    <3>1. asked = {}
      BY <2>2 DEF RequestOf
    <3> HIDE DEF asked
    <3> QED
      BY <2>2, <3>1 DEF Marks
  <2> QED
    BY <2>1, <2>2
<1> HIDE DEF links, texts, asked
<1> QED
  BY <1>1, <1>2, <1>3, <1>4, <1>5

\* The chains in an object, by type.
LEMMA ChainsInAre ==
  ASSUME NEW o
  PROVE  /\ ChainsIn("Invite", o) = {Get("Invite", o, "chain")}
         /\ ChainsIn("RequestContent", o) = {Get("RequestTBS", Tbs("RequestContent", o), "chain")}
         /\ ChainsIn("Identity", o) =
              {Get("ChannelChain", c, "links") : c \in Elements(Get("Identity", o, "channelChains"))}
         /\ \A type \in Kinds \ {"Invite", "RequestContent", "Identity"} : ChainsIn(type, o) = {}
BY DEF ChainsIn, Kinds

\* The messages in an object, by type.
LEMMA MessagesInAre ==
  ASSUME NEW o
  PROVE  /\ MessagesIn("ChannelMessage", o) = {o}
         /\ "bulkResponse" \in DOMAIN o =>
              MessagesIn("ResponseContent", o) =
                Elements(Get("BulkResponse", o["bulkResponse"][1].obj, "messages"))
         /\ "bulkResponse" \notin DOMAIN o => MessagesIn("ResponseContent", o) = {}
         /\ \A type \in Kinds \ {"ChannelMessage", "ResponseContent"} : MessagesIn(type, o) = {}
BY DEF MessagesIn, Kinds

\* An object that decodes to itself, and stands for o in everything the receiver does.
Twin(type, o, x) ==
  /\ Exact(type, x) /\ Alike(type, o, x)
  /\ Covered(type, o) = Covered(type, x)
  /\ MessagesIn(type, o) = MessagesIn(type, x)
  /\ type \in Whole => x = o

\* The members of the oneofs that matter below.
LEMMA OneOfs ==
  /\ Schema["Query"].oneof = {"height", "hash"}
  /\ Schema["Bulk"].oneof = {} /\ Schema["BulkResponse"].oneof = {}
  /\ Schema["RequestContent"].oneof = {} /\ Schema["RequestTBS"].oneof = {"query", "bulk"}
  /\ Schema["ResponseContent"].oneof = {"queryResponse", "bulkResponse"}
<1>1. Schema["Query"].oneof = {"height", "hash"}
  <2>1. Schema["Query"] = Query
    BY DEF Schema
  <2> QED
    BY <2>1 DEF Query, Codec, Choice
<1>2. Schema["Bulk"].oneof = {}
  <2>1. Schema["Bulk"] = Bulk
    BY DEF Schema
  <2> QED
    BY <2>1 DEF Bulk, Codec, Choice
<1>3. Schema["BulkResponse"].oneof = {}
  <2>1. Schema["BulkResponse"] = BulkResponse
    BY DEF Schema
  <2> QED
    BY <2>1 DEF BulkResponse, Codec, Choice
<1>4. Schema["RequestContent"].oneof = {}
  <2>1. Schema["RequestContent"] = RequestContent
    BY DEF Schema
  <2> QED
    BY <2>1 DEF RequestContent, Codec, Choice
<1>5. Schema["RequestTBS"].oneof = {"query", "bulk"}
  <2>1. Schema["RequestTBS"] = RequestTBS
    BY DEF Schema
  <2> QED
    BY <2>1 DEF RequestTBS, Codec, Choice
<1>6. Schema["ResponseContent"].oneof = {"queryResponse", "bulkResponse"}
  <2>1. Schema["ResponseContent"] = ResponseContent
    BY DEF Schema
  <2> QED
    BY <2>1 DEF ResponseContent, Codec, Choice
<1> QED
  BY <1>1, <1>2, <1>3, <1>4, <1>5, <1>6

\* What travels is a message type.
LEMMA KindsAreTypes == Kinds \subseteq Types
BY HelloFields, ShakeFields, PacketFields, RequestContentFields, ResponseContentFields,
   ChannelMessageFields, InviteFields, InviteRequestFields, IdentityFields, ChannelFields DEF Kinds

\* An object is alike to itself.
LEMMA AlikeItself ==
  ASSUME NEW type \in Types, NEW o
  PROVE  Alike(type, o, o)
<1>1. \A f \in FieldsOf(type) : AlikeAt(Alike0, f, o, o)
  BY DEF AlikeAt
<1>2. Alike1(type, o, o)
  BY <1>1 DEF Alike1
<1> QED
  BY <1>2, RaiseAlike

\* An exact object is its own twin.
LEMMA WholeTwin ==
  ASSUME NEW type \in Whole, NEW o \in Out(type)
  PROVE  Twin(type, o, o)
BY SentExact, AlikeItself, KindsAreTypes DEF Twin, Whole

\* A query, without the id and the number of the channel.
LEMMA QueryTwin ==
  ASSUME NEW q \in QueryOut
  PROVE  \E y : Exact1("Query", y) /\ Alike1("Query", q, y)
<1> DEFINE f1 == One(1, "height")
           f2 == One(2, "hash")
           f3 == One(3, "isBackward")
           f4 == One(4, "limit")
           Agree(y) == \A name \in {"height", "hash", "isBackward", "limit"} :
                         \/ name \notin DOMAIN q /\ name \notin DOMAIN y
                         \/ name \in DOMAIN q /\ name \in DOMAIN y /\ q[name] = y[name]
<1>1. /\ "Query" \in Types /\ FieldsOf("Query") = {f1, f2, f3, f4}
      /\ f1.name = "height" /\ f2.name = "hash" /\ f3.name = "isBackward" /\ f4.name = "limit"
  BY QueryFields, FieldParts
<1>2. \A y : Agree(y) => Which("Query", q) = Which("Query", y)
  BY OneOfs DEF Which
<1>3. \A y : Agree(y) => \A f \in FieldsOf("Query") : AlikeAt(Alike0, f, q, y)
  BY <1>1 DEF AlikeAt
<1>4. \A y : Agree(y) => Alike1("Query", q, y)
  BY <1>1, <1>2, <1>3 DEF Alike1
<1>5. CASE \E h : q = [channelId |-> Leaf("channel"), seq |-> Leaf(Blank), height |-> Leaf(h),
                       isBackward |-> Leaf(Blank), limit |-> Leaf("1024")]
  <2>1. PICK h : q = [channelId |-> Leaf("channel"), seq |-> Leaf(Blank), height |-> Leaf(h),
                      isBackward |-> Leaf(Blank), limit |-> Leaf("1024")]
    BY <1>5
  <2> DEFINE y == [height |-> Leaf(h), isBackward |-> Leaf(Blank), limit |-> Leaf("1024")]
  <2>2. Agree(y)
    BY <2>1
  <2>3. Exact1("Query", y)
    BY QueryExact
  <2> HIDE DEF y
  <2> QED
    BY <1>4, <2>2, <2>3
<1>6. CASE \E back : q = [channelId |-> Leaf("channel"), seq |-> Leaf(Blank), hash |-> Leaf("h1"),
                          isBackward |-> Leaf(back), limit |-> Leaf("1024")]
  <2>1. PICK back : q = [channelId |-> Leaf("channel"), seq |-> Leaf(Blank), hash |-> Leaf("h1"),
                         isBackward |-> Leaf(back), limit |-> Leaf("1024")]
    BY <1>6
  <2> DEFINE y == [hash |-> Leaf("h1"), isBackward |-> Leaf(back), limit |-> Leaf("1024")]
  <2>2. Agree(y)
    BY <2>1
  <2>3. Exact1("Query", y)
    BY QueryHashExact
  <2> HIDE DEF y
  <2> QED
    BY <1>4, <2>2, <2>3
<1> QED
  BY <1>5, <1>6 DEF QueryOut

\* A bulk query, without the id and the number of the channel.
LEMMA BulkTwin ==
  ASSUME NEW q \in BulkOut
  PROVE  \E y : Exact1("Bulk", y) /\ Alike1("Bulk", q, y)
<1> DEFINE f1 == Many(1, "hashes")
<1>1. /\ "Bulk" \in Types /\ FieldsOf("Bulk") = {f1} /\ f1.name = "hashes"
  BY BulkFields, FieldParts
<1>2. PICK hs \in Lists(LeafValues({"h1", "h2"})) :
        q = [channelId |-> Leaf("channel"), seq |-> Leaf("1"), hashes |-> hs]
  BY DEF BulkOut
<1> DEFINE y == [hashes |-> hs]
<1>3. Exact1("Bulk", y)
  BY ListsAre, BulkExact
<1>4. "hashes" \in DOMAIN q /\ "hashes" \in DOMAIN y /\ q["hashes"] = y["hashes"]
  BY <1>2
<1> HIDE DEF y
<1>5. Which("Bulk", q) = Which("Bulk", y)
  BY OneOfs DEF Which
<1>6. \A f \in FieldsOf("Bulk") : AlikeAt(Alike0, f, q, y)
  BY <1>1, <1>4 DEF AlikeAt
<1>7. Alike1("Bulk", q, y)
  BY <1>1, <1>5, <1>6 DEF Alike1
<1> QED
  BY <1>3, <1>7

\* The tbs of a request: what it asks, and the chain of its sender if it has one.
Asks(t, name, list, chain) ==
  /\ DOMAIN t = {"responsePubKey", name} \/ DOMAIN t = {"responsePubKey", name, "chain"}
  /\ t["responsePubKey"] = Leaf("box key") /\ t[name] = list
  /\ IF "chain" \in DOMAIN t THEN t["chain"] = chain ELSE chain = << >>

\* The signed part of a query is alike to one that has a chain and an exact query.
LEMMA QueryTbsTwin ==
  ASSUME NEW q, NEW y, Exact1("Query", y), Alike1("Query", q, y), NEW chain \in Chains,
         NEW t, Asks(t, "query", Object(q), chain)
  PROVE  \E z : Exact3("RequestTBS", z) /\ Alike2("RequestTBS", t, z)
                /\ "chain" \in DOMAIN z /\ z["chain"] = chain
<1> DEFINE z == [responsePubKey |-> Leaf("box key"), query |-> Object(y), chain |-> chain]
           f1 == Subs(1, "chain", "Link")
           f2 == Sub(2, "query", "Query")
           f3 == Sub(3, "bulk", "Bulk")
           f4 == One(4, "responsePubKey")
<1>1. Exact3("RequestTBS", z)
  BY ChainsAre, QueryRequestExact
<1>2. /\ "RequestTBS" \in Types /\ FieldsOf("RequestTBS") = {f1, f2, f3, f4}
      /\ f1.name = "chain" /\ Repeated(f1)
      /\ f2.name = "query" /\ Embedded(f2) /\ f2.type = "Query"
      /\ f3.name = "bulk" /\ f4.name = "responsePubKey"
  BY RequestTBSFields, FieldParts
<1>3. /\ DOMAIN z = {"responsePubKey", "query", "chain"} /\ z["responsePubKey"] = Leaf("box key")
      /\ z["query"] = Object(y) /\ z["chain"] = chain
  OBVIOUS
<1> HIDE DEF z, f1, f2, f3, f4
<1>4. Which("RequestTBS", t) = Which("RequestTBS", z)
  BY <1>3, OneOfs DEF Which, Asks
<1>5. AlikeAt(Alike1, f1, t, z)
  BY <1>2, <1>3 DEF AlikeAt, Asks
<1>6. AlikeAt(Alike1, f2, t, z)
  BY <1>2, <1>3 DEF AlikeAt, Asks
<1>7. AlikeAt(Alike1, f3, t, z) /\ AlikeAt(Alike1, f4, t, z)
  BY <1>2, <1>3 DEF AlikeAt, Asks
<1>8. Alike2("RequestTBS", t, z)
  BY <1>2, <1>4, <1>5, <1>6, <1>7 DEF Alike2
<1> QED
  BY <1>1, <1>3, <1>8

\* The same for a bulk query.
LEMMA BulkTbsTwin ==
  ASSUME NEW q, NEW y, Exact1("Bulk", y), Alike1("Bulk", q, y), NEW chain \in Chains,
         NEW t, Asks(t, "bulk", Object(q), chain)
  PROVE  \E z : Exact3("RequestTBS", z) /\ Alike2("RequestTBS", t, z)
                /\ "chain" \in DOMAIN z /\ z["chain"] = chain
<1> DEFINE z == [responsePubKey |-> Leaf("box key"), bulk |-> Object(y), chain |-> chain]
           f1 == Subs(1, "chain", "Link")
           f2 == Sub(2, "query", "Query")
           f3 == Sub(3, "bulk", "Bulk")
           f4 == One(4, "responsePubKey")
<1>1. Exact3("RequestTBS", z)
  BY ChainsAre, BulkRequestExact
<1>2. /\ "RequestTBS" \in Types /\ FieldsOf("RequestTBS") = {f1, f2, f3, f4}
      /\ f1.name = "chain" /\ Repeated(f1)
      /\ f3.name = "bulk" /\ Embedded(f3) /\ f3.type = "Bulk"
      /\ f2.name = "query" /\ f4.name = "responsePubKey"
  BY RequestTBSFields, FieldParts
<1>3. /\ DOMAIN z = {"responsePubKey", "bulk", "chain"} /\ z["responsePubKey"] = Leaf("box key")
      /\ z["bulk"] = Object(y) /\ z["chain"] = chain
  OBVIOUS
<1> HIDE DEF z, f1, f2, f3, f4
<1>4. Which("RequestTBS", t) = Which("RequestTBS", z)
  BY <1>3, OneOfs DEF Which, Asks
<1>5. AlikeAt(Alike1, f1, t, z)
  BY <1>2, <1>3 DEF AlikeAt, Asks
<1>6. AlikeAt(Alike1, f3, t, z)
  BY <1>2, <1>3 DEF AlikeAt, Asks
<1>7. AlikeAt(Alike1, f2, t, z) /\ AlikeAt(Alike1, f4, t, z)
  BY <1>2, <1>3 DEF AlikeAt, Asks
<1>8. Alike2("RequestTBS", t, z)
  BY <1>2, <1>4, <1>5, <1>6, <1>7 DEF Alike2
<1> QED
  BY <1>1, <1>3, <1>8

\* A request with a chain.
LEMMA ChainedIs ==
  ASSUME NEW a, NEW c
  PROVE  /\ DOMAIN Chained(a, c) = DOMAIN a \cup {"chain"} /\ Chained(a, c)["chain"] = c
         /\ \A n \in DOMAIN a \ {"chain"} : Chained(a, c)[n] = a[n]
BY DEF Chained

\* The signed part of every request is alike to an exact one.
LEMMA AskedTwin ==
  ASSUME NEW a \in Asked, NEW chain \in Chains, NEW t,
         t = Chained(a, chain) \/ (t = a /\ chain = << >>)
  PROVE  \E z : Exact3("RequestTBS", z) /\ Alike2("RequestTBS", t, z)
                /\ "chain" \in DOMAIN z /\ z["chain"] = chain
<1>1. \/ \E q \in QueryOut : a = QueryAsked(q)
      \/ \E q \in BulkOut : a = BulkAsked(q)
  BY DEF Asked
<1>2. ASSUME NEW q \in QueryOut, a = QueryAsked(q)
      PROVE  Asks(t, "query", Object(q), chain)
  <2>1. /\ DOMAIN a = {"responsePubKey", "query"} /\ a["responsePubKey"] = Leaf("box key")
        /\ a["query"] = Object(q)
    BY <1>2 DEF QueryAsked
  <2>2. CASE t = Chained(a, chain)
    <3>1. /\ DOMAIN t = DOMAIN a \cup {"chain"} /\ t["chain"] = chain
          /\ \A n \in DOMAIN a \ {"chain"} : t[n] = a[n]
      BY <2>2, ChainedIs
    <3> QED
      BY <2>1, <3>1 DEF Asks
  <2>3. CASE t = a /\ chain = << >>
    BY <2>1, <2>3 DEF Asks
  <2> QED
    BY <2>2, <2>3
<1>3. ASSUME NEW q \in BulkOut, a = BulkAsked(q)
      PROVE  Asks(t, "bulk", Object(q), chain)
  <2>1. /\ DOMAIN a = {"responsePubKey", "bulk"} /\ a["responsePubKey"] = Leaf("box key")
        /\ a["bulk"] = Object(q)
    BY <1>3 DEF BulkAsked
  <2>2. CASE t = Chained(a, chain)
    <3>1. /\ DOMAIN t = DOMAIN a \cup {"chain"} /\ t["chain"] = chain
          /\ \A n \in DOMAIN a \ {"chain"} : t[n] = a[n]
      BY <2>2, ChainedIs
    <3> QED
      BY <2>1, <3>1 DEF Asks
  <2>3. CASE t = a /\ chain = << >>
    BY <2>1, <2>3 DEF Asks
  <2> QED
    BY <2>2, <2>3
<1>4. ASSUME NEW q \in QueryOut, a = QueryAsked(q)
      PROVE  \E z : Exact3("RequestTBS", z) /\ Alike2("RequestTBS", t, z)
                    /\ "chain" \in DOMAIN z /\ z["chain"] = chain
  <2>1. PICK y : Exact1("Query", y) /\ Alike1("Query", q, y)
    BY QueryTwin
  <2> QED
    BY <1>2, <1>4, <2>1, QueryTbsTwin
<1>5. ASSUME NEW q \in BulkOut, a = BulkAsked(q)
      PROVE  \E z : Exact3("RequestTBS", z) /\ Alike2("RequestTBS", t, z)
                    /\ "chain" \in DOMAIN z /\ z["chain"] = chain
  <2>1. PICK y : Exact1("Bulk", y) /\ Alike1("Bulk", q, y)
    BY BulkTwin
  <2> QED
    BY <1>3, <1>5, <2>1, BulkTbsTwin
<1> QED
  BY <1>1, <1>4, <1>5

\* The chain of a request is that of its tbs, or empty.
LEMMA RequestChain ==
  ASSUME NEW t
  PROVE  /\ Tbs("RequestContent", RequestWith(t)) = t
         /\ Signature("RequestContent", RequestWith(t)) = "on request"
         /\ ChainsIn("RequestContent", RequestWith(t)) =
              {IF "chain" \in DOMAIN t THEN t["chain"] ELSE << >>}
<1>1. Tbs("RequestContent", RequestWith(t)) = t
  BY ObjectIs DEF Tbs, Get, RequestWith
<1>2. Signature("RequestContent", RequestWith(t)) = "on request"
  BY DEF Signature, Get, RequestWith, Leaf
<1>3. Get("RequestTBS", t, "chain") = IF "chain" \in DOMAIN t THEN t["chain"] ELSE << >>
  <2> DEFINE f == Subs(1, "chain", "Link")
  <2>1. "RequestTBS" \in Types /\ f \in FieldsOf("RequestTBS") /\ f.name = "chain" /\ Repeated(f)
    BY RequestTBSFields, FieldParts
  <2> HIDE DEF f
  <2>2. FieldNamed("RequestTBS", "chain") = f
    BY <2>1, NamedIs
  <2> QED
    BY <2>1, <2>2 DEF Get, Default
<1> QED
  BY <1>1, <1>2, <1>3, ChainsInAre

\* A request has a twin, and it is covered by the same signatures.
LEMMA RequestTwin ==
  ASSUME NEW a \in Asked, NEW chain \in Chains, NEW t,
         t = Chained(a, chain) \/ (t = a /\ chain = << >>)
  PROVE  \E x : Twin("RequestContent", RequestWith(t), x)
<1>1. PICK z : Exact3("RequestTBS", z) /\ Alike2("RequestTBS", t, z)
               /\ "chain" \in DOMAIN z /\ z["chain"] = chain
  BY AskedTwin
<1> DEFINE r == RequestWith(t)
           x == RequestWith(z)
           f1 == Sub(1, "tbs", "RequestTBS")
           f2 == One(2, "signature")
<1>2. Exact("RequestContent", x)
  BY <1>1, RequestContentExact, Raise4, Raise5 DEF RequestWith
<1>3. /\ "RequestContent" \in Types /\ FieldsOf("RequestContent") = {f1, f2}
      /\ f1.name = "tbs" /\ Embedded(f1) /\ f1.type = "RequestTBS" /\ f2.name = "signature"
  BY RequestContentFields, FieldParts
<1>4. /\ DOMAIN r = {"tbs", "signature"} /\ r["tbs"] = Object(t) /\ r["signature"] = Leaf("on request")
      /\ DOMAIN x = {"tbs", "signature"} /\ x["tbs"] = Object(z) /\ x["signature"] = Leaf("on request")
  BY DEF RequestWith
<1> HIDE DEF r, x, f1, f2
<1>5. Alike("RequestContent", r, x)
  <2>1. Which("RequestContent", r) = Which("RequestContent", x)
    BY OneOfs DEF Which
  <2>2. AlikeAt(Alike2, f1, r, x)
    BY <1>1, <1>3, <1>4 DEF AlikeAt
  <2>3. AlikeAt(Alike2, f2, r, x)
    BY <1>3, <1>4 DEF AlikeAt
  <2>4. Alike3("RequestContent", r, x)
    BY <1>3, <2>1, <2>2, <2>3 DEF Alike3
  <2> QED
    BY <2>4, RaiseAlike3, RaiseAlike4, RaiseAlike5
<1>6. Encode("RequestTBS", t) = Encode("RequestTBS", z)
  <2>1. Alike("RequestTBS", t, z)
    BY <1>1, RaiseAlike2, RaiseAlike3, RaiseAlike4, RaiseAlike5
  <2> QED
    BY <2>1, EncodeAlike6
<1>7. MessagesIn("RequestContent", r) = MessagesIn("RequestContent", x)
  <2>1. "RequestContent" \in Kinds \ {"ChannelMessage", "ResponseContent"}
    BY DEF Kinds
  <2> QED
    BY <2>1, MessagesInAre
<1>8. ChainsIn("RequestContent", r) = {chain} /\ ChainsIn("RequestContent", x) = {chain}
  <2>1. (IF "chain" \in DOMAIN t THEN t["chain"] ELSE << >>) = chain
    <3>1. \A q : /\ DOMAIN QueryAsked(q) = {"responsePubKey", "query"}
                 /\ DOMAIN BulkAsked(q) = {"responsePubKey", "bulk"}
      BY DEF QueryAsked, BulkAsked
    <3>2. "chain" \notin DOMAIN a
      BY <3>1 DEF Asked
    <3>3. CASE t = Chained(a, chain)
      <4>1. "chain" \in DOMAIN Chained(a, chain) /\ Chained(a, chain)["chain"] = chain
        BY ONLY ChainedIs
      <4> QED
        BY <3>3, <4>1
    <3>4. CASE t = a /\ chain = << >>
      <4>1. "chain" \notin DOMAIN t
        BY <3>2, <3>4
      <4> QED
        BY <3>4, <4>1
    <3>5. t = Chained(a, chain) \/ (t = a /\ chain = << >>)
      OBVIOUS
    <3> QED
      BY <3>3, <3>4, <3>5
  <2> QED
    BY <1>1, <2>1, RequestChain DEF r, x
<1>9. /\ Tbs("RequestContent", r) = t /\ Signature("RequestContent", r) = "on request"
      /\ Tbs("RequestContent", x) = z /\ Signature("RequestContent", x) = "on request"
  BY RequestChain DEF r, x
<1>10. \A p : p \in Covered("RequestContent", r) <=> p \in Covered("RequestContent", x)
  BY <1>6, <1>7, <1>8, <1>9, CoveredIs
<1>11. Covered("RequestContent", r) = Covered("RequestContent", x)
  <2>1. Covered("RequestContent", r) \subseteq Covered("RequestContent", x)
    BY <1>10
  <2>2. Covered("RequestContent", x) \subseteq Covered("RequestContent", r)
    BY <1>10
  <2> QED
    BY <2>1, <2>2
<1>12. Twin("RequestContent", r, x)
  BY <1>2, <1>5, <1>7, <1>11 DEF Twin, Whole
<1> QED
  BY <1>12 DEF r

\* A response to a query is exact.
LEMMA QueryResponseTwin ==
  ASSUME NEW q \in QueryResponseOut
  PROVE  Twin("ResponseContent", [queryResponse |-> Object(q)], [queryResponse |-> Object(q)])
<1>1. ASSUME NEW m \in AbbreviatedOut PROVE Exact1("Abbreviated", m)
  BY ListsAre, AbbreviatedExact DEF AbbreviatedOut
<1>2. PICK l \in Lists(ObjectValues(AbbreviatedOut)) :
        \/ q = [abbreviatedMessages |-> l]
        \/ q = [abbreviatedMessages |-> l, forwardHash |-> Leaf("h3")]
        \/ q = [abbreviatedMessages |-> l, backwardHash |-> Leaf("h4")]
  BY DEF QueryResponseOut
<1>3. l \in Seq(ObjectValues(AbbreviatedOut))
  BY ListsAre
<1>4. Exact2("QueryResponse", q)
  BY <1>1, <1>2, <1>3, QueryResponseExact, ForwardResponseExact, BackwardResponseExact
<1> DEFINE o == [queryResponse |-> Object(q)]
<1>5. Exact("ResponseContent", o)
  BY <1>4, QueryContentExact, Raise3, Raise4, Raise5
<1> HIDE DEF o
<1>6. Alike("ResponseContent", o, o)
  BY AlikeItself, ResponseContentFields
<1>7. Twin("ResponseContent", o, o)
  BY <1>5, <1>6 DEF Twin
<1> QED
  BY <1>7 DEF o

\* The messages of a bulk response.
LEMMA BulkMessages ==
  ASSUME NEW o, NEW z, NEW list, o = [bulkResponse |-> Object(z)],
         "messages" \in DOMAIN z, z["messages"] = list
  PROVE  MessagesIn("ResponseContent", o) = Elements(list)
<1>1. "bulkResponse" \in DOMAIN o /\ o["bulkResponse"][1].obj = z
  BY ObjectIs
<1>2. Get("BulkResponse", z, "messages") = list
  BY DEF Get
<1> QED
  BY <1>1, <1>2, MessagesInAre

\* A bulk response has a twin, which lacks the id of the channel.
LEMMA BulkResponseTwin ==
  ASSUME NEW list, list = << >> \/ \E m \in MessageOut : list = Object(m)
  PROVE  \E x : Twin("ResponseContent", BulkResponseOut(list), x)
<1> DEFINE b == [channelId |-> << >>, messages |-> list, forwardIndex |-> Leaf("1")]
           z == [messages |-> list, forwardIndex |-> Leaf("1")]
           o == [bulkResponse |-> Object(b)]
           x == [bulkResponse |-> Object(z)]
           f1 == Subs(1, "messages", "ChannelMessage")
           f2 == One(2, "forwardIndex")
           g1 == Sub(1, "queryResponse", "QueryResponse")
           g2 == Sub(2, "bulkResponse", "BulkResponse")
<1>1. list \in Seq(ObjectValues(MessageOut))
  <2>1. CASE list = << >>
    BY <2>1
  <2>2. ASSUME NEW m \in MessageOut, list = Object(m) PROVE list \in Seq(ObjectValues(MessageOut))
    <3>1. Object(m) = <<Object(m)[1]>> /\ Object(m)[1] \in ObjectValues(MessageOut)
      BY DEF Object, ObjectValues
    <3> QED
      BY <2>2, <3>1, ShortLists
  <2> QED
    BY <2>1, <2>2
<1>2. Exact("ResponseContent", x)
  <2>1. Exact5("BulkResponse", z)
    BY <1>1, MessageOutExact, BulkResponseExact
  <2> QED
    BY <2>1, BulkContentExact
<1>3. /\ "BulkResponse" \in Types /\ FieldsOf("BulkResponse") = {f1, f2}
      /\ f1.name = "messages" /\ f2.name = "forwardIndex"
      /\ "ResponseContent" \in Types /\ FieldsOf("ResponseContent") = {g1, g2}
      /\ g1.name = "queryResponse" /\ g2.name = "bulkResponse" /\ Embedded(g2) /\ g2.type = "BulkResponse"
  BY BulkResponseFields, ResponseContentFields, FieldParts
<1>4. /\ DOMAIN b = {"channelId", "messages", "forwardIndex"} /\ b["messages"] = list
      /\ b["forwardIndex"] = Leaf("1")
      /\ DOMAIN z = {"messages", "forwardIndex"} /\ z["messages"] = list /\ z["forwardIndex"] = Leaf("1")
  OBVIOUS
<1>5. /\ DOMAIN o = {"bulkResponse"} /\ o["bulkResponse"] = Object(b)
      /\ DOMAIN x = {"bulkResponse"} /\ x["bulkResponse"] = Object(z)
  OBVIOUS
<1> HIDE DEF b, z, f1, f2, g1, g2
<1>6. Alike1("BulkResponse", b, z)
  <2>1. Which("BulkResponse", b) = Which("BulkResponse", z)
    BY OneOfs DEF Which
  <2>2. AlikeAt(Alike0, f1, b, z)
    BY <1>3, <1>4 DEF AlikeAt
  <2>3. AlikeAt(Alike0, f2, b, z)
    BY <1>3, <1>4 DEF AlikeAt
  <2> QED
    BY <1>3, <2>1, <2>2, <2>3 DEF Alike1
<1>7. MessagesIn("ResponseContent", o) = Elements(list) /\ MessagesIn("ResponseContent", x) = Elements(list)
  BY <1>4, BulkMessages
<1> HIDE DEF o, x
<1>8. Alike("ResponseContent", o, x)
  <2>1. Which("ResponseContent", o) = Which("ResponseContent", x)
    BY <1>5, OneOfs DEF Which
  <2>2. AlikeAt(Alike1, g2, o, x)
    BY <1>3, <1>5, <1>6 DEF AlikeAt
  <2>3. AlikeAt(Alike1, g1, o, x)
    BY <1>3, <1>5 DEF AlikeAt
  <2>4. Alike2("ResponseContent", o, x)
    BY <1>3, <2>1, <2>2, <2>3 DEF Alike2
  <2> QED
    BY <2>4, RaiseAlike2, RaiseAlike3, RaiseAlike4, RaiseAlike5
<1>9. ChainsIn("ResponseContent", o) = {} /\ ChainsIn("ResponseContent", x) = {}
  <2>1. "ResponseContent" \in Kinds \ {"Invite", "RequestContent", "Identity"}
    BY DEF Kinds
  <2> QED
    BY <2>1, ChainsInAre
<1>10. \A p : p \in Covered("ResponseContent", o) <=> p \in Covered("ResponseContent", x)
  BY <1>7, <1>9, CoveredIs
<1>11. Covered("ResponseContent", o) = Covered("ResponseContent", x)
  <2>1. Covered("ResponseContent", o) \subseteq Covered("ResponseContent", x)
    BY <1>10
  <2>2. Covered("ResponseContent", x) \subseteq Covered("ResponseContent", o)
    BY <1>10
  <2> QED
    BY <2>1, <2>2
<1>12. Twin("ResponseContent", o, x)
  BY <1>2, <1>7, <1>8, <1>11 DEF Twin, Whole
<1>13. o = BulkResponseOut(list)
  BY DEF o, b, BulkResponseOut
<1> QED
  BY <1>12, <1>13

\* Everything that the library encodes has a twin.
LEMMA SentTwin ==
  ASSUME NEW type \in Kinds, NEW o \in Out(type)
  PROVE  \E x : Twin(type, o, x)
<1>1. ASSUME type \in Whole PROVE \E x : Twin(type, o, x)
  BY <1>1, WholeTwin
<1>2. ASSUME type = "RequestContent" PROVE \E x : Twin(type, o, x)
  <2>1. Out("RequestContent") = RequestOut(Chains) \cup FeedRequestOut
    BY DEF Out
  <2>2. << >> \in Chains
    BY EmptyChain
  <2>3. o \in RequestOut(Chains) \/ o \in FeedRequestOut
    BY <1>2, <2>1
  <2>4. ASSUME o \in RequestOut(Chains) PROVE \E x : Twin(type, o, x)
    <3>1. PICK a \in Asked, c \in Chains : o = RequestWith(Chained(a, c))
      BY <2>4 DEF RequestOut
    <3> QED
      BY <1>2, <3>1, RequestTwin
  <2>5. ASSUME o \in FeedRequestOut PROVE \E x : Twin(type, o, x)
    <3>1. PICK a \in Asked : o = RequestWith(a)
      BY <2>5 DEF FeedRequestOut
    <3> QED
      BY <1>2, <2>2, <3>1, RequestTwin
  <2> QED
    BY <2>3, <2>4, <2>5
<1>3. ASSUME type = "ResponseContent" PROVE \E x : Twin(type, o, x)
  <2>1. o \in ResponseOut
    BY <1>3, OutIs
  <2>2. ASSUME NEW q \in QueryResponseOut, o = [queryResponse |-> Object(q)] PROVE \E x : Twin(type, o, x)
    BY <1>3, <2>2, QueryResponseTwin
  <2>3. ASSUME NEW list \in {<< >>} \cup {Object(m) : m \in MessageOut}, o = BulkResponseOut(list)
        PROVE  \E x : Twin(type, o, x)
    BY <1>3, <2>3, BulkResponseTwin
  <2> QED
    BY <2>1, <2>2, <2>3 DEF ResponseOut
<1> QED
  BY <1>1, <1>2, <1>3 DEF Whole

-----------------------------------------------------------------------------
\* The bytes on their way.

Atom(s) == DOMAIN s = {"no", "leaf", "sub"}
Bytes(b) == \E S : b \in Seq(S) /\ \A s \in S : Atom(s)

\* encode() returns bytes.
LEMMA EncodeBytes ==
  ASSUME NEW type, NEW o, Exact(type, o)
  PROVE  Bytes(Encode(type, o))
<1> DEFINE W == Layout(type, o, [p \in Inside(type, o) |-> Encode5(p[1], p[2])])
<1>1. Shaped(type, o)
  BY DEF Exact
<1>2. Encode(type, o) = FlattenSeq(W)
  BY <1>1, Laid6
<1>3. W \in Seq(Seq(Atoms(W))) /\ \A s \in Atoms(W) : Atom(s)
  BY <1>1, LayoutType DEF Atom
<1> HIDE DEF W
<1> QED
  BY <1>2, <1>3, FlattenType DEF Bytes

\* Bytes are made of fields.
LEMMA BytesDomain ==
  ASSUME NEW b, Bytes(b)
  PROVE  \A i \in DOMAIN b : DOMAIN b[i] = {"no", "leaf", "sub"}
BY DEF Bytes, Atom

\* A field that no type has, wherever it is put, changes no field under a number
\* that the type has.
LEMMA InsertLater ==
  ASSUME NEW type \in Types, NEW b, Bytes(b), NEW i \in 1..Len(b) + 1
  PROVE  Like(type, InsertAt(b, i, Later), b) /\ Bytes(InsertAt(b, i, Later))
<1>1. PICK S : b \in Seq(S) /\ \A s \in S : Atom(s)
  BY DEF Bytes
<1> DEFINE T == S \cup {Later}
<1>2. b \in Seq(T) /\ Later \in T
  BY <1>1
<1>3. \A s \in T : Atom(s)
  BY <1>1 DEF Atom, Later
<1> HIDE DEF T
<1>4. ASSUME NEW f \in FieldsOf(type) PROVE Under(f, InsertAt(b, i, Later)) = Under(f, b)
  <2>1. Later.no # f.no
    <3>1. PICK k \in DOMAIN Fields(type) : Fields(type)[k] = f
      BY IndexOf
    <3>2. k \in Nat /\ f.no = k /\ k < 15
      BY <3>1, Numbered DEF Distinct
    <3> QED
      BY <3>2 DEF Later
  <2> QED
    BY <1>2, <2>1, UnderInsert
<1>5. InsertAt(b, i, Later) \in Seq(T)
  <2>1. SubSeq(b, 1, i - 1) \in Seq(T) /\ SubSeq(b, i, Len(b)) \in Seq(T) /\ <<Later>> \in Seq(T)
    BY <1>2
  <2> QED
    BY <2>1 DEF InsertAt
<1> QED
  BY <1>3, <1>4, <1>5 DEF Like, Bytes

-----------------------------------------------------------------------------
\* What the receiver rebuilds is what came.

\* Copying all properties of an object that has all is the identity.
LEMMA AllIs ==
  ASSUME NEW type, NEW o, DOMAIN o = Names(type), o = [name \in DOMAIN o |-> o[name]]
  PROVE  All(type, o) = o
BY DEF All, Get

\* A list whose links or chains are rebuilt as they were is rebuilt as it was.
LEMMA AgainIs ==
  ASSUME NEW S, NEW list \in Seq(ObjectValues(S))
  PROVE  /\ (\A l \in S : LinkAgain(l) = l)  => Again(LinkAgain, list) = list
         /\ (\A l \in S : ChainAgain(l) = l) => Again(ChainAgain, list) = list
<1>1. \A k \in DOMAIN list : \E o \in S : list[k] = Object(o)[1]
  BY DEF ObjectValues
<1>2. \A k \in DOMAIN list : list[k].obj \in S /\ Object(list[k].obj)[1] = list[k]
  BY <1>1, ObjectIs
<1>3. list = [k \in DOMAIN list |-> list[k]]
  OBVIOUS
<1>4. ASSUME \A l \in S : LinkAgain(l) = l PROVE Again(LinkAgain, list) = list
  <2>1. \A k \in DOMAIN list : Object(LinkAgain(list[k].obj))[1] = list[k]
    BY <1>2, <1>4
  <2> QED
    BY <1>3, <2>1 DEF Again
<1>5. ASSUME \A l \in S : ChainAgain(l) = l PROVE Again(ChainAgain, list) = list
  <2>1. \A k \in DOMAIN list : Object(ChainAgain(list[k].obj))[1] = list[k]
    BY <1>2, <1>5
  <2> QED
    BY <1>3, <2>1 DEF Again
<1> QED
  BY <1>4, <1>5

\* A link is rebuilt as it was.
LEMMA LinkAgainIs ==
  ASSUME NEW names, NEW l \in LinkOut(names)
  PROVE  LinkAgain(l) = l
<1> DEFINE t(n) == [trusteePubKey |-> Leaf(n), trusteeDisplayName |-> Leaf("name"),
                    validFrom |-> Leaf("from"), validTo |-> Leaf("to")]
<1>1. \A n : /\ DOMAIN t(n) = {"trusteePubKey", "trusteeDisplayName", "validFrom", "validTo"}
             /\ t(n) = [name \in DOMAIN t(n) |-> t(n)[name]]
  OBVIOUS
<1>2. PICK n, s : l = [tbs |-> Object(t(n)), signature |-> s]
  BY DEF LinkOut
<1> DEFINE u == t(n)
<1>3. /\ DOMAIN u = {"trusteePubKey", "trusteeDisplayName", "validFrom", "validTo"}
      /\ u = [name \in DOMAIN u |-> u[name]]
  BY <1>1
<1> HIDE DEF t
<1>4. l = [tbs |-> Object(u), signature |-> s]
  BY <1>2
<1> HIDE DEF u
<1>5. Names("LinkTBS") = {"trusteePubKey", "trusteeDisplayName", "validFrom", "validTo", "channelId"}
  BY LinkTBSFields, FieldParts DEF Names
<1>6. Tbs("Link", l) = u /\ Get("Link", l, "signature") = s
  BY <1>4, ObjectIs DEF Tbs, Get
<1>7. \A name \in DOMAIN u : LinkSigned(l)[name] = u[name]
  BY <1>3, <1>5, <1>6 DEF LinkSigned, All, Get
<1>8. [name \in Names("LinkTBS") \ {"channelId"} |-> LinkSigned(l)[name]] = u
  BY <1>3, <1>5, <1>7
<1> QED
  BY <1>4, <1>6, <1>8 DEF LinkAgain

\* A chain of links is rebuilt as it was.
LEMMA ChainsAgain ==
  ASSUME NEW c \in Chains
  PROVE  Again(LinkAgain, c) = c
BY ChainsAre, LinkAgainIs, AgainIs

\* The properties of the signed part of a message.
LEMMA MessageTBSNames == Names("MessageTBS") = {"parents", "height", "chain", "timestamp", "body"}
BY MessageTBSFields, FieldParts DEF Names

\* A message is rebuilt as it was: its hash stays.
LEMMA MessageAgainIs ==
  ASSUME NEW m \in MessageOut
  PROVE  MessageAgain(m) = m
<1>1. PICK t : /\ m = MessageWith(t)
               /\ t = RootTBS \/ \E c \in Chains : \E ps : t = TextTBS(ps, c)
  BY DEF MessageOut
<1>2. /\ DOMAIN t = {"parents", "height", "chain", "timestamp", "body"}
      /\ t = [name \in DOMAIN t |-> t[name]] /\ t["chain"] \in Chains
  <2>1. CASE t = RootTBS
    BY <2>1, EmptyChain DEF RootTBS
  <2>2. ASSUME NEW ps, NEW c \in Chains, t = TextTBS(ps, c)
        PROVE  /\ DOMAIN t = {"parents", "height", "chain", "timestamp", "body"}
               /\ t = [name \in DOMAIN t |-> t[name]] /\ t["chain"] \in Chains
    BY <2>2 DEF TextTBS
  <2> QED
    BY <1>1, <2>1, <2>2
<1>3. All("MessageTBS", t) = t
  BY <1>2, MessageTBSNames, AllIs
<1>4. Tbs("ChannelMessage", m) = t /\ Get("ChannelMessage", m, "signature") = Leaf("on message")
  BY <1>1, ObjectIs DEF Tbs, Get, MessageWith
<1>5. Again(LinkAgain, t["chain"]) = t["chain"]
  BY <1>2, ChainsAgain
<1>6. MessageSigned(m) = t
  BY <1>2, <1>3, <1>4, <1>5 DEF MessageSigned
<1> QED
  BY <1>1, <1>4, <1>6 DEF MessageAgain, MessageWith

\* A chain of an identity is rebuilt as it was.
LEMMA ChannelChainAgainIs ==
  ASSUME NEW c \in OwnChains
  PROVE  ChainAgain(c) = c /\ Get("ChannelChain", c, "links") \in Chains
<1>1. Names("ChannelChain") = {"channelId", "links"}
  BY ChannelChainFields, FieldParts DEF Names
<1>2. PICK l \in Chains : \E id : c = [channelId |-> id, links |-> l]
  BY EmptyChain DEF OwnChains, ChannelChainOut
<1>3. /\ DOMAIN c = {"channelId", "links"} /\ c = [name \in DOMAIN c |-> c[name]] /\ c["links"] = l
  BY <1>2
<1>4. All("ChannelChain", c) = c
  BY <1>1, <1>3, AllIs
<1>5. Again(LinkAgain, l) = l
  BY ChainsAgain
<1>6. ChainAgain(c) = c
  BY <1>3, <1>4, <1>5 DEF ChainAgain
<1> QED
  BY <1>3, <1>6 DEF Get

\* An identity is stored again as it was loaded.
LEMMA IdentityAgainIs ==
  ASSUME NEW o \in IdentityOut
  PROVE  /\ IdentityAgain(o) = o /\ o["channelChains"] = Get("Identity", o, "channelChains")
         /\ \A c \in Elements(o["channelChains"]) : Get("ChannelChain", c, "links") \in Chains
<1>1. Names("Identity") = {"name", "publicKey", "secretKey", "channelChains", "metadata"}
  BY IdentityFields, FieldParts DEF Names
<1>2. PICK list \in Seq(ObjectValues(OwnChains)) : \E m : o = IdentityWith(list, m)
  BY IdentityOutIs
<1>3. /\ DOMAIN o = {"name", "publicKey", "secretKey", "channelChains", "metadata"}
      /\ o = [name \in DOMAIN o |-> o[name]] /\ o["channelChains"] = list
  BY <1>2 DEF IdentityWith
<1>4. All("Identity", o) = o
  BY <1>1, <1>3, AllIs
<1>5. Again(ChainAgain, list) = list
  BY ChannelChainAgainIs, AgainIs
<1>6. IdentityAgain(o) = o
  BY <1>3, <1>4, <1>5 DEF IdentityAgain
<1>7. \A c \in Elements(list) : c \in OwnChains
  <2>1. \A k \in DOMAIN list : \E c \in OwnChains : list[k] = Object(c)[1]
    BY DEF ObjectValues
  <2> QED
    BY <2>1, ObjectIs DEF Elements
<1> QED
  BY <1>3, <1>6, <1>7, ChannelChainAgainIs DEF Get

\* A channel is stored again as it was loaded.
LEMMA ChannelAgainIs ==
  ASSUME NEW o \in ChannelOut
  PROVE  ChannelAgain(o) = o
<1>1. Names("Channel") = {"publicKey", "name", "isFeed", "metadata"}
  BY ChannelFields, FieldParts DEF Names
<1>2. DOMAIN o = {"publicKey", "name", "isFeed", "metadata"} /\ o = [name \in DOMAIN o |-> o[name]]
  BY DEF ChannelOut
<1> QED
  BY <1>1, <1>2, AllIs DEF ChannelAgain

-----------------------------------------------------------------------------
\* What is handed on, and what its signatures cover.

HandedOn(type, o, next) ==
  /\ next[1] \in Kinds /\ next[2] \in Out(next[1])
  /\ \A p \in Covered(next[1], next[2]) : p[1] = "on request" \/ p \in Covered(type, o)

\* A list of one message.
LEMMA ObjectIsOne == ASSUME NEW x PROVE Elements(Object(x)) = {x} /\ Object(x) = <<Object(x)[1]>>
<1>1. Object(x) = <<Object(x)[1]>>
  BY DEF Object
<1> QED
  BY <1>1, ObjectIs DEF Elements

\* The messages in a bulk response of the library.
LEMMA BulkOutMessages ==
  ASSUME NEW list
  PROVE  MessagesIn("ResponseContent", BulkResponseOut(list)) = Elements(list)
<1> DEFINE z == [channelId |-> << >>, messages |-> list, forwardIndex |-> Leaf("1")]
<1>1. "messages" \in DOMAIN z /\ z["messages"] = list /\ BulkResponseOut(list) = [bulkResponse |-> Object(z)]
  BY DEF BulkResponseOut
<1> HIDE DEF z
<1> QED
  BY <1>1, BulkMessages

\* Without a request, signatures on links and messages are all.
LEMMA NoRequest ==
  ASSUME NEW type \in Whole \cup {"ResponseContent"}, NEW o, NEW p \in Covered(type, o)
  PROVE  \/ \E c \in ChainsIn(type, o) : p \in Marks(LinkParts(c))
         \/ \E m \in MessagesIn(type, o) : p \in Marks(MessageParts(m))
BY CoveredIs DEF Whole

\* A message is stored and handed out again.
LEMMA MessageOnward ==
  ASSUME NEW m \in MessageOut, NEW next \in Onward("ChannelMessage", m)
  PROVE  HandedOn("ChannelMessage", m, next)
<1>1. next = <<"ResponseContent", BulkResponseOut(Object(m))>>
  BY MessageAgainIs DEF Onward
<1> DEFINE r == BulkResponseOut(Object(m))
<1>2. r \in Out("ResponseContent")
  BY OutIs DEF ResponseOut
<1>3. MessagesIn("ResponseContent", r) = {m}
  BY BulkOutMessages, ObjectIsOne
<1>4. ChainsIn("ResponseContent", r) = {}
  <2>1. "ResponseContent" \in Kinds \ {"Invite", "RequestContent", "Identity"}
    BY DEF Kinds
  <2> QED
    BY <2>1, ChainsInAre
<1> HIDE DEF r
<1>5. ASSUME NEW p \in Covered("ResponseContent", r) PROVE p \in Covered("ChannelMessage", m)
  <2>1. p \in Marks(MessageParts(m))
    BY <1>3, <1>4, NoRequest
  <2> QED
    BY <2>1, CoveredIs, MessagesInAre
<1> QED
  BY <1>1, <1>2, <1>5 DEF HandedOn, Kinds, r

\* The messages in a response are messages that the library made.
LEMMA ResponseMessages ==
  ASSUME NEW o \in ResponseOut, NEW m \in MessagesIn("ResponseContent", o)
  PROVE  m \in MessageOut
<1>1. ASSUME NEW q, o = [queryResponse |-> Object(q)] PROVE FALSE
  <2>1. "bulkResponse" \notin DOMAIN o
    BY <1>1
  <2> QED
    BY <2>1, MessagesInAre
<1>2. ASSUME NEW list, o = BulkResponseOut(list), list = << >> \/ \E t \in MessageOut : list = Object(t)
      PROVE  m \in MessageOut
  <2>1. m \in Elements(list)
    BY <1>2, BulkOutMessages
  <2>2. Elements(<< >>) = {}
    BY DEF Elements
  <2> QED
    BY <1>2, <2>1, <2>2, ObjectIsOne
<1> QED
  BY <1>1, <1>2 DEF ResponseOut

\* The messages of a response are stored.
LEMMA ResponseOnward ==
  ASSUME NEW o \in ResponseOut, NEW x, MessagesIn("ResponseContent", o) = MessagesIn("ResponseContent", x),
         NEW next \in Onward("ResponseContent", x)
  PROVE  HandedOn("ResponseContent", o, next)
<1>1. PICK m \in MessagesIn("ResponseContent", o) : next = <<"ChannelMessage", MessageAgain(m)>>
  BY DEF Onward
<1>2. m \in MessageOut /\ MessageAgain(m) = m
  BY ResponseMessages, MessageAgainIs
<1>3. ASSUME NEW p \in Covered("ChannelMessage", m) PROVE p \in Covered("ResponseContent", o)
  <2>1. ChainsIn("ChannelMessage", m) = {} /\ MessagesIn("ChannelMessage", m) = {m}
    <3>1. "ChannelMessage" \in Kinds \ {"Invite", "RequestContent", "Identity"}
      BY DEF Kinds
    <3> QED
      BY <3>1, ChainsInAre, MessagesInAre
  <2>2. "ChannelMessage" \in Whole
    BY DEF Whole, Kinds
  <2>3. p \in Marks(MessageParts(m))
    BY <2>1, <2>2, NoRequest
  <2> QED
    BY <2>3, CoveredIs
<1> QED
  BY <1>1, <1>2, <1>3, OutIs DEF HandedOn, Kinds

\* The chain of an invite becomes one of the identity.
LEMMA InviteOnward ==
  ASSUME NEW o \in InviteOut, NEW next \in Onward("Invite", o)
  PROVE  HandedOn("Invite", o, next)
<1>1. PICK c \in Chains : o = [channelPubKey |-> Leaf("key"), channelName |-> Leaf("name"), chain |-> c]
  BY DEF InviteOut
<1>2. Get("Invite", o, "chain") = c /\ Again(LinkAgain, c) = c
  BY <1>1, ChainsAgain DEF Get
<1> DEFINE y == [channelId |-> Leaf("channel"), links |-> c]
           id == IdentityWith(Object(y), Blank)
<1>3. next = <<"Identity", id>>
  BY <1>2 DEF Onward
<1>4. y \in ChannelChainOut /\ Get("ChannelChain", y, "links") = c
  BY DEF ChannelChainOut, Get
<1> HIDE DEF y
<1>5. Object(y) = <<Object(y)[1]>> /\ Object(y)[1] \in ObjectValues(ChannelChainOut) /\ Elements(Object(y)) = {y}
  BY <1>4, ObjectIsOne DEF ObjectValues
<1>6. id \in IdentityOut
  <2> DEFINE v == Object(y)[1]
  <2>1. Object(y) = <<v>> /\ v \in ObjectValues(ChannelChainOut)
    BY <1>5
  <2> HIDE DEF v
  <2> QED
    BY <2>1 DEF IdentityOut
<1>7. Get("Identity", id, "channelChains") = Object(y)
  BY DEF Get, IdentityWith
<1> HIDE DEF id
<1>8. ChainsIn("Identity", id) = {c}
  BY <1>4, <1>5, <1>7, ChainsInAre
<1>9. "Identity" \in Whole /\ MessagesIn("Identity", id) = {}
  <2>1. "Identity" \in Whole /\ "Identity" \in Kinds \ {"ChannelMessage", "ResponseContent"}
    BY DEF Whole, Kinds
  <2> QED
    BY <2>1, MessagesInAre
<1>10. ASSUME NEW p \in Covered("Identity", id) PROVE p \in Covered("Invite", o)
  <2>1. p \in Marks(LinkParts(c))
    BY <1>8, <1>9, NoRequest
  <2> QED
    BY <1>2, <2>1, CoveredIs, ChainsInAre
<1> QED
  BY <1>3, <1>6, <1>10, OutIs DEF HandedOn, Kinds

\* The first of a pair.
LEMMA FirstOf == ASSUME NEW a, NEW b, NEW p, p = <<a, b>> PROVE p[1] = a
OBVIOUS

\* An identity is stored again, and its chains sign requests.
LEMMA IdentityOnward ==
  ASSUME NEW o \in IdentityOut, NEW next \in Onward("Identity", o)
  PROVE  HandedOn("Identity", o, next)
<1>1. /\ IdentityAgain(o) = o /\ o["channelChains"] = Get("Identity", o, "channelChains")
      /\ \A c \in Elements(o["channelChains"]) : Get("ChannelChain", c, "links") \in Chains
  BY IdentityAgainIs
<1>2. \/ next = <<"Identity", o>>
      \/ \E c \in Elements(o["channelChains"]) :
           \E r \in RequestOut({Get("ChannelChain", c, "links")}) : next = <<"RequestContent", r>>
  BY <1>1 DEF Onward
<1>3. ASSUME next = <<"Identity", o>> PROVE HandedOn("Identity", o, next)
  BY <1>3, OutIs DEF HandedOn, Kinds
<1>4. ASSUME NEW c \in Elements(o["channelChains"]), NEW r \in RequestOut({Get("ChannelChain", c, "links")}),
             next = <<"RequestContent", r>>
      PROVE  HandedOn("Identity", o, next)
  <2> DEFINE links == Get("ChannelChain", c, "links")
  <2>1. links \in Chains
    BY <1>1
  <2>2. PICK a \in Asked : r = RequestWith(Chained(a, links))
    BY DEF RequestOut
  <2>3. links \in ChainsIn("Identity", o)
    BY <1>1, ChainsInAre
  <2> HIDE DEF links
  <2>4. r \in Out("RequestContent")
    BY <2>1, <2>2 DEF Out, RequestOut
  <2>5. ChainsIn("RequestContent", r) = {links} /\ Signature("RequestContent", r) = "on request"
    <3> DEFINE t == Chained(a, links)
    <3>1. "chain" \in DOMAIN t /\ t["chain"] = links
      BY ChainedIs
    <3> HIDE DEF t
    <3>2. r = RequestWith(t)
      BY <2>2 DEF t
    <3> QED
      BY <3>1, <3>2, RequestChain
  <2>6. MessagesIn("RequestContent", r) = {}
    <3>1. "RequestContent" \in Kinds \ {"ChannelMessage", "ResponseContent"}
      BY DEF Kinds
    <3> QED
      BY <3>1, MessagesInAre
  <2>7. ASSUME NEW p \in Covered("RequestContent", r)
        PROVE  p[1] = "on request" \/ p \in Covered("Identity", o)
    <3>1. p \in Marks(LinkParts(links)) \/ p = <<"on request",
                                                 Encode("RequestTBS", Tbs("RequestContent", r))>>
      BY <2>5, <2>6, CoveredIs
    <3>2. p \in Marks(LinkParts(links)) => p \in Covered("Identity", o)
      BY <2>3, CoveredIs
    <3>3. ASSUME p = <<"on request", Encode("RequestTBS", Tbs("RequestContent", r))>>
          PROVE  p[1] = "on request"
      BY <3>3, FirstOf
    <3> QED
      BY <3>1, <3>2, <3>3
  <2> QED
    BY <1>4, <2>4, <2>7 DEF HandedOn, Kinds
<1> QED
  BY <1>2, <1>3, <1>4

\* A channel is stored again.
LEMMA ChannelOnward ==
  ASSUME NEW o \in ChannelOut, NEW next \in Onward("Channel", o)
  PROVE  HandedOn("Channel", o, next)
<1>1. next = <<"Channel", o>>
  BY ChannelAgainIs DEF Onward
<1> QED
  BY <1>1, OutIs DEF HandedOn, Kinds

\* Whatever the receiver makes of a value is a value that the library sends, and its
\* signatures cover nothing new, but that of a request.
LEMMA OnwardSound ==
  ASSUME NEW type \in Kinds, NEW o \in Out(type), NEW x, Twin(type, o, x), NEW next \in Onward(type, x)
  PROVE  HandedOn(type, o, next)
<1>1. type \in Whole => x = o
  BY DEF Twin
<1>2. ASSUME type = "ChannelMessage" PROVE HandedOn(type, o, next)
  BY <1>1, <1>2, OutIs, MessageOnward DEF Whole
<1>3. ASSUME type = "ResponseContent" PROVE HandedOn(type, o, next)
  BY <1>3, OutIs, ResponseOnward DEF Twin
<1>4. ASSUME type = "Invite" PROVE HandedOn(type, o, next)
  BY <1>1, <1>4, OutIs, InviteOnward DEF Whole
<1>5. ASSUME type = "Identity" PROVE HandedOn(type, o, next)
  BY <1>1, <1>5, OutIs, IdentityOnward DEF Whole
<1>6. ASSUME type = "Channel" PROVE HandedOn(type, o, next)
  BY <1>1, <1>6, OutIs, ChannelOnward DEF Whole
<1>7. ASSUME type \notin {"ChannelMessage", "ResponseContent", "Invite", "Identity", "Channel"}
      PROVE  Onward(type, x) = {}
  BY <1>7 DEF Onward
<1> QED
  BY <1>2, <1>3, <1>4, <1>5, <1>6, <1>7

-----------------------------------------------------------------------------
\* The invariant: what was sent is something the library sends and its signatures are
\* known; the bytes on their way hold it under every number its type has; and what was
\* read is its twin.

Typed == /\ kind \in Kinds /\ sent \in Out(kind)
         /\ pc \in {"ready", "wire", "read"} /\ hops \in 0..MaxHops /\ extended \in BOOLEAN
Known == Covered(kind, sent) \subseteq signed
Carried == IF pc = "ready" THEN bytes = << >>
           ELSE /\ Bytes(bytes) /\ Like(kind, bytes, Encode(kind, sent))
                /\ ~extended => bytes = Encode(kind, sent)
Understood == IF pc = "read" THEN Twin(kind, sent, got) ELSE got = None
Inv == Typed /\ Known /\ Carried /\ Understood

\* The invariant holds at the start, with what the maker signed.
LEMMA InitInv == Init => Inv
<1> SUFFICES ASSUME Init PROVE Inv
  OBVIOUS
<1>1. Typed
  <2>1. 0 \in 0..MaxHops
    BY WireAssumption
  <2> QED
    BY <2>1 DEF Init, Typed
<1>2. Known
  BY DEF Init, Known
<1>3. Carried /\ Understood
  BY DEF Init, Carried, Understood
<1> QED
  BY <1>1, <1>2, <1>3 DEF Inv

\* Sending: everything sent has a twin, so its bytes are those of the twin.
LEMMA SendInv == ASSUME Inv, Send PROVE Inv'
<1>1. Typed'
  BY DEF Inv, Typed, Send
<1>2. Known'
  BY DEF Inv, Known, Send
<1>3. Carried'
  <2>1. PICK x : Twin(kind, sent, x)
    BY SentTwin DEF Inv, Typed
  <2>2. Encode(kind, sent) = Encode(kind, x)
    BY <2>1, EncodeAlike6 DEF Twin
  <2>3. Bytes(Encode(kind, sent))
    BY <2>1, <2>2, EncodeBytes DEF Twin
  <2>4. Like(kind, Encode(kind, sent), Encode(kind, sent))
    BY DEF Like
  <2> QED
    BY <2>3, <2>4 DEF Carried, Send
<1>4. Understood'
  BY DEF Inv, Understood, Send
<1> QED
  BY <1>1, <1>2, <1>3, <1>4 DEF Inv

\* A field from a later version is under a number that no type has.
LEMMA ExtendInv == ASSUME Inv, Extend PROVE Inv'
<1>1. Typed'
  BY DEF Inv, Typed, Extend
<1>2. Known'
  BY DEF Inv, Known, Extend
<1>3. Carried'
  <2>1. /\ kind \in Types /\ Bytes(bytes) /\ bytes = Encode(kind, sent)
    BY KindsAreTypes DEF Inv, Typed, Carried, Extend
  <2>2. PICK i \in 1..Len(bytes) + 1 : bytes' = InsertAt(bytes, i, Later)
    BY DEF Extend
  <2>3. Like(kind, bytes', bytes) /\ Bytes(bytes')
    BY <2>1, <2>2, InsertLater
  <2>4. kind' = kind /\ sent' = sent /\ pc' = "wire" /\ extended'
    BY DEF Extend
  <2> QED
    BY <2>1, <2>3, <2>4 DEF Carried
<1>4. Understood'
  BY DEF Inv, Understood, Extend
<1> QED
  BY <1>1, <1>2, <1>3, <1>4 DEF Inv

\* Receiving: what is decoded is the twin.
LEMMA ReceiveInv == ASSUME Inv, Receive PROVE Inv'
<1>1. Typed'
  BY DEF Inv, Typed, Receive
<1>2. Known'
  BY DEF Inv, Known, Receive
<1>3. Carried'
  BY DEF Inv, Carried, Receive
<1>4. Understood'
  <2>1. PICK x : Twin(kind, sent, x)
    BY SentTwin DEF Inv, Typed
  <2>2. Encode(kind, sent) = Encode(kind, x)
    BY <2>1, EncodeAlike6 DEF Twin
  <2>3. Decode(kind, bytes) = x
    BY <2>1, <2>2, DecodeInverse6 DEF Inv, Carried, Receive, Twin
  <2>4. kind' = kind /\ sent' = sent /\ pc' = "read" /\ got' = x
    BY <2>3 DEF Receive
  <2> QED
    BY <2>1, <2>4 DEF Understood
<1> QED
  BY <1>1, <1>2, <1>3, <1>4 DEF Inv

\* Passing on: what is handed on is sent by the library, and signed already.
LEMMA PassOnInv == ASSUME Inv, PassOn PROVE Inv'
<1>1. PICK next \in Onward(kind, got) :
        /\ kind' = next[1] /\ sent' = next[2]
        /\ signed' = signed \cup {p \in Covered(next[1], next[2]) : p[1] = "on request"}
  BY DEF PassOn
<1>2. HandedOn(kind, sent, next)
  BY OnwardSound DEF Inv, Typed, Understood, PassOn
<1>3. Typed'
  <2>1. pc' = "ready" /\ hops' \in 0..MaxHops /\ extended' = FALSE
    <3>1. hops \in 0..MaxHops /\ hops < MaxHops /\ hops' = hops + 1
      BY DEF Inv, Typed, PassOn
    <3>2. hops' \in 0..MaxHops
      BY <3>1, WireAssumption
    <3> QED
      BY <3>2 DEF PassOn
  <2> QED
    BY <1>1, <1>2, <2>1 DEF Typed, HandedOn
<1>4. Known'
  BY <1>1, <1>2 DEF Inv, Known, HandedOn
<1>5. Carried' /\ Understood'
  BY DEF PassOn, Carried, Understood
<1> QED
  BY <1>3, <1>4, <1>5 DEF Inv

\* The invariant holds in every reachable state: what is sent is a value of the library
\* whose signatures are known, its bytes hold it, and what was read is its twin.
THEOREM WireInvariant == Spec => []Inv
<1>1. Inv /\ [Next]_vars => Inv'
  <2> SUFFICES ASSUME Inv, [Next]_vars PROVE Inv'
    OBVIOUS
  <2>1. CASE Send
    BY <2>1, SendInv
  <2>2. CASE Extend
    BY <2>2, ExtendInv
  <2>3. CASE Receive
    BY <2>3, ReceiveInv
  <2>4. CASE PassOn
    BY <2>4, PassOnInv
  <2>5. CASE UNCHANGED vars
    BY <2>5 DEF vars, Inv, Typed, Known, Carried, Understood
  <2> QED
    BY <2>1, <2>2, <2>3, <2>4, <2>5 DEF Next
<1> QED
  BY <1>1, InitInv, PTL DEF Spec

\* A decoded object has only properties of its type, and bytes are made of fields: no
\* property comes from a field that messages.js does not know.
THEOREM WireTyped == Spec => []TypeOK
<1>1. ASSUME Inv PROVE TypeOK
  <2>1. DOMAIN got \subseteq Names(kind)
    <3>1. CASE pc = "read"
      BY <1>1, <3>1 DEF Inv, Understood, Twin, Exact, Shaped
    <3>2. CASE pc # "read"
      BY <1>1, <3>2 DEF Inv, Understood, None
    <3> QED
      BY <3>1, <3>2
  <2>2. \A i \in DOMAIN bytes : DOMAIN bytes[i] = {"no", "leaf", "sub"}
    <3>1. CASE pc = "ready"
      BY <1>1, <3>1, EmptyDomain DEF Inv, Carried
    <3>2. CASE pc # "ready"
      BY <1>1, <3>2, BytesDomain DEF Inv, Carried
    <3> QED
      BY <3>1, <3>2
  <2> QED
    BY <1>1, <2>1, <2>2 DEF Inv, Typed, TypeOK
<1> QED
  BY <1>1, WireInvariant, PTL

\* For any number of hops and lists of any length: in every field of every level the
\* receiver reads what the sender wrote, also next to a field of a later version.
THEOREM ReadIsSent == Spec => []Faithful
<1>1. ASSUME Inv PROVE Faithful
  BY <1>1, ReadsAlike6 DEF Inv, Understood, Twin, Faithful
<1> QED
  BY <1>1, WireInvariant, PTL

\* Encoding a decoded value gives the bytes that came, as getSyncRequestKey() and the
\* hash of a message rely on.
THEOREM EncodedAgain == Spec => []BytesStable
<1>1. ASSUME Inv PROVE BytesStable
  BY <1>1, EncodeAlike6 DEF Inv, Carried, Understood, Twin, BytesStable
<1> QED
  BY <1>1, WireInvariant, PTL

\* However often a value is stored, rebuilt and handed on, its signatures cover the bytes
\* that their makers signed, and a message keeps its hash.
THEOREM SignaturesHold == Spec => []SignaturesSurvive
<1>1. ASSUME Inv PROVE SignaturesSurvive
  BY <1>1 DEF Inv, Known, Understood, Twin, SignaturesSurvive
<1> QED
  BY <1>1, WireInvariant, PTL
=============================================================================
