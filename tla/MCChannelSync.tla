--------------------------- MODULE MCChannelSync ---------------------------
(* Instances of ChannelSync that TLC checks.                               *)
EXTENDS ChannelSync, TLC

CONSTANT Size

AllMsg == 1..Size

(* Every graph of the given size whose numbers follow the linear order: one *)
(* root, parents that are leaves of some store, heights that never drop.   *)
GraphsOf(size) ==
  LET Reach(p) == LET up[k \in DOMAIN p] == {k} \cup UNION {up[x] : x \in p[k]} IN up
      Height(p) == LET h[k \in DOMAIN p] == Max({0} \cup {h[x] + 1 : x \in p[k]}) IN h
      Fits(p, n, S) ==
        /\ \A a, b \in S : a \in Reach(p)[b] => a = b
        /\ Height(p)[n - 1] <= Max({Height(p)[x] + 1 : x \in S})
      graphs[n \in 1..size] ==
        IF n = 1 THEN {1 :> {}}
        ELSE UNION {{p @@ n :> S : S \in {T \in SUBSET (1..(n - 1)) : T # {} /\ Fits(p, n, T)}}
                    : p \in graphs[n - 1]}
  IN graphs[size]

GraphsOfFive == GraphsOf(5)

(* Four branches on one root, two of which merge.  A store with the third  *)
(* branch and none of the merged ones falls back to a full sync.           *)
FourBranches ==
  1 :> {} @@ 2 :> {1} @@ 3 :> {1} @@ 4 :> {1} @@ 5 :> {1} @@ 6 :> {3, 4} @@ 7 :> {5} @@ 8 :> {2}

(* Two branches of three messages, and a merge of their beginnings.        *)
LongBranches ==
  1 :> {} @@ 2 :> {1} @@ 3 :> {1} @@ 4 :> {2} @@ 5 :> {3} @@ 6 :> {4} @@ 7 :> {5} @@ 8 :> {2, 5}

BranchedGraphs == {FourBranches, LongBranches}
=============================================================================
