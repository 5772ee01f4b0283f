----------------------------- MODULE MCChannel -----------------------------
(* Instances of Channel that TLC checks.  r1 owns the channel.             *)
EXTENDS Channel, TLC

CONSTANTS r1, r2, c1, c2, c3, h0, h1, h2, h3

(* Two calls in flight on r1's channel, one on r2's. *)
OverlapHome == c1 :> r1 @@ c2 :> r1 @@ c3 :> r2

(* Two calls in flight on r2's channel, one on r1's: a variation the README  *)
(* describes.                                                              *)
TwoReceiversHome == c1 :> r1 @@ c2 :> r2 @@ c3 :> r2

(* One call at a time on each channel. *)
SerialHome == c1 :> r1 @@ c2 :> r2

(* r2's clock is ahead of r1's by all of the leeway. *)
SkewedClocks == r1 :> 0 @@ r2 :> 1

(* Message hashes other than the root's are interchangeable. *)
HashSymmetry == Permutations(Hash \ {Root})
=============================================================================
