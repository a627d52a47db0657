------------------------------ MODULE MCIndexer ------------------------------
(* Instances of Indexer for TLC.                                           *)
EXTENDS Indexer, TLC

CONSTANTS n1, n2, n3, m1, m2, m3, u1

(* Three networks on two workers, so that two interleave and one waits.    *)
(* n1 has a V2 market at its start and a V3 market listed twice, later, in *)
(* the middle of a chunk; n2 has one market, and n3 none yet.              *)
ThreeNetworks == {n1, n2, n3}
ThreeMarkets == {m1, m2, m3}
OneUser      == {u1}
OnEach       == m1 :> n1 @@ m2 :> n1 @@ m3 :> n2
Versions     == m1 :> 2 @@ m2 :> 3 @@ m3 :> 2
Starts       == n1 :> 0 @@ n2 :> 3 @@ n3 :> 3
LastOfChain  == 3

(* Blocks 2 and 3 of n1 share a timestamp.                                 *)
Times ==
  [n \in ThreeNetworks |->
     [b \in 0 .. LastOfChain |-> IF n = n1 /\ b > 2 THEN b - 1 ELSE b]]

(* m1 has users before and after m2 is listed; m2 has them from its        *)
(* listing block on, or only at the end.                                   *)
Chain(a, x, y) ==
  [listed |-> m1 :> {0} @@ m2 :> {a, a + 1} @@ m3 :> {3},
   active |-> [p \in ThreeMarkets \X OneUser |->
                 IF p[1] = m1 THEN x ELSE IF p[1] = m2 THEN y ELSE {3}]]

ThreeNetworkChains == {Chain(1, {1, 3}, {2, 3}), Chain(2, {3}, {3})}
=============================================================================
