------------------------- MODULE MCV3PeriodRewards -------------------------
(* Instances of V3PeriodRewards for TLC.                                   *)
EXTENDS V3PeriodRewards

CONSTANTS m1, m2, u1, u2

TwoMarkets == {m1, m2}
TwoUsers == {u1, u2}
OneToken == [m \in TwoMarkets |-> "comp"]

(* Blocks 1 and 2 share a timestamp; m2 is listed in block 1.              *)
SharedTime == [b \in 0 .. LastBlock |-> IF b < 2 THEN b ELSE b - 1]
SecondListedLater == [m \in TwoMarkets |-> IF m = m1 THEN 0 ELSE 1]

Zero == [a \in TwoMarkets \X TwoUsers |-> 0]
U1In == [Zero EXCEPT ![<<m1, u1>>] = 1]

(* u1 holds a position in m1.  It has no rewards yet, nor is there a       *)
(* contract to pay them; or u1 was paid a third of what was tracked.       *)
Fresh ==
  {[deployedAt |-> 1, position |-> U1In, tracked |-> Zero, claimed |-> Zero,
    configured |-> {}]}
Seasoned ==
  {[deployedAt |-> 0, position |-> U1In, tracked |-> [Zero EXCEPT ![<<m1, u1>>] = 3],
    claimed |-> U1In, configured |-> {m1}]}
FreshOrSeasoned == Fresh \cup Seasoned

(* All markets; m1 alone, from the start; both, m1 later than m2.          *)
SomeSelections ==
  {[m \in {} |-> 0], [m \in {m1} |-> 0],
   [m \in TwoMarkets |-> IF m = m1 THEN 1 ELSE 0]}
=============================================================================
