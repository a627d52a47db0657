------------------------- MODULE MCV2PeriodRewards -------------------------
(* Instances of V2PeriodRewards and V2CompState for TLC.                   *)
EXTENDS V2CompState

CONSTANTS u1, u2

TwoUsers == {u1, u2}

(* Blocks 1 and 2 share a timestamp; market 2 is listed in block 1.        *)
SharedTime == [b \in 0 .. LastBlock |-> IF b < 2 THEN b ELSE b - 1]
SecondListedLater == [m \in {1, 2} |-> m - 1]

U2Supplies == [a \in {1, 2} \X TwoUsers |-> IF a = <<1, u2>> THEN 1 ELSE 0]
U1Borrows  == [a \in {1, 2} \X TwoUsers |-> IF a = <<1, u1>> THEN 1 ELSE 0]
Nothing    == [a \in {1, 2} \X TwoUsers |-> 0]

(* Rewards start after block 0.                                            *)
Fresh ==
  {[rewardsFrom |-> 1, balance |-> U2Supplies, principal |-> Nothing,
    index |-> [p \in Pools |-> InitialIndex]]}

(* Both sides of market 1 had earned one unit per share when block 0       *)
(* ended, and nobody was credited yet.                                     *)
Seasoned ==
  {[rewardsFrom |-> 0, balance |-> U2Supplies, principal |-> U1Borrows,
    index |-> [p \in Pools |-> IF p[1] = 1 THEN 2 * InitialIndex
                                          ELSE InitialIndex]]}

(* Rewards start in the last block, the token is deployed before or then.  *)
Late ==
  {[rewardsFrom |-> LastBlock, balance |-> Nothing, principal |-> Nothing,
    index |-> [p \in Pools |-> InitialIndex]]}

AllPasts == Fresh \cup Seasoned \cup Late
=============================================================================
