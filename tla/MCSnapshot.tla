----------------------------- MODULE MCSnapshot -----------------------------
(* Instances of Snapshot for TLC.                                          *)
EXTENDS Snapshot

CONSTANTS n1, m1, m2, u1, u2

OneNetwork == {n1}
TwoMarkets == {m1, m2}
TwoUsers   == {u1, u2}
OnN1       == [m \in TwoMarkets |-> n1]
BothV2     == [m \in TwoMarkets |-> 2]
V2AndV3    == [m \in TwoMarkets |-> IF m = m1 THEN 2 ELSE 3]
StartAt0   == [n \in OneNetwork |-> 0]

(* Every block has its own time, or blocks 1 and 2 share one.              *)
Strict == [n \in OneNetwork |-> [b \in 0 .. 3 |-> b + 1]]
Shared == [n \in OneNetwork |-> [b \in 0 .. 3 |-> IF b < 2 THEN b + 1 ELSE b]]

(* Users of m1 appear in blocks 1 and 2, users of m2 in blocks 2 and 3 or  *)
(* 1 and 2.                                                                *)
Seen(m, u, late) ==
  CASE m = m1 -> IF u = u1 THEN {1, 3} ELSE {2}
    [] m = m2 /\ late -> IF u = u1 THEN {2} ELSE {3}
    [] OTHER -> IF u = u1 THEN {1} ELSE {2}

SnapshotChains ==
  {[listed |-> [m \in TwoMarkets |-> IF m = m1 THEN {0} ELSE {1}],
    active |-> [p \in TwoMarkets \X TwoUsers |-> Seen(p[1], p[2], late)]] :
     late \in BOOLEAN}

All == {"import", "users", "check", "ready", "index", "flush", "sync"}
AllButImportAndFlush == All \ {"import", "flush"}
=============================================================================
