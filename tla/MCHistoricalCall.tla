-------------------------- MODULE MCHistoricalCall --------------------------
(* Instances of HistoricalCall for TLC.                                    *)
EXTENDS HistoricalCall, TLC

CONSTANTS c1, c2

TwoCallers == {c1, c2}

(* c1 asks for one chunk of three calls, c2 for one of two.                *)
Kinds == c1 :> <<"ok", "revert", "ok">> @@ c2 :> <<"ok", "empty">>
Sizes == c1 :> 3 @@ c2 :> 2
=============================================================================
