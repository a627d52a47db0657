--------------------------- MODULE RewardsSession ---------------------------
(***************************************************************************)
(* An operator's clone while rewards are made: yarn full-index brings the  *)
(* index up to the ranges, rewards:generate-v2-merkl and -v3-merkl refuse  *)
(* a network whose cursor is before the end of its range and otherwise     *)
(* replace files of result/; ranges.json is moved on in between.  One      *)
(* command is run at a time.                                               *)
(***************************************************************************)
EXTENDS Retry, MerklExport

vars == <<retryVars, exportVars>>

Init == RetryInit /\ ExportInit

NoExport == step = "idle"
NoWrapper == wrapper \in {"idle", "done", "gave up"}

(* Nothing is left of the wrapper and its child once they have ended.      *)
WrapperGone ==
  /\ wrapper' = "idle" /\ restarts' = 0 /\ child' = "none"
  /\ line' = FALSE /\ matched' = FALSE /\ unheard' = FALSE
  /\ unserved' = {}

(* ranges:update-v3, or an edit of ranges.json.                            *)
MoveRanges ==
  /\ NoExport /\ NoWrapper
  /\ WrapperGone
  /\ behind' = Networks
  /\ UNCHANGED exportVars

FullIndex == NoExport /\ StartWrapper /\ UNCHANGED exportVars

WrapperStep == RetryStep /\ UNCHANGED exportVars

(* The rewards command: load, assertIndexedThrough for every network,      *)
(* calculate, export.  What fails before the export leaves no trace.       *)
GenerateRewards(groups) ==
  /\ NoWrapper /\ behind = {}
  /\ BeginExport(groups)
  /\ WrapperGone
  /\ UNCHANGED behind

Next ==
  \/ MoveRanges
  \/ FullIndex
  \/ WrapperStep
  \/ \E groups \in (SUBSET (1 .. Groups)) \ {{}} : GenerateRewards(groups)
  \/ ExportStep /\ UNCHANGED retryVars

(* Node and the operating system run the wrapper and its child on.         *)
Spec == Init /\ [][Next]_vars /\ WF_vars(WrapperStep)
=============================================================================
