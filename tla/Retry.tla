-------------------------------- MODULE Retry --------------------------------
(***************************************************************************)
(* yarn full-index: retry.ts starts yarn cli:index in a process group of   *)
(* its own and starts it again when it exits with an error or prints a     *)
(* line that matches RETRY_PATTERNS.  Such a line has the group killed,    *)
(* but the indexer may end by itself before; and a line still in the pipe  *)
(* when the exit is reported is never read.                                *)
(*                                                                         *)
(* The command exits with 0 also when it refuses the snapshot or fails to  *)
(* write it, since IndexCommand.run logs every error and returns; an exit  *)
(* by a signal has no code and counts as 0.                                *)
(***************************************************************************)
EXTENDS Naturals

CONSTANTS
  Networks,    (* networks to index                                        *)
  Mainnet,     (* the one RETRY_PATTERNS names                             *)
  MaxRestarts  (* FULL_SYNC_MAX_RESTARTS                                   *)

ASSUME RetryAssumption == Mainnet \in Networks /\ MaxRestarts \in Nat

VARIABLES
  wrapper,   (* what the loop of main does                                 *)
  restarts,
  child,     (* "running", or how the indexer ended                        *)
  line,      (* the pipe holds a matching line                             *)
  matched,   (* logTriggeredRestart                                        *)
  unserved,  (* networks this indexer has not come to                      *)
  behind,    (* networks whose cursor is before the end of their range     *)
  unheard    (* history: this indexer hid a failure from the wrapper       *)

retryVars == <<wrapper, restarts, child, line, matched, unserved, behind, unheard>>

RetryInit ==
  /\ wrapper = "idle" /\ restarts = 0
  /\ child = "none"
  /\ line = FALSE /\ matched = FALSE /\ unheard = FALSE
  /\ unserved = {} /\ behind = Networks

(* runOnce starts yarn cli:index.                                          *)
Spawn ==
  /\ wrapper' = "running" /\ child' = "running"
  /\ line' = FALSE /\ matched' = FALSE /\ unheard' = FALSE
  /\ unserved' = Networks

StartWrapper ==
  /\ wrapper \in {"idle", "done", "gave up"}
  /\ restarts' = 0
  /\ Spawn
  /\ UNCHANGED behind

-----------------------------------------------------------------------------
(* The indexer.                                                            *)

Serve(n) ==
  /\ child = "running" /\ n \in unserved
  /\ unserved' = unserved \ {n}
  /\ behind' = behind \ {n}
  /\ UNCHANGED <<wrapper, restarts, child, line, matched, unheard>>

(* A node that lags behind the range ends the network early, without an    *)
(* error.                                                                  *)
FallShort(n) ==
  /\ child = "running" /\ n \in unserved
  /\ unserved' = unserved \ {n}
  /\ unheard' = TRUE
  /\ UNCHANGED <<wrapper, restarts, child, line, matched, behind>>

(* The error that is printed with the network may be of a lost connection, *)
(* which matches whatever the network is.                                  *)
SkipNetwork(n) ==
  /\ child = "running" /\ n \in unserved
  /\ unserved' = unserved \ {n}
  /\ line' \in {TRUE, line \/ n = Mainnet}
  /\ UNCHANGED <<wrapper, restarts, child, matched, behind, unheard>>

Finish ==
  /\ child = "running" /\ unserved = {}
  /\ child' = "finished"
  /\ UNCHANGED <<wrapper, restarts, line, matched, unserved, behind, unheard>>

(* The error is logged and the exit code is 0: assemble() before the first *)
(* network, flush() after the last.                                        *)
FailQuietly ==
  /\ child = "running" /\ unserved \in {{}, Networks}
  /\ child' = "refused"
  /\ UNCHANGED <<wrapper, restarts, line, matched, unserved, behind, unheard>>

(* The build fails, or node dies.                                          *)
Crash ==
  /\ child = "running"
  /\ child' = "crashed"
  /\ UNCHANGED <<wrapper, restarts, line, matched, unserved, behind, unheard>>

(* Killed by another than the wrapper, or by it after a match.             *)
Signalled ==
  /\ child = "running"
  /\ child' = "killed"
  /\ UNCHANGED <<wrapper, restarts, line, matched, unserved, behind, unheard>>

-----------------------------------------------------------------------------
(* The wrapper.                                                            *)

(* onMatch: the group is sent SIGTERM, and SIGKILL later.                  *)
ReadLine ==
  /\ wrapper = "running" /\ line
  /\ line' = FALSE /\ matched' = TRUE
  /\ UNCHANGED <<wrapper, restarts, child, unserved, behind, unheard>>

(* The exit code of a child, null taken for 0.                             *)
Code == IF child = "crashed" THEN 1 ELSE 0

(* Mutant of Succeeded: the exit code decides alone.                       *)
SucceededByCode == Code = 0

Succeeded == Code = 0 /\ ~matched

(* Mutant of HandleExit: an exit that a line caused is not counted.        *)
HandleExitUncounted ==
  /\ wrapper = "running" /\ child \notin {"none", "running"}
  /\ IF Succeeded
     THEN wrapper' = "done" /\ UNCHANGED restarts
     ELSE /\ restarts' = IF matched THEN restarts ELSE restarts + 1
          /\ wrapper' = IF restarts' > MaxRestarts THEN "gave up" ELSE "waiting"
  /\ unheard' = (unheard \/ line \/ child \in {"refused", "killed"})
  /\ UNCHANGED <<child, line, matched, unserved, behind>>

(* The exit event, with or without a line left in the pipe.                *)
HandleExit ==
  /\ wrapper = "running" /\ child \notin {"none", "running"}
  /\ IF Succeeded
     THEN wrapper' = "done" /\ UNCHANGED restarts
     ELSE /\ restarts' = restarts + 1
          /\ wrapper' = IF restarts' > MaxRestarts THEN "gave up" ELSE "waiting"
  /\ unheard' = (unheard \/ line \/ child \in {"refused", "killed"})
  /\ UNCHANGED <<child, line, matched, unserved, behind>>

StartAgain ==
  /\ wrapper = "waiting"
  /\ Spawn
  /\ UNCHANGED <<restarts, behind>>

ChildStep ==
  \/ \E n \in Networks : Serve(n) \/ FallShort(n) \/ SkipNetwork(n)
  \/ Finish \/ FailQuietly \/ Crash \/ Signalled

RetryStep == ChildStep \/ ReadLine \/ HandleExit \/ StartAgain

-----------------------------------------------------------------------------

RetryTypeOK ==
  /\ wrapper \in {"idle", "running", "waiting", "done", "gave up"}
  /\ restarts \in 0 .. MaxRestarts + 1
  /\ child \in {"none", "running", "finished", "refused", "crashed", "killed"}
  /\ line \in BOOLEAN /\ matched \in BOOLEAN /\ unheard \in BOOLEAN
  /\ unserved \subseteq Networks /\ behind \subseteq Networks

(* "Done" means that mainnet is indexed as far as its range, although an   *)
(* indexer that skips it exits with 0 as well and may do so before the     *)
(* kill reaches it: unless the line was lost, the error was swallowed, a   *)
(* node lagged or another process killed the indexer.                      *)
DoneServed == wrapper = "done" /\ ~unheard => Mainnet \notin behind

(* The wrapper comes to an end, however often the indexer fails.           *)
WrapperEnds == (wrapper = "running") ~> (wrapper \in {"done", "gave up"})
=============================================================================
