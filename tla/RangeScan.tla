------------------------------ MODULE RangeScan ------------------------------
(***************************************************************************)
(* getLogsAdaptive: the logs of a block range are fetched over an RPC      *)
(* endpoint that may refuse a range (too many results) or fail for a       *)
(* moment.  A refused range is cut in two and both halves go on a LIFO     *)
(* stack; a transient error is retried by withRetries before it counts as  *)
(* a refusal; a refused single block aborts the whole scan.                *)
(*                                                                         *)
(* The indexer pushes the later half first, so that the earlier half is    *)
(* popped first; the reward service pushes the halves the other way round. *)
(* EarlierHalfFirst selects the caller.                                    *)
(*                                                                         *)
(* A log is represented by the block it is in, and the result by the       *)
(* sequence of ranges that were answered: every answer carries all logs of *)
(* its range in block order.                                               *)
(***************************************************************************)
EXTENDS Integers, Sequences

CONSTANTS
  FromBlock,        (* first block of the request                          *)
  ToBlock,          (* last block of the request                           *)
  Attempts,         (* rpcRetryAttempts: calls made before giving up       *)
  EarlierHalfFirst  (* TRUE: IndexerService, FALSE: V2PeriodRewardsService *)

ASSUME ScanAssumption ==
  /\ FromBlock \in Nat
  /\ ToBlock \in Nat
  /\ FromBlock <= ToBlock
  /\ Attempts \in Nat \ {0}
  /\ EarlierHalfFirst \in BOOLEAN

VARIABLES
  stack,    (* ranges still to fetch, the last one is popped next          *)
  out,      (* ranges answered so far, in the order of the result          *)
  attempt,  (* number of the call being made for the range on top          *)
  status    (* "running", "done" (returned) or "failed" (threw)            *)

scanVars == <<stack, out, attempt, status>>

Blocks == FromBlock .. ToBlock
Ranges == Blocks \X Blocks

Top == stack[Len(stack)]
Pop == SubSeq(stack, 1, Len(stack) - 1)

(* Math.floor((a + b) / 2)                                                 *)
Mid(a, b) == (a + b) \div 2

(* Mutant: the middle block is in both halves.                             *)
HalvesOverlap(a, b) == << <<Mid(a, b), b>>, <<a, Mid(a, b)>> >>

(* Mutant: the halves are pushed in the order they are read.               *)
HalvesSwapped(a, b) == << <<a, Mid(a, b)>>, <<Mid(a, b) + 1, b>> >>

(* The two halves in the order in which they are pushed.                   *)
Halves(a, b) ==
  IF EarlierHalfFirst
  THEN << <<Mid(a, b) + 1, b>>, <<a, Mid(a, b)>> >>
  ELSE << <<a, Mid(a, b)>>, <<Mid(a, b) + 1, b>> >>

-----------------------------------------------------------------------------

ScanInit ==
  /\ stack = << <<FromBlock, ToBlock>> >>
  /\ out = << >>
  /\ attempt = 1
  /\ status = "running"

Calling == status = "running" /\ stack # << >>

(* provider.getLogs answers: the logs are appended to the result.          *)
Answer ==
  /\ Calling
  /\ out' = Append(out, Top)
  /\ stack' = Pop
  /\ attempt' = 1
  /\ UNCHANGED status

(* Mutant: the attempt counter starts over instead of running out.         *)
RetryForever ==
  /\ Calling
  /\ attempt' = (attempt % Attempts) + 1
  /\ UNCHANGED <<stack, out, status>>

(* Mutant: no limit on the attempts.                                       *)
RetryUnlimited ==
  /\ Calling
  /\ attempt <= Attempts
  /\ attempt' = attempt + 1
  /\ UNCHANGED <<stack, out, status>>

(* withRetries: a retryable error before the last attempt is tried again.  *)
Retry ==
  /\ Calling
  /\ attempt < Attempts
  /\ attempt' = attempt + 1
  /\ UNCHANGED <<stack, out, status>>

(* withRetries threw (last attempt, or an error that is not retryable) and *)
(* the range has more than one block: it is replaced by its two halves.    *)
Split ==
  /\ Calling
  /\ Top[1] < Top[2]
  /\ stack' = Pop \o Halves(Top[1], Top[2])
  /\ attempt' = 1
  /\ UNCHANGED <<out, status>>

(* withRetries threw for a single block: the error leaves the scan.        *)
GiveUp ==
  /\ Calling
  /\ Top[1] >= Top[2]
  /\ status' = "failed"
  /\ UNCHANGED <<stack, out, attempt>>

(* The stack is empty: the result is returned.                             *)
Return ==
  /\ status = "running"
  /\ stack = << >>
  /\ status' = "done"
  /\ UNCHANGED <<stack, out, attempt>>

ScanNext == Answer \/ Retry \/ Split \/ GiveUp \/ Return

(* Every await of the scan settles: the RPC calls have timeouts.           *)
ScanSpec == ScanInit /\ [][ScanNext]_scanVars /\ WF_scanVars(ScanNext)

-----------------------------------------------------------------------------

(* Requests stay inside the range asked for and the attempts within        *)
(* rpcRetryAttempts.                                                       *)
TypeOK ==
  /\ stack \in Seq(Ranges)
  /\ out \in Seq(Ranges)
  /\ attempt \in 1 .. Attempts
  /\ status \in {"running", "done", "failed"}

Holds(r, b) == r[1] <= b /\ b <= r[2]

Disjoint(r, s) == \A b \in Blocks : ~(Holds(r, b) /\ Holds(s, b))

Covered(b) ==
  \/ \E i \in 1 .. Len(out) : Holds(out[i], b)
  \/ \E i \in 1 .. Len(stack) : Holds(stack[i], b)

(* No block is ever held by two ranges of the result and the stack, and    *)
(* until the scan throws none is lost: however often the request is split, *)
(* each log is delivered once.  (Sums over logs, such as the distributed   *)
(* rewards, depend on it.)                                                 *)
ExactlyOnce ==
  /\ \A b \in Blocks : Covered(b)
  /\ \A i, j \in 1 .. Len(out) : i # j => Disjoint(out[i], out[j])
  /\ \A i, j \in 1 .. Len(stack) : i # j => Disjoint(stack[i], stack[j])
  /\ \A i \in 1 .. Len(out), j \in 1 .. Len(stack) :
       Disjoint(out[i], stack[j])

(* A scan that returns has fetched every block of the request.             *)
DoneIsComplete ==
  status = "done" =>
    \A b \in Blocks : \E i \in 1 .. Len(out) : Holds(out[i], b)

(* With the earlier half on top the result is in block order, which is     *)
(* what makes the first log seen of a user or a market its earliest one.   *)
InBlockOrder ==
  EarlierHalfFirst =>
    \A i, j \in 1 .. Len(out) : i < j => out[i][2] < out[j][1]

(* Whatever the endpoint answers, the scan comes to an end.                *)
Terminates == <>(status # "running")
=============================================================================
