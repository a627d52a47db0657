------------------------------- MODULE Ranges -------------------------------
(***************************************************************************)
(* ranges.json: for each network the blocks that a reward period covers.   *)
(* ranges:update-v3 moves the ends to the heads of the chains; the owes    *)
(* and the rewards commands load the file.  Both ask each chain for its    *)
(* head; the node that answers may lag behind the chain or not answer.     *)
(*                                                                         *)
(* An entry is its first and last block and the first blocks of the        *)
(* markets it lists; names and addresses, their duplicates and the chain   *)
(* ids are left out.                                                       *)
(***************************************************************************)
EXTENDS Integers

CONSTANTS
  Networks,    (* networks of the file, those with rewardsCalcEnabled      *)
  ReorgWindow, (* reorgWindow of each network                              *)
  Unanswered   (* the answer of a node that fails                          *)

ASSUME RangesAssumption ==
  /\ ReorgWindow \in [Networks -> Nat]
  /\ Unanswered \notin Int

Finalized(n, head) ==
  IF head > ReorgWindow[n] THEN head - ReorgWindow[n] ELSE 0

Entry == [start : Int, end : Int, markets : SUBSET Int]

(* validateEntry: the period starts with its first market, and with all    *)
(* of them in version 2.                                                   *)
ValidEntry(version, entry) ==
  /\ entry.start >= 1
  /\ entry.end >= entry.start
  /\ entry.markets # {} => entry.start \in entry.markets
  /\ \A m \in entry.markets : entry.start <= m /\ m <= entry.end
  /\ version = 2 => entry.markets \subseteq {entry.start}

-----------------------------------------------------------------------------
(* ranges:update-v3, which --head makes take heads that are not final.     *)

NewEnd(n, answer, raw) == IF raw THEN answer ELSE Finalized(n, answer)

(* Mutant of Accepts: the end of the entry is not looked at.               *)
AcceptsAny(n, entry, answer, raw) ==
  answer # Unanswered /\ NewEnd(n, answer, raw) >= entry.start

Accepts(n, entry, answer, raw) ==
  /\ answer # Unanswered
  /\ NewEnd(n, answer, raw) >= entry.start
  /\ NewEnd(n, answer, raw) >= entry.end

(* The file is written when every network accepts.                         *)
CanUpdate(file, answers, raw) ==
  \A n \in Networks : Accepts(n, file[n], answers[n], raw)

Updated(file, answers, raw) ==
  [n \in Networks |->
     [file[n] EXCEPT !.end = NewEnd(n, answers[n], raw)]]

-----------------------------------------------------------------------------
(* RangesService.load: valid entries whose end is final for the node that  *)
(* answers.                                                                *)
Loads(version, file, answers) ==
  \A n \in Networks :
    /\ ValidEntry(version, file[n])
    /\ answers[n] # Unanswered
    /\ file[n].end <= Finalized(n, answers[n])
=============================================================================
