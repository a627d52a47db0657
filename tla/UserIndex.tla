------------------------------ MODULE UserIndex ------------------------------
(***************************************************************************)
(* What the indexer promises about the runtime database, without batches,  *)
(* markets, failures or restarts: rows appear at any time but always with  *)
(* the time of the first activity of their user in their market, and the   *)
(* cursor of a network is moved only over blocks whose users are all in.   *)
(* The runtime database of Indexer and the snapshot of Snapshot both       *)
(* implement it.                                                           *)
(***************************************************************************)
EXTENDS Integers, FiniteSetsExt

CONSTANTS
  Networks,   (* configured networks                                       *)
  Pairs,      (* <<market, user>> pairs                                    *)
  NetworkOf,  (* network of a market                                       *)
  Blocks,     (* block numbers, 0 .. LastBlock                             *)
  Timestamp,  (* Timestamp[n][b]: timestamp of block b of network n        *)
  Activity,   (* possible activities: sets of functions Pairs -> SUBSET Blocks *)
  None        (* no row, no cursor                                         *)

VARIABLES
  activity,   (* activity[p]: blocks with a log of that user and market    *)
  users,      (* users[p]: created_at of the row of p, None without a row  *)
  cursor      (* cursor[n]: last block indexed, None before the first      *)

FirstSeen(p) == Timestamp[NetworkOf[p[1]]][Min(activity[p])]

Init ==
  /\ activity \in Activity
  /\ users = [p \in Pairs |-> None]
  /\ cursor = [n \in Networks |-> None]

(* Some users with activity become known, each with its first timestamp.   *)
Learn(S) ==
  /\ \A p \in S : activity[p] # {}
  /\ users' = [p \in Pairs |-> IF p \in S THEN FirstSeen(p) ELSE users[p]]
  /\ UNCHANGED <<activity, cursor>>

(* Some cursors move forward, over blocks whose users are known.           *)
Advance(new) ==
  /\ \A n \in Networks : new[n] # cursor[n] =>
       /\ new[n] # None
       /\ cursor[n] # None => cursor[n] < new[n]
       /\ \A p \in Pairs :
            NetworkOf[p[1]] = n /\ (\E x \in activity[p] : x <= new[n])
              => users[p] # None
  /\ cursor' = new
  /\ UNCHANGED <<activity, users>>

Next ==
  \/ \E S \in SUBSET Pairs : Learn(S)
  \/ \E new \in [Networks -> Blocks \cup {None}] : Advance(new)

Spec == Init /\ [][Next]_<<activity, users, cursor>>
=============================================================================
