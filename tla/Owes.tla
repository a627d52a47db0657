-------------------------------- MODULE Owes --------------------------------
(***************************************************************************)
(* The commands owes:generate-v2 and owes:generate-v3: what the protocol   *)
(* owes each user at the snapshot block of each network.  Up to            *)
(* MaxParallel networks are worked on at once; a network pages over its    *)
(* indexed users.  Version 2 makes two passes: the first adds up what is   *)
(* pending in each market for each user, across pages; the second reads    *)
(* the accrued amount of each user once and writes the sum of the two.     *)
(* Version 3 writes one amount per market and user.  The rows go through a *)
(* table of the runtime database to two files, the totals and the detail.  *)
(*                                                                         *)
(* A read that fails is one of two things: counted, and the run refuses to *)
(* publish, or swallowed by owedForUsers, and the row is low or missing.   *)
(* The history variable dropped remembers the second kind.                 *)
(*                                                                         *)
(* Abstractions: an amount is a small natural in base units (formatOwes    *)
(* turns a total into a double); the cache of market boundaries is left    *)
(* out, since a boundary that fails costs the users of the page the same   *)
(* as a pending read that fails; a user stays indexed during a run.        *)
(***************************************************************************)
EXTENDS Integers, Sequences, SequencesExt, FiniteSets, FiniteSetsExt

CONSTANTS
  Entries,     (* Entries[n]: indexed <<market, user>> pairs of network n, *)
               (* ORDER BY market, user                                    *)
  Due,         (* Due[b][n][i]: at snapshot b, pending (version 2) or owed *)
               (* (version 3) for entry i of network n                     *)
  Accrued,     (* Accrued[b][n][u]: compAccrued of user u (version 2)      *)
  Page,        (* pageSize                                                 *)
  ExportPage,  (* pageSize of the export                                   *)
  MaxParallel, (* maxParallelNetworks                                      *)
  None

Networks   == DOMAIN Entries
Blocks     == DOMAIN Due
UsersOf(n) == {Entries[n][i][2] : i \in DOMAIN Entries[n]}

ASSUME OwesAssumption ==
  /\ Entries \in Seq(Seq((Nat \ {0}) \X Nat))
  /\ Due \in Seq(Seq(Seq(Nat))) \ {<<>>} /\ Accrued \in Seq(Seq(Seq(Nat)))
  /\ DOMAIN Accrued = Blocks
  /\ \A b \in Blocks :
       DOMAIN Due[b] = Networks /\ DOMAIN Accrued[b] = Networks
  /\ \A b \in Blocks, n \in Networks :
       /\ DOMAIN Due[b][n] = DOMAIN Entries[n]
       /\ UsersOf(n) \subseteq DOMAIN Accrued[b][n]
  /\ \A n \in Networks : \A i, j \in DOMAIN Entries[n] : i < j =>
       LET e == Entries[n][i]  f == Entries[n][j] IN
       e[1] < f[1] \/ (e[1] = f[1] /\ e[2] < f[2])
  /\ {Page, ExportPage, MaxParallel} \subseteq Nat \ {0}
  /\ None \notin Int

VARIABLES
  version, (* the command that runs: 2 or 3                                *)
  block,   (* the snapshot that ranges.json asks for                       *)
  phase,   (* where the run is                                             *)
  exit,    (* exit code of the last run, None while it runs                *)
  stage,   (* stage[n]: pass of network n                                  *)
  at,      (* at[n]: first entry that the pass has not read                *)
  pending, (* pendingByUser of n                                           *)
  written, (* users of n whose row is written (version 2)                  *)
  failed,  (* networks with a counted failure (incompleteNetworks)         *)
  table,   (* rows of the version in the table owes                        *)
  totals,  (* the file owes-v2.json or owes-v3.json                        *)
  detail,  (* the file owes-detailed-v2.json or -v3.json                   *)
  dropped  (* keys whose read owedForUsers swallowed in this run (history) *)

work  == <<stage, at, pending, written, failed, table, dropped>>
files == <<totals, detail>>
vars  == <<version, block, phase, exit, work, files>>

Row(n, m, u, owed) == [network |-> n, market |-> m, user |-> u, owed |-> owed]

(* The key of a row in the table.                                          *)
Key(r) == <<r.network, r.market, r.user>>

(* Rows of version 2 carry the comptroller in the place of the market.     *)
Comptroller == 0

NoPending == [n \in Networks |-> [u \in UsersOf(n) |-> 0]]

Init ==
  /\ version \in {2, 3}
  /\ block = 1
  /\ phase = "ended" /\ exit = None
  /\ stage = [n \in Networks |-> "queued"]
  /\ at = [n \in Networks |-> 1]
  /\ pending = NoPending
  /\ written = [n \in Networks |-> {}]
  /\ failed = {} /\ table = {} /\ dropped = {}
  /\ totals = None
  /\ detail = [rows |-> <<>>, closed |-> FALSE]

(* What a process knows when it starts, and is lost when it dies.          *)
FreshMemory ==
  /\ stage' = [n \in Networks |-> "queued"]
  /\ at' = [n \in Networks |-> 1]
  /\ pending' = NoPending
  /\ written' = [n \in Networks |-> {}]
  /\ failed' = {} /\ dropped' = {}

(* Mutant of Start: the rows of the run before are left in the table.      *)
StartOnOldRows ==
  /\ phase = "ended"
  /\ phase' = "calc" /\ exit' = None
  /\ block' \in {b \in Blocks : b >= block}
  /\ FreshMemory
  /\ UNCHANGED <<version, table, files>>

(* The command starts: the runtime database is put together and the rows   *)
(* of the version are deleted; ranges.json may have moved on.              *)
Start ==
  /\ phase = "ended"
  /\ phase' = "calc" /\ exit' = None
  /\ block' \in {b \in Blocks : b >= block}
  /\ FreshMemory
  /\ table' = {}
  /\ UNCHANGED <<version, files>>

(* The process is killed, or something that is not caught further in fails *)
(* (a gap in ranges.json, the database, a file); workers left behind find  *)
(* the database closed.                                                    *)
Stop ==
  /\ phase # "ended"
  /\ phase' = "ended" /\ exit' = 1
  /\ FreshMemory
  /\ UNCHANGED <<version, block, table, files>>

-----------------------------------------------------------------------------
(* The networks.                                                           *)

(* A free worker takes the next network.                                   *)
Take(n) ==
  /\ phase = "calc" /\ stage[n] = "queued"
  /\ \A k \in Networks : k < n => stage[k] # "queued"
  /\ Cardinality({k \in Networks : stage[k] \in {"pending", "owed"}})
       < MaxParallel
  /\ stage' = [stage EXCEPT ![n] = IF version = 2 THEN "pending" ELSE "owed"]
  /\ UNCHANGED <<version, block, phase, exit, at, pending, written, failed,
                 table, dropped, files>>

(* Entry n, i is to be read in this pass.                                  *)
Reading(n, pass) ==
  phase = "calc" /\ stage[n] = pass /\ at[n] \in DOMAIN Entries[n]

(* What is left to read of the page that a pass is in.                     *)
RestOfPage(n) ==
  {i \in DOMAIN Entries[n] :
     i >= at[n] /\ (i - 1) \div Page = (at[n] - 1) \div Page}

(* The entries of one market among them.                                   *)
MarketOfPage(n) ==
  {i \in RestOfPage(n) : Entries[n][i][1] = Entries[n][at[n]][1]}

(* Sum of the amounts at the positions of S.                               *)
SumAt(amounts, S) ==
  LET upTo[k \in 0 .. Len(amounts)] ==
        IF k = 0 THEN 0
        ELSE upTo[k - 1] + (IF k \in S THEN amounts[k] ELSE 0)
  IN  upTo[Len(amounts)]

Past(n, group) == at' = [at EXCEPT ![n] = Max(group) + 1]

(* Mutant of ReadPending: the amount of a user is set, not added to.       *)
ReadPendingAnew(n) ==
  /\ Reading(n, "pending")
  /\ pending' = [pending EXCEPT ![n] =
       [u \in UsersOf(n) |->
          IF \E i \in MarketOfPage(n) : Entries[n][i][2] = u
          THEN SumAt(Due[block][n],
                     {i \in MarketOfPage(n) : Entries[n][i][2] = u})
          ELSE @[u]]]
  /\ Past(n, MarketOfPage(n))
  /\ UNCHANGED <<version, block, phase, exit, stage, written, failed, table,
                 dropped, files>>

(* First pass of version 2: what is pending in one market for the users of *)
(* the page; the reads of the users in F fail and are counted.             *)
ReadPending(n) ==
  /\ Reading(n, "pending")
  /\ \E F \in SUBSET MarketOfPage(n) :
       /\ pending' = [pending EXCEPT ![n] =
            [u \in UsersOf(n) |-> @[u] +
               SumAt(Due[block][n], {i \in MarketOfPage(n) \ F :
                                       Entries[n][i][2] = u})]]
       /\ failed' = IF F = {} THEN failed ELSE failed \union {n}
  /\ Past(n, MarketOfPage(n))
  /\ UNCHANGED <<version, block, phase, exit, stage, written, table, dropped,
                 files>>

(* Mutant of EndPass: a network with failures is read again.               *)
EndPassOrRepeat(n) ==
  /\ phase = "calc" /\ stage[n] \in {"pending", "owed"}
  /\ at[n] \notin DOMAIN Entries[n]
  /\ stage' = [stage EXCEPT ![n] = IF n \in failed THEN @
                                  ELSE IF @ = "pending" THEN "owed" ELSE "done"]
  /\ failed' = failed \ {n}
  /\ at' = [at EXCEPT ![n] = 1]
  /\ UNCHANGED <<version, block, phase, exit, pending, written, table, dropped,
                 files>>

(* A pass has no page left.                                                *)
EndPass(n) ==
  /\ phase = "calc" /\ stage[n] \in {"pending", "owed"}
  /\ at[n] \notin DOMAIN Entries[n]
  /\ stage' = [stage EXCEPT ![n] = IF @ = "pending" THEN "owed" ELSE "done"]
  /\ at' = [at EXCEPT ![n] = 1]
  /\ UNCHANGED <<version, block, phase, exit, pending, written, failed, table,
                 dropped, files>>

(* upsertOwesBatch.                                                        *)
Upsert(rows) ==
  table' = {r \in table : \A s \in rows : Key(r) # Key(s)} \union rows

NotZero(rows) == {r \in rows : r.owed # 0}

(* Second pass of version 2: the accrued amounts of the users of a page    *)
(* that have no row yet, those of D swallowed (remainingV2OwedRows).       *)
ReadAccrued(n) ==
  LET users == {Entries[n][i][2] : i \in RestOfPage(n)} \ written[n] IN
  /\ version = 2 /\ Reading(n, "owed")
  /\ \E D \in SUBSET users :
       /\ Upsert(NotZero(
            {Row(n, Comptroller, u,
                 (IF u \in D THEN 0 ELSE Accrued[block][n][u])
                   + pending[n][u]) : u \in users}))
       /\ dropped' = dropped \union {<<n, Comptroller, u>> : u \in D}
  /\ written' = [written EXCEPT ![n] = @ \union users]
  /\ Past(n, RestOfPage(n))
  /\ UNCHANGED <<version, block, phase, exit, stage, pending, failed, files>>

(* The pass of version 3: what is owed for the entries of a page, those of *)
(* D swallowed.                                                            *)
ReadOwed(n) ==
  /\ version = 3 /\ Reading(n, "owed")
  /\ \E D \in SUBSET RestOfPage(n) :
       /\ Upsert(NotZero(
            {Row(n, Entries[n][i][1], Entries[n][i][2], Due[block][n][i]) :
               i \in RestOfPage(n) \ D}))
       /\ dropped' = dropped \union
            {<<n, Entries[n][i][1], Entries[n][i][2]>> : i \in D}
  /\ Past(n, RestOfPage(n))
  /\ UNCHANGED <<version, block, phase, exit, stage, pending, written, failed,
                 files>>

(* owedForUsers or the write throws: the page is counted and left out.     *)
PageThrows(n) ==
  /\ Reading(n, "owed")
  /\ failed' = failed \union {n}
  /\ Past(n, RestOfPage(n))
  /\ UNCHANGED <<version, block, phase, exit, stage, pending, written, table,
                 dropped, files>>

-----------------------------------------------------------------------------
(* The files.                                                              *)

(* Mutant of FinishCalc: the networks that are complete are published.     *)
FinishCalcAnyway ==
  /\ phase = "calc" /\ \A n \in Networks : stage[n] = "done"
  /\ IF failed # Networks THEN phase' = "totals" /\ UNCHANGED exit
                          ELSE phase' = "ended" /\ exit' = 1
  /\ UNCHANGED <<version, block, work, files>>

(* All networks are through.                                               *)
FinishCalc ==
  /\ phase = "calc" /\ \A n \in Networks : stage[n] = "done"
  /\ IF failed = {} THEN phase' = "totals" /\ UNCHANGED exit
                    ELSE phase' = "ended" /\ exit' = 1
  /\ UNCHANGED <<version, block, work, files>>

SumOf(rows) == MapThenSumSet(LAMBDA r : r.owed, rows)

(* getOwesTotalsByNetwork and formatOwes, which leaves zero totals out.    *)
TotalsOf(rows) ==
  [n \in {r.network : r \in rows} |->
     SumOf({r \in rows : r.network = n})]

WriteTotals ==
  /\ phase = "totals"
  /\ totals' = TotalsOf(table)
  /\ phase' = "open"
  /\ UNCHANGED <<version, block, exit, work, detail>>

OpenDetail ==
  /\ phase = "open"
  /\ detail' = [rows |-> <<>>, closed |-> FALSE]
  /\ phase' = "export"
  /\ UNCHANGED <<version, block, exit, work, totals>>

(* ORDER BY owed_hex DESC, network, market, user.                          *)
Before(r, s) ==
  \/ r.owed > s.owed
  \/ /\ r.owed = s.owed
     /\ \/ r.network < s.network
        \/ r.network = s.network /\ r.market < s.market
        \/ r.network = s.network /\ r.market = s.market /\ r.user < s.user

Sorted(rows) ==
  CHOOSE q \in [1 .. Cardinality(rows) -> rows] :
    \A i, j \in DOMAIN q : i < j => Before(q[i], q[j])

(* fetchOwesPageByVersion.                                                 *)
FetchPage(offset) ==
  LET sorted == Sorted(table) IN
  SubSeq(sorted, offset + 1, Min({offset + ExportPage, Len(sorted)}))

AppendDetail ==
  /\ phase = "export"
  /\ LET rows == FetchPage(Len(detail.rows)) IN
     /\ detail' = [detail EXCEPT !.rows = @ \o rows]
     /\ phase' = IF Len(rows) < ExportPage THEN "close" ELSE "export"
  /\ UNCHANGED <<version, block, exit, work, totals>>

CloseDetail ==
  /\ phase = "close"
  /\ detail' = [detail EXCEPT !.closed = TRUE]
  /\ phase' = "ended" /\ exit' = 0
  /\ UNCHANGED <<version, block, work, totals>>

-----------------------------------------------------------------------------
Progress ==
  \/ \E n \in Networks :
       \/ Take(n) \/ ReadPending(n) \/ EndPass(n)
       \/ ReadAccrued(n) \/ ReadOwed(n) \/ PageThrows(n)
  \/ FinishCalc \/ WriteTotals \/ OpenDetail \/ AppendDetail \/ CloseDetail

Next == Start \/ Stop \/ Progress

Spec     == Init /\ [][Next]_vars
FairSpec == Spec /\ WF_vars(Progress)

-----------------------------------------------------------------------------
(* Properties.                                                             *)

RowSet == [network : Networks, market : Nat, user : Nat, owed : Nat]

TypeOK ==
  /\ version \in {2, 3} /\ block \in Blocks
  /\ phase \in {"calc", "totals", "open", "export", "close", "ended"}
  /\ exit \in {None, 0, 1}
  /\ stage \in [Networks -> {"queued", "pending", "owed", "done"}]
  /\ \A n \in Networks :
       /\ at[n] \in 1 .. Len(Entries[n]) + 1
       /\ pending[n] \in [UsersOf(n) -> Nat]
       /\ written[n] \subseteq UsersOf(n)
  /\ failed \subseteq Networks
  /\ \A r \in table : r \in RowSet /\ r.owed > 0
  /\ detail \in [rows : Seq(RowSet), closed : BOOLEAN]

(* What the table should hold for network n at a block b when the reads of *)
(* the keys in skip had no answer.                                         *)
Expected(n, b, skip) ==
  NotZero(
    IF version = 3
    THEN {Row(n, Entries[n][i][1], Entries[n][i][2], Due[b][n][i]) :
            i \in {j \in DOMAIN Entries[n] :
                     <<n, Entries[n][j][1], Entries[n][j][2]>> \notin skip}}
    ELSE {Row(n, Comptroller, u,
              (IF <<n, Comptroller, u>> \in skip THEN 0 ELSE Accrued[b][n][u])
                + SumAt(Due[b][n], {i \in DOMAIN Entries[n] :
                                      Entries[n][i][2] = u})) :
            u \in UsersOf(n)})

(* A network that is through without a counted failure has exactly the     *)
(* rows of this run's block: every user once (version 2), with the pending *)
(* amounts of all markets however the pages cut them, and nothing left     *)
(* over from an earlier run; only swallowed reads are missing.             *)
RowsExact ==
  \A n \in Networks :
    phase # "ended" /\ stage[n] = "done" /\ n \notin failed =>
      {r \in table : r.network = n} = Expected(n, block, dropped)

(* After a run that ends with exit code 0 the two files on disk tell the   *)
(* same: the totals are the sums of the detail rows, which are in order,   *)
(* complete and closed, and of the block of this run.                      *)
FilesAgree ==
  exit = 0 =>
    /\ detail.closed
    /\ ToSet(detail.rows) =
         UNION {Expected(n, block, dropped) : n \in Networks}
    /\ \A i, j \in DOMAIN detail.rows :
         i < j => Before(detail.rows[i], detail.rows[j])
    /\ totals = TotalsOf(ToSet(detail.rows))

(* A run that counted a failure anywhere, however early, never touches the *)
(* files of the run before it.                                             *)
RefusedKeepsFiles == [][files' # files => failed = {}]_vars

(* Whatever fails in it, a run ends.                                       *)
RunEnds == (phase = "calc") ~> (phase = "ended")
=============================================================================
