------------------------------- MODULE Indexer -------------------------------
(***************************************************************************)
(* IndexerService: one run indexes all configured networks, at most        *)
(* maxParallelNetworks at a time, into the runtime SQLite database.  Each  *)
(* network has ONE cursor for both protocol versions.  A chunk of blocks   *)
(* is processed in four steps: discover the markets listed in it, cut the  *)
(* chunk before the first new market, scan the user logs of the active     *)
(* markets in batches of addresses (V3 first), move the cursor.            *)
(*                                                                         *)
(* The steps of different networks interleave at every await.  Any RPC     *)
(* call may fail for good (withRetries gave up, or getLogsAdaptive did,    *)
(* see RangeScan): the network is skipped for the rest of the run.  The    *)
(* process may be killed at any point; the database keeps what was         *)
(* committed, the run's own variables are lost.                            *)
(*                                                                         *)
(* Abstractions: a chain is a rigid record of listing and activity blocks  *)
(* (blocks up to head - reorgWindow are final); a getLogs call returns all *)
(* logs of its range (RangeScan proves that of getLogsAdaptive); topics    *)
(* and ABI decoding become "this log is about this user".                  *)
(***************************************************************************)
EXTENDS Integers, FiniteSetsExt

CONSTANTS
  Networks,     (* indexingEnabled networks                                *)
  Markets,      (* V2 and V3 market addresses, all networks                *)
  Users,        (* user addresses other than the zero address              *)
  NetworkOf,    (* NetworkOf[m]: network of market m                       *)
  VersionOf,    (* VersionOf[m]: 2 or 3                                    *)
  LastBlock,    (* bound on the length of the chains                       *)
  StartBlock,   (* StartBlock[n]: startBlock of the configuration          *)
  Timestamp,    (* Timestamp[n][b]: timestamp of block b of network n      *)
  BlockStep,    (* blockStep                                               *)
  BatchSize,    (* addressBatchSize                                        *)
  MaxParallel,  (* maxParallelNetworks                                     *)
  Chains,       (* the chains considered                                   *)
  None          (* NULL: no row                                            *)

Blocks == 0 .. LastBlock
Pairs  == Markets \X Users

VARIABLES
  chain,        (* rigid: [listed: [Markets -> SUBSET Blocks],
                           active: [Pairs -> SUBSET Blocks]]               *)
  users,        (* table users: created_at of a row                        *)
  markets,      (* table markets: first_seen_block of a row                *)
  cursor,       (* table cursors: last_block of a row                      *)
  pc,           (* where indexNetwork is, per network                      *)
  finalizedTo,  (* head - reorgWindow as read at the start of the run      *)
  from,         (* first block of the current chunk                        *)
  to,           (* its last block, after the cut                           *)
  known,        (* markets known when the chunk was discovered             *)
  todo          (* markets whose users are still to be scanned             *)

db    == <<users, markets, cursor>>
local == <<pc, finalizedTo, from, to, known, todo>>
vars  == <<chain, db, local>>

Stages == {"off", "queued", "discover", "scan", "commit", "done", "failed"}

MarketsOf(n) == {m \in Markets : NetworkOf[m] = n}
PairsOf(n)   == {p \in Pairs : NetworkOf[p[1]] = n}
TimeAt(m, b) == Timestamp[NetworkOf[m]][b]

(* External facts about the chains: nothing of the protocol exists before  *)
(* the configured start block, and a market has no users before its first  *)
(* listing log.                                                            *)
PlausibleChain(c) ==
  /\ c \in [listed : [Markets -> SUBSET Blocks],
            active : [Pairs -> SUBSET Blocks]]
  /\ \A m \in Markets : \A b \in c.listed[m] : StartBlock[NetworkOf[m]] <= b
  /\ \A p \in Pairs : \A b \in c.active[p] :
       \E l \in c.listed[p[1]] : l <= b

ASSUME IndexerAssumption ==
  /\ LastBlock \in Nat
  /\ NetworkOf \in [Markets -> Networks]
  /\ VersionOf \in [Markets -> {2, 3}]
  /\ StartBlock \in [Networks -> Blocks]
  /\ BlockStep \in Nat \ {0}
  /\ BatchSize \in Nat \ {0}
  /\ MaxParallel \in Nat \ {0}
  /\ None \notin Nat
  /\ IsFiniteSet(Networks) /\ IsFiniteSet(Markets)

ASSUME ChainAssumption == \A c \in Chains : PlausibleChain(c)

(* Block timestamps never decrease; on some networks consecutive blocks    *)
(* share one.                                                              *)
ASSUME TimestampAssumption ==
  /\ Timestamp \in [Networks -> [Blocks -> Nat]]
  /\ \A n \in Networks : \A a, b \in Blocks :
       a <= b => Timestamp[n][a] <= Timestamp[n][b]

-----------------------------------------------------------------------------

(* Mutant of KeepLeast: the row takes the value seen last.                 *)
KeepLatest(old, new) == new

(* The rows of a table keep the smaller of the old and the new value.      *)
KeepLeast(old, new) == IF old = None \/ new < old THEN new ELSE old

LogBlocks(S, n) == {b \in S : from[n] <= b /\ b <= to[n]}

Idle == \A n \in Networks : pc[n] = "off"

(* Mutant of Active: a network that failed keeps its worker.               *)
ActiveOrFailed ==
  {n \in Networks : pc[n] \in {"discover", "scan", "commit", "failed"}}

(* Networks that hold a worker.                                            *)
Active == {n \in Networks : pc[n] \in {"discover", "scan", "commit"}}

RunVariablesReset ==
  /\ pc' = [n \in Networks |-> "off"]
  /\ finalizedTo' = [n \in Networks |-> 0]
  /\ from' = [n \in Networks |-> 0]
  /\ to' = [n \in Networks |-> 0]
  /\ known' = [n \in Networks |-> {}]
  /\ todo' = [n \in Networks |-> {}]

Init ==
  /\ chain \in Chains
  /\ users = [p \in Pairs |-> None]
  /\ markets = [m \in Markets |-> None]
  /\ cursor = [n \in Networks |-> None]
  /\ pc = [n \in Networks |-> "off"]
  /\ finalizedTo = [n \in Networks |-> 0]
  /\ from = [n \in Networks |-> 0]
  /\ to = [n \in Networks |-> 0]
  /\ known = [n \in Networks |-> {}]
  /\ todo = [n \in Networks |-> {}]

(* run(): every enabled network is handed to the worker pool.              *)
StartRun ==
  /\ Idle
  /\ pc' = [n \in Networks |-> "queued"]
  /\ UNCHANGED <<chain, db, finalizedTo, from, to, known, todo>>

(* Next block to index: after the cursor row, or the configured start.     *)
StartFrom(n) == IF cursor[n] = None THEN StartBlock[n] ELSE cursor[n] + 1

(* Mutant of Begin: no early return when the network is up to date.        *)
BeginAlways(n, final) ==
  /\ pc[n] = "queued"
  /\ Cardinality(Active) < MaxParallel
  /\ pc' = [pc EXCEPT ![n] = "discover"]
  /\ finalizedTo' = [finalizedTo EXCEPT ![n] = final]
  /\ from' = [from EXCEPT ![n] = StartFrom(n)]
  /\ known' = [known EXCEPT ![n] = {m \in MarketsOf(n) : markets[m] # None}]
  /\ UNCHANGED <<chain, db, to, todo>>

(* A worker takes the network, reads the head and the cursor.  The head is *)
(* whatever the endpoint reports, possibly behind what it reported before. *)
Begin(n, final) ==
  /\ pc[n] = "queued"
  /\ Cardinality(Active) < MaxParallel
  /\ IF StartFrom(n) > final
     THEN /\ pc' = [pc EXCEPT ![n] = "done"]
          /\ UNCHANGED <<finalizedTo, from, known>>
     ELSE /\ pc' = [pc EXCEPT ![n] = "discover"]
          /\ finalizedTo' = [finalizedTo EXCEPT ![n] = final]
          /\ from' = [from EXCEPT ![n] = StartFrom(n)]
          /\ known' = [known EXCEPT ![n] =
                         {m \in MarketsOf(n) : markets[m] # None}]
  /\ UNCHANGED <<chain, db, to, todo>>

(* Mutant of PlannedTo: the chunk is not capped at the final head.         *)
PlannedPastHead(n) == from[n] + BlockStep - 1

(* Last block of a chunk before the cut.                                   *)
PlannedTo(n) == Min({finalizedTo[n], from[n] + BlockStep - 1})

(* Listing logs <<market, block>> of the planned chunk.                    *)
ListingLogs(n) ==
  {l \in MarketsOf(n) \X Blocks :
     /\ l[2] \in chain.listed[l[1]]
     /\ from[n] <= l[2] /\ l[2] <= PlannedTo(n)}

(* Mutant of Upserted: the last log of a market wins.                      *)
UpsertedLast(S) ==
  [m \in Markets |->
     LET blocks == {b \in Blocks : <<m, b>> \in S} IN
     IF blocks # {} THEN Max(blocks) ELSE markets[m]]

(* Markets table after upsertMarket for each log of S.                     *)
Upserted(S) ==
  [m \in Markets |->
     LET blocks == {b \in Blocks : <<m, b>> \in S} IN
     IF blocks # {} THEN KeepLeast(markets[m], Min(blocks)) ELSE markets[m]]

(* First block of a market not known before, None if there is none.        *)
MinNewBlock(n) ==
  LET new == {b \in Blocks : \E m \in Markets \ known[n] :
                               <<m, b>> \in ListingLogs(n)} IN
  IF new = {} THEN None ELSE Min(new)

(* The chunk ends before the first new market, unless that is its start.   *)
ChunkEnd(n) ==
  LET new == MinNewBlock(n) IN
  IF new # None /\ new > from[n] THEN new - 1 ELSE PlannedTo(n)

(* Mutant of Discover: the markets to scan are listed before the new ones  *)
(* are stored.                                                             *)
DiscoverStale(n) ==
  LET table == Upserted(ListingLogs(n))
      active == {m \in MarketsOf(n) :
                   markets[m] # None /\ markets[m] <= ChunkEnd(n)} IN
  /\ pc[n] = "discover"
  /\ markets' = table
  /\ known' = [known EXCEPT ![n] = @ \cup {l[1] : l \in ListingLogs(n)}]
  /\ to' = [to EXCEPT ![n] = ChunkEnd(n)]
  /\ todo' = [todo EXCEPT ![n] = active]
  /\ pc' = [pc EXCEPT ![n] = IF active = {} THEN "commit" ELSE "scan"]
  /\ UNCHANGED <<chain, users, cursor, finalizedTo, from>>

(* discoverMarketsInRange, the cut, and listMarketsUpTo.                   *)
Discover(n) ==
  LET table == Upserted(ListingLogs(n))
      active == {m \in MarketsOf(n) :
                   table[m] # None /\ table[m] <= ChunkEnd(n)} IN
  /\ pc[n] = "discover"
  /\ markets' = table
  /\ known' = [known EXCEPT ![n] = @ \cup {l[1] : l \in ListingLogs(n)}]
  /\ to' = [to EXCEPT ![n] = ChunkEnd(n)]
  /\ todo' = [todo EXCEPT ![n] = active]
  /\ pc' = [pc EXCEPT ![n] = IF active = {} THEN "commit" ELSE "scan"]
  /\ UNCHANGED <<chain, users, cursor, finalizedTo, from>>

(* The order in which the listing logs are handled: V3, then V2, each in   *)
(* block order.                                                            *)
HandledBefore(k, l) ==
  \/ VersionOf[k[1]] > VersionOf[l[1]]
  \/ VersionOf[k[1]] = VersionOf[l[1]] /\ k[2] < l[2]

(* getLogs or getBlock fails after the logs of S were stored.              *)
DiscoverFails(n, S) ==
  /\ pc[n] = "discover"
  /\ S \subseteq ListingLogs(n)
  /\ \A l \in S, k \in ListingLogs(n) \ S : ~HandledBefore(k, l)
  /\ markets' = Upserted(S)
  /\ pc' = [pc EXCEPT ![n] = "failed"]
  /\ UNCHANGED <<chain, users, cursor, finalizedTo, from, to, known, todo>>

(* V3 markets are scanned before V2 markets.                               *)
CurrentVersion(n) ==
  LET v3 == {m \in todo[n] : VersionOf[m] = 3} IN
  IF v3 # {} THEN v3 ELSE todo[n]

(* An address batch: the next markets by first_seen_block, ties in any     *)
(* order.                                                                  *)
IsBatch(n, B) ==
  LET rest == CurrentVersion(n) IN
  /\ B \subseteq rest
  /\ Cardinality(B) = Min({BatchSize, Cardinality(rest)})
  /\ \A m \in B, k \in rest \ B : markets[m] <= markets[k]

(* The logs of one batch are fetched and its rows stored in a transaction. *)
ScanBatch(n, B) ==
  /\ pc[n] = "scan"
  /\ IsBatch(n, B)
  /\ users' =
       [p \in Pairs |->
          LET seen == LogBlocks(chain.active[p], n) IN
          IF p[1] \in B /\ seen # {}
          THEN KeepLeast(users[p], TimeAt(p[1], Min(seen)))
          ELSE users[p]]
  /\ todo' = [todo EXCEPT ![n] = @ \ B]
  /\ pc' = [pc EXCEPT ![n] = IF todo[n] = B THEN "commit" ELSE "scan"]
  /\ UNCHANGED <<chain, markets, cursor, finalizedTo, from, to, known>>

(* Mutant of CommitCursor: the next chunk starts at the end of this one.   *)
CommitInclusive(n) ==
  /\ pc[n] = "commit"
  /\ cursor' = [cursor EXCEPT ![n] = to[n]]
  /\ from' = [from EXCEPT ![n] = to[n]]
  /\ pc' = [pc EXCEPT ![n] =
              IF to[n] <= finalizedTo[n] THEN "discover" ELSE "done"]
  /\ UNCHANGED <<chain, users, markets, finalizedTo, to, known, todo>>

(* setCursor, and the loop test.                                           *)
CommitCursor(n) ==
  /\ pc[n] = "commit"
  /\ cursor' = [cursor EXCEPT ![n] = to[n]]
  /\ from' = [from EXCEPT ![n] = to[n] + 1]
  /\ pc' = [pc EXCEPT ![n] =
              IF to[n] + 1 <= finalizedTo[n] THEN "discover" ELSE "done"]
  /\ UNCHANGED <<chain, users, markets, finalizedTo, to, known, todo>>

(* getBlockNumber fails, or the fetch of a batch does before its rows are  *)
(* stored: run() logs the error and skips the network.                     *)
Skip(n) ==
  /\ \/ pc[n] = "queued" /\ Cardinality(Active) < MaxParallel
     \/ pc[n] = "scan"
  /\ pc' = [pc EXCEPT ![n] = "failed"]
  /\ UNCHANGED <<chain, db, finalizedTo, from, to, known, todo>>

IndexStep(n) ==
  \/ \E final \in Blocks : Begin(n, final)
  \/ Discover(n)
  \/ \E S \in SUBSET ListingLogs(n) : DiscoverFails(n, S)
  \/ \E B \in SUBSET todo[n] : ScanBatch(n, B)
  \/ CommitCursor(n)
  \/ Skip(n)

(* Promise.all(workers) has settled.                                       *)
AllSettled == \A n \in Networks : pc[n] \in {"done", "failed"}

FinishRun ==
  /\ AllSettled
  /\ RunVariablesReset
  /\ UNCHANGED <<chain, db>>

(* The process is killed.                                                  *)
Crash ==
  /\ ~Idle
  /\ RunVariablesReset
  /\ UNCHANGED <<chain, db>>

Next ==
  \/ StartRun
  \/ \E n \in Networks : IndexStep(n)
  \/ FinishRun
  \/ Crash

(* Every await settles: RPC calls time out, so a network that holds a      *)
(* worker keeps moving, and a free worker takes the next network.          *)
Fairness == \A n \in Networks : WF_vars(IndexStep(n))

Spec == Init /\ [][Next]_vars /\ Fairness

-----------------------------------------------------------------------------

(* Types of the variables: every block a run works with is one the chain   *)
(* has, so no chunk reaches past the head.                                 *)
TypeOK ==
  /\ chain \in Chains
  /\ users \in [Pairs -> Nat \cup {None}]
  /\ markets \in [Markets -> Blocks \cup {None}]
  /\ cursor \in [Networks -> Blocks \cup {None}]
  /\ pc \in [Networks -> Stages]
  /\ finalizedTo \in [Networks -> Blocks]
  /\ from \in [Networks -> 0 .. LastBlock + 1]
  /\ to \in [Networks -> Blocks]
  /\ known \in [Networks -> SUBSET Markets]
  /\ todo \in [Networks -> SUBSET Markets]

FirstBlock(p) == Min(chain.active[p])

(* A row carries the timestamp of the first log of its user and market,    *)
(* however the chunks were cut, repeated after a failure or scanned again  *)
(* after a crash: the reward services date users by it.                    *)
RowsExact ==
  \A p \in Pairs : users[p] # None =>
    chain.active[p] # {} /\ users[p] = TimeAt(p[1], FirstBlock(p))

(* Behind the cursor nobody is missing: every user active in a block up to *)
(* the cursor of a network has a row ("one cursor per network" for V2 and  *)
(* V3, market discovery in the middle of a chunk included).                *)
IndexComplete ==
  \A n \in Networks : cursor[n] # None =>
    \A p \in PairsOf(n) :
      (\E b \in chain.active[p] : b <= cursor[n]) => users[p] # None

(* A market row has the block of the first listing log, and every market   *)
(* listed up to the cursor has a row.                                      *)
MarketsExact ==
  \A m \in Markets :
    /\ markets[m] # None =>
         chain.listed[m] # {} /\ markets[m] = Min(chain.listed[m])
    /\ /\ cursor[NetworkOf[m]] # None
       /\ \E b \in chain.listed[m] : b <= cursor[NetworkOf[m]]
       => markets[m] # None

(* Why the three invariants hold: while a chunk is in work, what the       *)
(* cursor will vouch for is already true of the blocks up to the end of    *)
(* the chunk, except for users of markets still to be scanned.             *)
InChunk(n, b) == pc[n] \in {"scan", "commit"} /\ b <= to[n]

Position(n) ==
  /\ n \in Active => from[n] = StartFrom(n) /\ from[n] <= finalizedTo[n]
  /\ pc[n] \in {"scan", "commit"} =>
       /\ from[n] <= to[n] /\ to[n] <= finalizedTo[n]
       /\ todo[n] \subseteq MarketsOf(n)
  /\ pc[n] = "commit" => todo[n] = {}

MarketsBehind(n) ==
  \A m \in MarketsOf(n) : \A b \in chain.listed[m] :
    b < StartFrom(n) \/ InChunk(n, b) => markets[m] # None

UsersBehind(n) ==
  \A p \in PairsOf(n) : \A b \in chain.active[p] :
    b < StartFrom(n) \/ (InChunk(n, b) /\ p[1] \notin todo[n])
      => users[p] # None

FirstSeenExact ==
  \A m \in Markets : markets[m] # None =>
    chain.listed[m] # {} /\ markets[m] = Min(chain.listed[m])

(* The strengthening that is inductive.                                    *)
Inductive ==
  /\ \A n \in Networks : Position(n) /\ MarketsBehind(n) /\ UsersBehind(n)
  /\ FirstSeenExact
  /\ RowsExact

(* The abstract index of UserIndex, with the same tables.                  *)
Index == INSTANCE UserIndex WITH
           activity <- chain.active,
           Activity <- {c.active : c \in Chains}

(* The indexer implements it: rows are only ever exact, and the cursor     *)
(* only moves forward over complete blocks, although the head reported by  *)
(* the endpoint may go backwards.                                          *)
ImplementsUserIndex == Index!Spec

(* A network has nothing left to index below the head it read.             *)
AtHead(n) == pc[n] = "done" /\ StartFrom(n) > finalizedTo[n]

(* A network that a worker took does not stay at work for ever, and stops  *)
(* at the head it read unless an RPC call fails or the process dies: the   *)
(* cuts never make the loop spin.                                          *)
ReachesHead ==
  \A n \in Networks : []<>(pc[n] \in {"off", "queued", "failed"} \/ AtHead(n))

(* A queued network is taken by a worker even when the networks before it  *)
(* fail or hang until their calls time out.                                *)
EveryNetworkServed == \A n \in Networks : []<>(pc[n] # "queued")
=============================================================================
