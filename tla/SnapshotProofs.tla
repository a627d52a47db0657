---------------------------- MODULE SnapshotProofs ----------------------------
(***************************************************************************)
(* Proofs about Snapshot: the types of its variables, RuntimeComplete,     *)
(* SnapshotComplete, SnapshotValid and that what is published implements   *)
(* UserIndex, for all chains, sizes and schedules, under the hypotheses    *)
(* named Orderly below.                                                    *)
(*                                                                         *)
(* The snapshot has no sequence number: it tells what it has by times.     *)
(* flushUsers writes the rows later than end_created_at_ts of the last     *)
(* chunk and takes the others for written.  So the argument is about       *)
(* times, and the invariant SnapInv has six threads:                       *)
(*   - Closed: the users table has, with a user, whoever came before it in *)
(*     the same series.  Indexing keeps it so because one batch of         *)
(*     addresses takes all markets of a version (OneBatch), and no two     *)
(*     blocks share a time (TimesDiffer);                                  *)
(*   - Covers: who is not later than the watermark of a series is in its   *)
(*     declared files, or, during a flush, in the queue.  A chunk's last   *)
(*     row becomes the watermark, and Closed gives that nobody before it   *)
(*     was left out;                                                       *)
(*   - FlushOK: during a flush every user in the table is in a file, waits *)
(*     in the queue, or its series is still to be flushed; files only grow *)
(*     and the manifest in memory is never shorter than the one on disk,   *)
(*     so dying in between takes nothing away from what is published;      *)
(*   - MetaOK: behind the cursors of meta.sqlite every user is in a        *)
(*     declared file, unless one of these files is missing;                *)
(*   - Rely: a runtime database that has every user of the declared files  *)
(*     is complete behind its cursors, and closed.  That is what the check *)
(*     before use is worth, for a database that a process which died left  *)
(*     half imported or half indexed;                                      *)
(*   - Working: from the check on, the indexer's own invariant (Inductive  *)
(*     below) holds.                                                       *)
(*                                                                         *)
(* Two more invariants stand on it.  Matching: chunk files and the         *)
(* manifest they are written for agree to the row, which a death in the    *)
(* middle of the flush or a lost file breaks.  Ahead: the cursors of the   *)
(* runtime database are never behind those of meta.sqlite, which a death   *)
(* between createEmptyRuntime and the import of meta.sqlite breaks: while  *)
(* no user is published yet, the next run takes the empty database for a   *)
(* whole one.                                                              *)
(*                                                                         *)
(* Without OneBatch an interrupted run leaves a table that is not closed,  *)
(* and where two blocks share a time the flush takes the later of two      *)
(* users for written: in both cases SnapshotComplete is false.  It is also *)
(* false when manifest.json alone is lost, since a snapshot that declares  *)
(* nothing misses nothing.                                                 *)
(***************************************************************************)
EXTENDS Snapshot, WellFoundedInduction, FiniteSetTheorems, SequenceTheorems,
        TLAPS

-----------------------------------------------------------------------------
(* The indexer, for every set of networks, markets and users, every chain, *)
(* block step, batch size and number of workers.                           *)

(* A non-empty set of natural numbers has a least element, and Min is it.  *)
LEMMA MinLemma ==
  ASSUME NEW S \in SUBSET Nat, S # {}
  PROVE  /\ Min(S) \in S
         /\ \A x \in S : Min(S) <= x
<1>1. \E x \in S : \A y \in S : ~(<<y, x>> \in OpToRel(<, Nat))
  BY WFMin, NatLessThanWellFounded
<1>2. \E x \in S : \A y \in S : x <= y
  <2>1. PICK x \in S : \A y \in S : ~(<<y, x>> \in OpToRel(<, Nat)) BY <1>1
  <2>2. \A y \in S : ~(y < x) BY <2>1 DEF OpToRel
  <2>3. \A y \in S : x <= y BY <2>2
  <2>4. QED BY <2>3
<1>3. QED BY <1>2 DEF Min

(* The same for sets of blocks.                                            *)
LEMMA MinBlock ==
  ASSUME NEW S, S \subseteq Blocks, S # {}
  PROVE  /\ Min(S) \in S /\ Min(S) \in Blocks /\ Min(S) \in Nat
         /\ \A x \in S : Min(S) <= x
<1>1. Blocks \subseteq Nat BY IndexerAssumption DEF Blocks
<1>2. S \in SUBSET Nat BY <1>1
<1>3. Min(S) \in S /\ \A x \in S : Min(S) <= x BY <1>2, MinLemma
<1>4. QED BY <1>1, <1>3

LEMMA MinPair ==
  ASSUME NEW a \in Int, NEW b \in Int
  PROVE  /\ Min({a, b}) \in {a, b}
         /\ Min({a, b}) <= a /\ Min({a, b}) <= b
<1>1. \E x \in {a, b} : \A y \in {a, b} : x <= y
  <2>1. CASE a <= b BY <2>1
  <2>2. CASE b <= a BY <2>2
  <2>3. QED BY <2>1, <2>2
<1>2. QED BY <1>1 DEF Min

(* The run's block variables are numbers.                                  *)
LEMMA LocalNat ==
  ASSUME TypeOK, NEW n \in Networks
  PROVE  from[n] \in Nat /\ to[n] \in Nat /\ finalizedTo[n] \in Nat
<1>1. LastBlock \in Nat /\ Blocks \subseteq Nat
  BY IndexerAssumption DEF Blocks
<1>2. /\ from[n] \in 0 .. LastBlock + 1
      /\ to[n] \in Blocks /\ finalizedTo[n] \in Blocks
  BY DEF TypeOK
<1>3. from[n] \in Nat BY <1>1, <1>2
<1>4. QED BY <1>1, <1>2, <1>3

(* A planned chunk starts where the chunk starts and ends by the head.     *)
LEMMA PlannedLemma ==
  ASSUME TypeOK, NEW n \in Networks, from[n] <= finalizedTo[n]
  PROVE  /\ PlannedTo(n) \in Blocks
         /\ from[n] <= PlannedTo(n)
         /\ PlannedTo(n) <= finalizedTo[n]
<1>1. /\ finalizedTo[n] \in 0 .. LastBlock /\ from[n] \in 0 .. LastBlock + 1
      /\ LastBlock \in Nat /\ BlockStep \in Nat \ {0}
  BY IndexerAssumption DEF TypeOK, Blocks
<1>2. from[n] + BlockStep - 1 \in Int /\ from[n] <= from[n] + BlockStep - 1
  BY <1>1
<1>3. /\ PlannedTo(n) \in {finalizedTo[n], from[n] + BlockStep - 1}
      /\ PlannedTo(n) <= finalizedTo[n]
  <2> DEFINE f == finalizedTo[n]
             g == from[n] + BlockStep - 1
  <2>1. f \in Int /\ g \in Int BY <1>1, <1>2
  <2>2. PlannedTo(n) = Min({f, g}) BY DEF PlannedTo
  <2> HIDE DEF f, g
  <2>3. Min({f, g}) \in {f, g} /\ Min({f, g}) <= f BY <2>1, MinPair
  <2>4. QED BY <2>2, <2>3 DEF f, g
<1>4. from[n] <= PlannedTo(n) BY <1>2, <1>3
<1>5. QED BY <1>1, <1>3, <1>4 DEF Blocks

(* The cut leaves at least the first block of the chunk and never reaches  *)
(* past the plan.                                                          *)
LEMMA ChunkEndLemma ==
  ASSUME TypeOK, NEW n \in Networks, from[n] <= finalizedTo[n]
  PROVE  /\ ChunkEnd(n) \in Blocks
         /\ from[n] <= ChunkEnd(n)
         /\ ChunkEnd(n) <= PlannedTo(n)
<1>1. /\ PlannedTo(n) \in Blocks /\ from[n] <= PlannedTo(n)
  BY PlannedLemma
<1>2. CASE MinNewBlock(n) # None /\ MinNewBlock(n) > from[n]
  <2> DEFINE new == {b \in Blocks : \E m \in Markets \ known[n] :
                                    <<m, b>> \in ListingLogs(n)}
  <2>1. new # {} /\ MinNewBlock(n) = Min(new)
    BY <1>2 DEF MinNewBlock
  <2>2. Min(new) \in new BY <2>1, MinBlock
  <2>3. Min(new) \in Blocks /\ Min(new) <= PlannedTo(n)
    BY <2>2 DEF ListingLogs
  <2>4. ChunkEnd(n) = Min(new) - 1 BY <1>2, <2>1 DEF ChunkEnd
  <2>5. Min(new) > from[n] BY <1>2, <2>1
  <2> HIDE DEF new
  <2>6. QED
    BY <1>1, <2>3, <2>4, <2>5, IndexerAssumption DEF TypeOK, Blocks
<1>3. CASE ~(MinNewBlock(n) # None /\ MinNewBlock(n) > from[n])
  <2>1. ChunkEnd(n) = PlannedTo(n) BY <1>3 DEF ChunkEnd
  <2>2. QED BY <1>1, <2>1, IndexerAssumption DEF Blocks
<1>4. QED BY <1>2, <1>3

(* Upserting listing logs: only markets with a log change, to a block of   *)
(* a log or to what they were.                                             *)
LEMMA UpsertedType ==
  ASSUME TypeOK, NEW S
  PROVE  Upserted(S) \in [Markets -> Blocks \cup {None}]
<1> SUFFICES ASSUME NEW m \in Markets
             PROVE  Upserted(S)[m] \in Blocks \cup {None}
  BY DEF Upserted
<1> DEFINE B == {b \in Blocks : <<m, b>> \in S}
<1>1. B # {} => Min(B) \in Blocks BY MinBlock
<1>2. markets[m] \in Blocks \cup {None} BY DEF TypeOK
<1>3. QED BY <1>1, <1>2 DEF Upserted, KeepLeast

LEMMA TimeType ==
  ASSUME NEW m \in Markets, NEW b \in Blocks
  PROVE  TimeAt(m, b) \in Nat
BY TimestampAssumption, IndexerAssumption DEF TimeAt

LEMMA TypeInit == Init => TypeOK
BY IndexerAssumption DEF Init, TypeOK, Stages, Blocks

LEMMA ResetType == TypeOK /\ RunVariablesReset /\ UNCHANGED <<chain, db>> => TypeOK'
BY IndexerAssumption DEF RunVariablesReset, TypeOK, Stages, Blocks, db

LEMMA BeginType ==
  ASSUME TypeOK, NEW n \in Networks, NEW final \in Blocks,
         Position(n), Begin(n, final)
  PROVE  TypeOK'
<1>1. StartFrom(n) \in 0 .. LastBlock + 1
  BY IndexerAssumption DEF StartFrom, TypeOK, Blocks
<1>2. {m \in MarketsOf(n) : markets[m] # None} \subseteq Markets
  BY DEF MarketsOf
<1>3. UNCHANGED <<chain, users, markets, cursor, to, todo>>
  BY DEF Begin, db
<1>4. /\ pc' \in [Networks -> Stages]
      /\ finalizedTo' \in [Networks -> Blocks]
      /\ from' \in [Networks -> 0 .. LastBlock + 1]
      /\ known' \in [Networks -> SUBSET Markets]
  BY <1>1, <1>2 DEF Begin, TypeOK, Stages
<1>5. QED BY <1>3, <1>4 DEF TypeOK

LEMMA DiscoverType ==
  ASSUME TypeOK, NEW n \in Networks, Position(n), Discover(n)
  PROVE  TypeOK'
<1>1. from[n] <= finalizedTo[n]
  BY DEF Position, Discover, Active
<1>2. ChunkEnd(n) \in Blocks BY <1>1, ChunkEndLemma
<1>3. markets' \in [Markets -> Blocks \cup {None}]
  BY UpsertedType DEF Discover
<1>4. {l[1] : l \in ListingLogs(n)} \subseteq Markets
  BY DEF ListingLogs, MarketsOf
<1>5. known' \in [Networks -> SUBSET Markets]
  BY <1>4 DEF Discover, TypeOK
<1>6. to' \in [Networks -> Blocks] BY <1>2 DEF Discover, TypeOK
<1>7. todo' \in [Networks -> SUBSET Markets]
  BY DEF Discover, TypeOK, MarketsOf
<1>8. pc' \in [Networks -> Stages] BY DEF Discover, TypeOK, Stages
<1>9. UNCHANGED <<chain, users, cursor, finalizedTo, from>>
  BY DEF Discover
<1>10. QED BY <1>3, <1>5, <1>6, <1>7, <1>8, <1>9 DEF TypeOK

LEMMA DiscoverFailsType ==
  ASSUME TypeOK, NEW n \in Networks, NEW S, DiscoverFails(n, S)
  PROVE  TypeOK'
<1>1. markets' \in [Markets -> Blocks \cup {None}]
  BY UpsertedType DEF DiscoverFails
<1>2. pc' \in [Networks -> Stages] BY DEF DiscoverFails, TypeOK, Stages
<1>3. UNCHANGED <<chain, users, cursor, finalizedTo, from, to, known, todo>>
  BY DEF DiscoverFails
<1>4. QED BY <1>1, <1>2, <1>3 DEF TypeOK

LEMMA ScanType ==
  ASSUME TypeOK, NEW n \in Networks, NEW B, ScanBatch(n, B)
  PROVE  TypeOK'
<1>1. users' \in [Pairs -> Nat \cup {None}]
  <2> DEFINE seen(p) == LogBlocks(chain.active[p], n)
  <2>1. ASSUME NEW p \in Pairs, seen(p) # {}
        PROVE  TimeAt(p[1], Min(seen(p))) \in Nat
    <3>1. chain.active[p] \subseteq Blocks
      BY ChainAssumption DEF TypeOK, PlausibleChain
    <3>2. Min(seen(p)) \in Blocks BY <2>1, <3>1, MinBlock DEF LogBlocks
    <3>3. p[1] \in Markets BY DEF Pairs
    <3>4. QED BY <3>2, <3>3, TimeType
  <2>2. \A p \in Pairs : users[p] \in Nat \cup {None} BY DEF TypeOK
  <2>3. users' =
         [p \in Pairs |->
            IF p[1] \in B /\ seen(p) # {}
            THEN KeepLeast(users[p], TimeAt(p[1], Min(seen(p))))
            ELSE users[p]]
    BY DEF ScanBatch
  <2> HIDE DEF seen
  <2>4. QED BY <2>1, <2>2, <2>3 DEF KeepLeast
<1>2. todo' \in [Networks -> SUBSET Markets] BY DEF ScanBatch, TypeOK
<1>3. pc' \in [Networks -> Stages] BY DEF ScanBatch, TypeOK, Stages
<1>4. UNCHANGED <<chain, markets, cursor, finalizedTo, from, to, known>>
  BY DEF ScanBatch
<1>5. QED BY <1>1, <1>2, <1>3, <1>4 DEF TypeOK

LEMMA CommitType ==
  ASSUME TypeOK, NEW n \in Networks, CommitCursor(n)
  PROVE  TypeOK'
<1>1. to[n] \in Blocks /\ to[n] + 1 \in 0 .. LastBlock + 1
  BY IndexerAssumption DEF TypeOK, Blocks
<1>2. cursor' \in [Networks -> Blocks \cup {None}]
  BY <1>1 DEF CommitCursor, TypeOK
<1>3. from' \in [Networks -> 0 .. LastBlock + 1]
  BY <1>1 DEF CommitCursor, TypeOK
<1>4. pc' \in [Networks -> Stages] BY DEF CommitCursor, TypeOK, Stages
<1>5. UNCHANGED <<chain, users, markets, finalizedTo, to, known, todo>>
  BY DEF CommitCursor
<1>6. QED BY <1>2, <1>3, <1>4, <1>5 DEF TypeOK

LEMMA SkipType ==
  ASSUME TypeOK, NEW n \in Networks, Skip(n)
  PROVE  TypeOK'
BY DEF Skip, TypeOK, Stages, db

LEMMA TypeStep ==
  ASSUME TypeOK, Inductive, [Next]_vars
  PROVE  TypeOK'
<1>1. ASSUME NEW n \in Networks, IndexStep(n) PROVE TypeOK'
  <2>1. Position(n) BY DEF Inductive
  <2>2. ASSUME NEW final \in Blocks, Begin(n, final) PROVE TypeOK'
    BY <2>1, <2>2, BeginType
  <2>3. CASE Discover(n) BY <2>1, <2>3, DiscoverType
  <2>4. ASSUME NEW S, DiscoverFails(n, S) PROVE TypeOK'
    BY <2>4, DiscoverFailsType
  <2>5. ASSUME NEW B, ScanBatch(n, B) PROVE TypeOK' BY <2>5, ScanType
  <2>6. CASE CommitCursor(n) BY <2>6, CommitType
  <2>7. CASE Skip(n) BY <2>7, SkipType
  <2>8. QED BY <1>1, <2>2, <2>3, <2>4, <2>5, <2>6, <2>7 DEF IndexStep
<1>2. CASE StartRun BY <1>2 DEF StartRun, TypeOK, Stages, db
<1>3. CASE FinishRun \/ Crash BY <1>3, ResetType DEF FinishRun, Crash
<1>4. CASE UNCHANGED vars BY <1>4 DEF vars, db, local, TypeOK
<1>5. QED BY <1>1, <1>2, <1>3, <1>4 DEF Next

-----------------------------------------------------------------------------

LEMMA InductiveInit == Init => Inductive
<1> SUFFICES ASSUME Init PROVE Inductive OBVIOUS
<1>1. chain \in Chains BY DEF Init
<1>2. PlausibleChain(chain) BY <1>1, ChainAssumption
<1>3. \A n \in Networks : StartFrom(n) = StartBlock[n] /\ pc[n] = "off"
  BY DEF Init, StartFrom
<1>4. ASSUME NEW n \in Networks
      PROVE  Position(n) /\ MarketsBehind(n) /\ UsersBehind(n)
  <2>1. Position(n) BY <1>3 DEF Position, Active
  <2>2. ASSUME NEW m \in MarketsOf(n), NEW b \in chain.listed[m]
        PROVE  b \in Blocks /\ StartBlock[n] <= b
    BY <1>2 DEF PlausibleChain, MarketsOf
  <2>3. MarketsBehind(n)
    BY <1>3, <2>2, IndexerAssumption DEF MarketsBehind, InChunk, Blocks
  <2>4. ASSUME NEW p \in PairsOf(n), NEW b \in chain.active[p]
        PROVE  b \in Blocks /\ StartBlock[n] <= b
    <3>1. p \in Pairs /\ p[1] \in MarketsOf(n)
      BY DEF PairsOf, Pairs, MarketsOf
    <3>2. b \in Blocks BY <1>2, <3>1 DEF PlausibleChain
    <3>3. PICK l \in chain.listed[p[1]] : l <= b
      BY <1>2, <3>1 DEF PlausibleChain
    <3>4. QED
      BY <2>2, <3>1, <3>2, <3>3, IndexerAssumption DEF Blocks
  <2>5. UsersBehind(n)
    BY <1>3, <2>4, IndexerAssumption DEF UsersBehind, InChunk, Blocks
  <2>6. QED BY <2>1, <2>3, <2>5
<1>5. FirstSeenExact /\ RowsExact BY DEF Init, FirstSeenExact, RowsExact
<1>6. QED BY <1>4, <1>5 DEF Inductive

-----------------------------------------------------------------------------

Quiet == {"off", "queued", "done", "failed"}

(* A step that leaves network n and its cursor alone, or takes it out of   *)
(* its loop, and removes no rows keeps what the invariant says of n.       *)
LEMMA Frame ==
  ASSUME Inductive, NEW n \in Networks,
         chain' = chain,
         cursor'[n] = cursor[n],
         \A m \in Markets : markets[m] # None => markets'[m] # None,
         \A p \in Pairs : users[p] # None => users'[p] # None,
         \/ pc'[n] \in Quiet
         \/ /\ pc'[n] = pc[n] /\ from'[n] = from[n] /\ to'[n] = to[n]
            /\ finalizedTo'[n] = finalizedTo[n] /\ todo'[n] = todo[n]
  PROVE  Position(n)' /\ MarketsBehind(n)' /\ UsersBehind(n)'
<1>1. StartFrom(n)' = StartFrom(n) BY DEF StartFrom
<1>2. \A b : InChunk(n, b)' => InChunk(n, b) /\ todo'[n] = todo[n]
  BY DEF InChunk, Quiet
<1>3. Position(n) /\ MarketsBehind(n) /\ UsersBehind(n) BY DEF Inductive
<1>4. Position(n)' BY <1>1, <1>3 DEF Position, Active, Quiet, MarketsOf
<1>5. MarketsBehind(n)'
  <2> SUFFICES ASSUME NEW m \in MarketsOf(n), NEW b \in chain.listed[m],
                      b < StartFrom(n) \/ InChunk(n, b)'
               PROVE  markets'[m] # None
    BY <1>1 DEF MarketsBehind, MarketsOf
  <2>1. markets[m] # None BY <1>2, <1>3 DEF MarketsBehind
  <2>2. QED BY <2>1 DEF MarketsOf
<1>6. UsersBehind(n)'
  <2> SUFFICES ASSUME NEW p \in PairsOf(n), NEW b \in chain.active[p],
                      \/ b < StartFrom(n)
                      \/ InChunk(n, b)' /\ p[1] \notin todo'[n]
               PROVE  users'[p] # None
    BY <1>1 DEF UsersBehind, PairsOf
  <2>1. users[p] # None BY <1>2, <1>3 DEF UsersBehind
  <2>2. QED BY <2>1 DEF PairsOf
<1>7. QED BY <1>4, <1>5, <1>6

LEMMA QuietStep ==
  ASSUME Inductive, UNCHANGED <<chain, db>>,
         \A n \in Networks :
           \/ pc'[n] \in Quiet
           \/ /\ pc'[n] = pc[n] /\ from'[n] = from[n] /\ to'[n] = to[n]
              /\ finalizedTo'[n] = finalizedTo[n] /\ todo'[n] = todo[n]
  PROVE  Inductive'
<1>1. \A n \in Networks :
        Position(n)' /\ MarketsBehind(n)' /\ UsersBehind(n)'
  BY Frame DEF db
<1>2. FirstSeenExact' /\ RowsExact'
  BY DEF Inductive, FirstSeenExact, RowsExact, db, FirstBlock
<1>3. QED BY <1>1, <1>2 DEF Inductive

LEMMA BeginStep ==
  ASSUME TypeOK, Inductive, NEW n \in Networks, NEW final \in Blocks,
         Begin(n, final)
  PROVE  Inductive'
<1>1. UNCHANGED <<chain, db, to, todo>> BY DEF Begin
<1>2. FirstSeenExact' /\ RowsExact'
  BY <1>1 DEF Inductive, FirstSeenExact, RowsExact, db, FirstBlock
<1>3. ASSUME NEW k \in Networks, k # n
      PROVE  Position(k)' /\ MarketsBehind(k)' /\ UsersBehind(k)'
  <2>1. /\ pc'[k] = pc[k] /\ from'[k] = from[k]
        /\ finalizedTo'[k] = finalizedTo[k]
    BY <1>3 DEF Begin, TypeOK
  <2>2. QED BY <1>1, <2>1, Frame DEF db
<1>4. Position(n)' /\ MarketsBehind(n)' /\ UsersBehind(n)'
  <2>1. CASE StartFrom(n) > final
    <3>1. pc'[n] \in Quiet BY <2>1 DEF Begin, TypeOK, Quiet
    <3>2. QED BY <1>1, <3>1, Frame DEF db
  <2>2. CASE ~(StartFrom(n) > final)
    <3>1. /\ pc'[n] = "discover" /\ from'[n] = StartFrom(n)
          /\ finalizedTo'[n] = final
      BY <2>2 DEF Begin, TypeOK
    <3>2. StartFrom(n)' = StartFrom(n) BY <1>1 DEF StartFrom, db
    <3>3. StartFrom(n) \in Int /\ final \in Int
      BY IndexerAssumption DEF StartFrom, TypeOK, Blocks
    <3>4. Position(n)' BY <2>2, <3>1, <3>2, <3>3 DEF Position
    <3>5. MarketsBehind(n) /\ UsersBehind(n) BY DEF Inductive
    <3>6. \A b : ~InChunk(n, b)' BY <3>1 DEF InChunk
    <3>7. MarketsBehind(n)'
      BY <1>1, <3>2, <3>5, <3>6 DEF MarketsBehind, db, MarketsOf
    <3>8. UsersBehind(n)'
      BY <1>1, <3>2, <3>5, <3>6 DEF UsersBehind, db, PairsOf
    <3>9. QED BY <3>4, <3>7, <3>8
  <2>3. QED BY <2>1, <2>2
<1>5. QED BY <1>2, <1>3, <1>4 DEF Inductive

(* Storing the listing logs handled so far: a row once there never changes, *)
(* and a new row has the block of the first listing log, even when only    *)
(* part of the logs was handled.                                           *)
LEMMA UpsertedExact ==
  ASSUME TypeOK, Inductive, NEW n \in Networks, pc[n] = "discover",
         NEW S, S \subseteq ListingLogs(n),
         \A l \in S, k \in ListingLogs(n) \ S : ~HandledBefore(k, l),
         NEW m \in Markets
  PROVE  /\ markets[m] # None => Upserted(S)[m] = markets[m]
         /\ Upserted(S)[m] # None =>
              /\ chain.listed[m] # {}
              /\ Upserted(S)[m] = Min(chain.listed[m])
         /\ (\E b \in Blocks : <<m, b>> \in S) => Upserted(S)[m] # None
<1> DEFINE B == {b \in Blocks : <<m, b>> \in S}
           L == chain.listed[m]
<1>1. L \subseteq Blocks BY ChainAssumption DEF TypeOK, PlausibleChain
<1>2. B \subseteq L BY DEF ListingLogs
<1>3. Upserted(S)[m] =
        IF B # {} THEN KeepLeast(markets[m], Min(B)) ELSE markets[m]
  BY DEF Upserted
<1>4. markets[m] # None => L # {} /\ markets[m] = Min(L)
  BY DEF Inductive, FirstSeenExact
<1>5. Blocks \subseteq Nat /\ None \notin Nat BY IndexerAssumption DEF Blocks
<1>6. ASSUME B # {}
      PROVE  /\ Min(B) \in B /\ Min(B) \in Nat
             /\ Min(L) \in L /\ Min(L) \in Nat /\ Min(L) <= Min(B)
             /\ \A x \in B : Min(B) <= x
  <2>1. B \subseteq Blocks /\ L # {} BY <1>6, <1>2
  <2>2. Min(B) \in B /\ Min(B) \in Nat /\ \A x \in B : Min(B) <= x
    BY <1>6, <2>1, MinBlock
  <2>3. Min(L) \in L /\ Min(L) \in Nat /\ \A x \in L : Min(L) <= x
    BY <1>1, <2>1, MinBlock
  <2>4. QED BY <1>2, <2>2, <2>3
<1>7. ASSUME B # {}, markets[m] = None PROVE Min(B) = Min(L)
  <2>1. m \in MarketsOf(n) /\ Min(B) <= PlannedTo(n) /\ from[n] = StartFrom(n)
    <3>1. <<m, Min(B)>> \in ListingLogs(n) BY <1>6, <1>7
    <3>2. Position(n) BY DEF Inductive
    <3>3. QED BY <3>1, <3>2 DEF ListingLogs, Position, Active
  <2>2. ~(Min(L) < from[n])
    <3>1. MarketsBehind(n) BY DEF Inductive
    <3>2. QED BY <1>6, <1>7, <2>1, <3>1 DEF MarketsBehind
  <2>3. from[n] \in Nat /\ PlannedTo(n) \in Nat
    <3>1. from[n] <= finalizedTo[n] BY DEF Inductive, Position, Active
    <3>2. PlannedTo(n) \in Blocks BY <3>1, PlannedLemma
    <3>3. QED BY <1>5, <3>2, LocalNat
  <2>4. <<m, Min(L)>> \in ListingLogs(n)
    BY <1>1, <1>6, <1>7, <2>1, <2>2, <2>3 DEF ListingLogs
  <2>5. <<m, Min(B)>> \in S BY <1>6, <1>7
  <2>6. CASE <<m, Min(L)>> \in S
    <3>1. Min(L) \in B BY <1>1, <1>6, <1>7, <2>6
    <3>2. QED BY <1>6, <1>7, <3>1
  <2>7. CASE <<m, Min(L)>> \notin S
    <3>1. ~HandledBefore(<<m, Min(L)>>, <<m, Min(B)>>) BY <2>4, <2>5, <2>7
    <3>2. ~(Min(L) < Min(B)) BY <3>1 DEF HandledBefore
    <3>3. QED BY <1>6, <1>7, <3>2
  <2>8. QED BY <2>6, <2>7
<1> HIDE DEF B, L
<1>8. CASE B = {} BY <1>3, <1>4, <1>8 DEF B, L
<1>9. CASE B # {} /\ markets[m] = None
  <2>1. Upserted(S)[m] = Min(L) BY <1>3, <1>7, <1>9 DEF KeepLeast
  <2>2. L # {} /\ Min(L) # None BY <1>5, <1>6, <1>9
  <2>3. QED BY <1>9, <2>1, <2>2 DEF L
<1>10. CASE B # {} /\ markets[m] # None
  <2>1. ~(Min(B) < markets[m]) BY <1>4, <1>6, <1>10
  <2>2. Upserted(S)[m] = markets[m] BY <1>3, <1>10, <2>1 DEF KeepLeast
  <2>3. QED BY <1>4, <1>10, <2>2 DEF L
<1>11. QED BY <1>8, <1>9, <1>10

(* Discovery: the chunk ends before the first new market, so a market that *)
(* is active in the chunk is in the table and waits to be scanned.         *)
LEMMA DiscoverStep ==
  ASSUME TypeOK, Inductive, NEW n \in Networks, Discover(n)
  PROVE  Inductive'
<1> DEFINE S == ListingLogs(n)
           e == ChunkEnd(n)
<1>1. /\ pc[n] = "discover" /\ Position(n) /\ MarketsBehind(n)
      /\ UsersBehind(n)
  BY DEF Discover, Inductive
<1>2. /\ UNCHANGED <<chain, users, cursor, finalizedTo, from>>
      /\ markets' = Upserted(S) /\ to'[n] = e
      /\ todo'[n] = {m \in MarketsOf(n) : markets'[m] # None /\ markets'[m] <= e}
      /\ pc'[n] = IF todo'[n] = {} THEN "commit" ELSE "scan"
      /\ \A k \in Networks \ {n} :
           pc'[k] = pc[k] /\ to'[k] = to[k] /\ todo'[k] = todo[k]
  BY DEF Discover, TypeOK
<1>3. \A m \in Markets :
        /\ markets[m] # None => markets'[m] = markets[m]
        /\ markets'[m] # None =>
             chain.listed[m] # {} /\ markets'[m] = Min(chain.listed[m])
        /\ (\E b \in Blocks : <<m, b>> \in S) => markets'[m] # None
  BY <1>1, <1>2, UpsertedExact
<1>4. /\ from[n] = StartFrom(n) /\ from[n] <= finalizedTo[n]
      /\ StartFrom(n)' = StartFrom(n)
  BY <1>1, <1>2 DEF Position, Active, StartFrom
<1>5. from[n] <= e /\ e <= PlannedTo(n) /\ e <= finalizedTo[n]
  <2>1. e \in Blocks /\ from[n] <= e /\ e <= PlannedTo(n)
    BY <1>4, ChunkEndLemma
  <2>2. PlannedTo(n) \in Blocks /\ PlannedTo(n) <= finalizedTo[n]
    BY <1>4, PlannedLemma
  <2>3. finalizedTo[n] \in Blocks BY DEF TypeOK
  <2>4. Blocks \subseteq Nat BY IndexerAssumption DEF Blocks
  <2>5. e \in Nat /\ PlannedTo(n) \in Nat /\ finalizedTo[n] \in Nat
    BY <2>1, <2>2, <2>3, <2>4
  <2> HIDE DEF e
  <2>6. e <= finalizedTo[n] BY <2>1, <2>2, <2>5
  <2>7. QED BY <2>1, <2>6
<1>6. Blocks \subseteq Nat /\ from[n] \in Nat /\ e \in Nat
  <2>1. Blocks \subseteq Nat BY IndexerAssumption DEF Blocks
  <2>2. e \in Blocks BY <1>4, ChunkEndLemma
  <2>3. QED BY <2>1, <2>2, LocalNat
<1>7. PlausibleChain(chain) BY ChainAssumption DEF TypeOK
<1>8. ASSUME NEW m \in MarketsOf(n), NEW b \in chain.listed[m],
             b < StartFrom(n) \/ b <= e
      PROVE  markets'[m] # None
  <2>1. m \in Markets /\ b \in Blocks
    BY <1>7 DEF MarketsOf, PlausibleChain
  <2>2. CASE b < StartFrom(n)
    <3>1. markets[m] # None BY <1>1, <2>2 DEF MarketsBehind
    <3>2. QED BY <1>3, <2>1, <3>1
  <2>3. CASE ~(b < StartFrom(n)) /\ b <= e
    <3>1. PlannedTo(n) \in Nat BY <1>4, <1>6, PlannedLemma
    <3>2. from[n] <= b /\ b <= PlannedTo(n)
      BY <1>4, <1>5, <1>6, <2>1, <2>3, <3>1
    <3>3. <<m, b>> \in S BY <2>1, <3>2 DEF ListingLogs
    <3>4. QED BY <1>3, <2>1, <3>3
  <2>4. QED BY <1>8, <2>2, <2>3
<1>9. Position(n)'
  BY <1>2, <1>4, <1>5 DEF Position, Active, MarketsOf
<1>10. MarketsBehind(n)'
  BY <1>2, <1>4, <1>8 DEF MarketsBehind, InChunk, MarketsOf
<1>11. UsersBehind(n)'
  <2> SUFFICES ASSUME NEW p \in PairsOf(n), NEW b \in chain.active[p],
                      \/ b < StartFrom(n)
                      \/ b <= e /\ p[1] \notin todo'[n]
               PROVE  users[p] # None
    BY <1>2, <1>4 DEF UsersBehind, InChunk, PairsOf
  <2>1. p \in Pairs /\ p[1] \in MarketsOf(n) /\ p[1] \in Markets
    BY DEF PairsOf, Pairs, MarketsOf
  <2>2. CASE b < StartFrom(n) BY <1>1, <2>2 DEF UsersBehind
  <2>3. CASE b <= e /\ p[1] \notin todo'[n]
    <3>1. b \in Blocks BY <1>7, <2>1 DEF PlausibleChain
    <3>2. PICK l \in chain.listed[p[1]] : l <= b
      BY <1>7, <2>1 DEF PlausibleChain
    <3>3. chain.listed[p[1]] \subseteq Blocks
      BY <1>7, <2>1 DEF PlausibleChain
    <3>4. l <= e
      <4>1. l \in Nat /\ b \in Nat /\ e \in Nat BY <1>6, <3>1, <3>2, <3>3
      <4> HIDE DEF e
      <4>2. QED BY <2>3, <3>2, <4>1
    <3>5. markets'[p[1]] # None BY <1>8, <2>1, <3>4
    <3>6. markets'[p[1]] = Min(chain.listed[p[1]]) BY <1>3, <2>1, <3>5
    <3>7. Min(chain.listed[p[1]]) \in Nat /\ Min(chain.listed[p[1]]) <= l
      BY <3>3, MinBlock
    <3>8. markets'[p[1]] <= e
      <4> DEFINE first == Min(chain.listed[p[1]])
      <4>1. /\ first \in Nat /\ l \in Nat /\ e \in Nat
            /\ first <= l /\ l <= e
        BY <1>6, <3>2, <3>3, <3>4, <3>7
      <4>2. markets'[p[1]] = first BY <3>6
      <4> HIDE DEF e, first
      <4>3. QED BY <4>1, <4>2
    <3>9. p[1] \in todo'[n] BY <1>2, <2>1, <3>5, <3>8
    <3>10. QED BY <2>3, <3>9
  <2>4. QED BY <2>2, <2>3
<1>12. ASSUME NEW k \in Networks, k # n
       PROVE  Position(k)' /\ MarketsBehind(k)' /\ UsersBehind(k)'
  BY <1>2, <1>3, <1>12, Frame
<1>13. FirstSeenExact' BY <1>2, <1>3 DEF FirstSeenExact
<1>14. RowsExact' BY <1>2 DEF Inductive, RowsExact, FirstBlock
<1>15. QED BY <1>9, <1>10, <1>11, <1>12, <1>13, <1>14 DEF Inductive

LEMMA DiscoverFailsStep ==
  ASSUME TypeOK, Inductive, NEW n \in Networks, NEW S, DiscoverFails(n, S)
  PROVE  Inductive'
<1>1. /\ pc[n] = "discover" /\ S \subseteq ListingLogs(n)
      /\ \A l \in S, k \in ListingLogs(n) \ S : ~HandledBefore(k, l)
      /\ markets' = Upserted(S)
      /\ UNCHANGED <<chain, users, cursor, finalizedTo, from, to, known, todo>>
  BY DEF DiscoverFails
<1>2. \A k \in Networks : pc'[k] = IF k = n THEN "failed" ELSE pc[k]
  BY DEF DiscoverFails, TypeOK
<1>3. \A m \in Markets :
        /\ markets[m] # None => markets'[m] = markets[m]
        /\ markets'[m] # None =>
             chain.listed[m] # {} /\ markets'[m] = Min(chain.listed[m])
  BY <1>1, UpsertedExact
<1>4. ASSUME NEW k \in Networks
      PROVE  Position(k)' /\ MarketsBehind(k)' /\ UsersBehind(k)'
  <2>1. pc'[k] \in Quiet \/ pc'[k] = pc[k] BY <1>2 DEF Quiet
  <2>2. QED BY <1>1, <1>3, <2>1, Frame
<1>5. FirstSeenExact' BY <1>1, <1>3 DEF FirstSeenExact
<1>6. RowsExact' BY <1>1 DEF Inductive, RowsExact, FirstBlock
<1>7. QED BY <1>4, <1>5, <1>6 DEF Inductive

(* The logs of a user seen in the current chunk give the row the time of   *)
(* the user's first log: a first log before the chunk has left a row, and  *)
(* block timestamps do not decrease.                                       *)
LEMMA ScannedRow ==
  ASSUME TypeOK, Inductive, NEW n \in Networks, pc[n] = "scan",
         NEW p \in PairsOf(n), LogBlocks(chain.active[p], n) # {}
  PROVE  LET time == TimeAt(p[1], Min(LogBlocks(chain.active[p], n)))
         IN  /\ KeepLeast(users[p], time) = TimeAt(p[1], FirstBlock(p))
             /\ TimeAt(p[1], FirstBlock(p)) \in Nat
             /\ chain.active[p] # {}
<1> DEFINE A == chain.active[p]
           seen == LogBlocks(A, n)
           first == Min(A)
           time == TimeAt(p[1], Min(seen))
           exact == TimeAt(p[1], first)
<1>1. p \in Pairs /\ p[1] \in Markets /\ NetworkOf[p[1]] = n
  BY DEF PairsOf, Pairs
<1>2. A \subseteq Blocks
  BY <1>1, ChainAssumption DEF TypeOK, PlausibleChain
<1>3. seen \subseteq A /\ seen # {} /\ A # {} BY DEF LogBlocks
<1>4. /\ first \in A /\ first \in Nat /\ first \in Blocks
      /\ \A x \in A : first <= x
  BY <1>2, <1>3, MinBlock
<1>5. /\ Min(seen) \in seen /\ Min(seen) \in Nat /\ Min(seen) \in Blocks
      /\ \A x \in seen : Min(seen) <= x
  BY <1>2, <1>3, MinBlock
<1>6. first <= Min(seen) BY <1>3, <1>4, <1>5
<1>7. time \in Nat /\ exact \in Nat BY <1>1, <1>4, <1>5, TimeType
<1>8. exact <= time
  BY <1>1, <1>4, <1>5, <1>6, TimestampAssumption DEF TimeAt
<1>9. users[p] # None => users[p] = exact
  BY <1>1 DEF Inductive, RowsExact, FirstBlock
<1>10. CASE users[p] # None
  <2>1. KeepLeast(users[p], time) = exact
    <3> HIDE DEF time, exact
    <3>1. ~(time < users[p]) BY <1>7, <1>8, <1>9, <1>10
    <3>2. QED BY <1>9, <1>10, <3>1 DEF KeepLeast
  <2>2. QED BY <1>3, <1>7, <2>1 DEF FirstBlock
<1>11. CASE users[p] = None
  <2>1. UsersBehind(n) /\ Position(n) BY DEF Inductive
  <2>2. from[n] = StartFrom(n) BY <2>1 DEF Position, Active
  <2>3. ~(first < from[n]) BY <1>4, <1>11, <2>1, <2>2 DEF UsersBehind
  <2>4. Min(seen) <= to[n] BY <1>5 DEF LogBlocks
  <2>5. from[n] \in Nat /\ to[n] \in Nat BY LocalNat
  <2>6. from[n] <= first /\ first <= to[n]
    <3> HIDE DEF first, seen
    <3>1. QED BY <1>4, <1>5, <1>6, <2>3, <2>4, <2>5
  <2>7. first \in seen BY <1>4, <2>6 DEF LogBlocks
  <2>8. Min(seen) = first
    <3> HIDE DEF first, seen
    <3>1. QED BY <1>4, <1>5, <1>6, <2>7
  <2>9. KeepLeast(users[p], time) = exact BY <1>11, <2>8 DEF KeepLeast
  <2>10. QED BY <1>3, <1>7, <2>9 DEF FirstBlock
<1>12. QED BY <1>10, <1>11

(* What a batch does to a row.                                             *)
LEMMA ScannedUsers ==
  ASSUME TypeOK, Inductive, NEW n \in Networks, NEW B, ScanBatch(n, B)
  PROVE  /\ B \subseteq todo[n]
         /\ \A p \in Pairs :
              IF p[1] \in B /\ LogBlocks(chain.active[p], n) # {}
              THEN /\ p \in PairsOf(n)
                   /\ users'[p] = TimeAt(p[1], FirstBlock(p))
                   /\ users'[p] \in Nat
                   /\ chain.active[p] # {}
              ELSE users'[p] = users[p]
<1>1. pc[n] = "scan" BY DEF ScanBatch
<1>2. B \subseteq todo[n] /\ todo[n] \subseteq MarketsOf(n)
  BY <1>1 DEF ScanBatch, IsBatch, CurrentVersion, Inductive, Position
<1>3. ASSUME NEW p \in Pairs
      PROVE  IF p[1] \in B /\ LogBlocks(chain.active[p], n) # {}
             THEN /\ p \in PairsOf(n)
                  /\ users'[p] = TimeAt(p[1], FirstBlock(p))
                  /\ users'[p] \in Nat
                  /\ chain.active[p] # {}
             ELSE users'[p] = users[p]
  <2>1. CASE p[1] \in B /\ LogBlocks(chain.active[p], n) # {}
    <3>1. p \in PairsOf(n) BY <1>2, <2>1 DEF PairsOf, MarketsOf
    <3>2. users'[p] = KeepLeast(users[p],
                        TimeAt(p[1], Min(LogBlocks(chain.active[p], n))))
      BY <2>1 DEF ScanBatch
    <3>3. QED BY <1>1, <2>1, <3>1, <3>2, ScannedRow
  <2>2. CASE ~(p[1] \in B /\ LogBlocks(chain.active[p], n) # {})
    <3>1. users'[p] = users[p] BY <2>2 DEF ScanBatch
    <3>2. QED BY <2>2, <3>1
  <2>3. QED BY <2>1, <2>2
<1>4. QED BY <1>2, <1>3

LEMMA ScanStep ==
  ASSUME TypeOK, Inductive, NEW n \in Networks, NEW B, ScanBatch(n, B)
  PROVE  Inductive'
<1>1. /\ pc[n] = "scan"
      /\ UNCHANGED <<chain, markets, cursor, finalizedTo, from, to, known>>
      /\ todo'[n] = todo[n] \ B
      /\ pc'[n] = IF todo[n] = B THEN "commit" ELSE "scan"
      /\ \A k \in Networks \ {n} : pc'[k] = pc[k] /\ todo'[k] = todo[k]
  BY DEF ScanBatch, TypeOK
<1>2. Position(n) /\ UsersBehind(n) /\ MarketsBehind(n) BY DEF Inductive
<1>3. None \notin Nat BY IndexerAssumption
<1>4. \A p \in Pairs : users[p] # None => users'[p] # None
  BY <1>3, ScannedUsers
<1>5. ASSUME NEW k \in Networks, k # n
      PROVE  Position(k)' /\ MarketsBehind(k)' /\ UsersBehind(k)'
  BY <1>1, <1>4, <1>5, Frame
<1>6. StartFrom(n)' = StartFrom(n) BY <1>1 DEF StartFrom
<1>7. Position(n)'
  BY <1>1, <1>2, <1>6 DEF Position, Active, MarketsOf
<1>8. MarketsBehind(n)'
  BY <1>1, <1>2, <1>6 DEF MarketsBehind, InChunk, MarketsOf
<1>9. UsersBehind(n)'
  <2> SUFFICES ASSUME NEW p \in PairsOf(n), NEW b \in chain.active[p],
                      \/ b < StartFrom(n)
                      \/ b <= to[n] /\ p[1] \notin todo[n] \ B
               PROVE  users'[p] # None
    BY <1>1, <1>6 DEF UsersBehind, InChunk, PairsOf
  <2>1. p \in Pairs BY DEF PairsOf
  <2>2. CASE b < StartFrom(n) \/ (b <= to[n] /\ p[1] \notin todo[n])
    BY <1>1, <1>2, <1>4, <2>1, <2>2 DEF UsersBehind, InChunk
  <2>3. CASE ~(b < StartFrom(n)) /\ b <= to[n] /\ p[1] \in B
    <3>1. from[n] = StartFrom(n) BY <1>1, <1>2 DEF Position, Active
    <3>2. b \in Nat /\ from[n] \in Nat
      <4>1. b \in Blocks
        BY <2>1, ChainAssumption DEF TypeOK, PlausibleChain
      <4>2. Blocks \subseteq Nat BY IndexerAssumption DEF Blocks
      <4>3. QED BY <4>1, <4>2, LocalNat
    <3>3. from[n] <= b BY <2>3, <3>1, <3>2
    <3>4. b \in LogBlocks(chain.active[p], n)
      BY <2>3, <3>3 DEF LogBlocks
    <3>5. QED BY <1>3, <2>1, <2>3, <3>4, ScannedUsers
  <2>4. QED BY <2>2, <2>3
<1>10. FirstSeenExact' BY <1>1 DEF Inductive, FirstSeenExact
<1>11. RowsExact'
  <2> SUFFICES ASSUME NEW p \in Pairs, users'[p] # None
               PROVE  /\ chain.active[p] # {}
                      /\ users'[p] = TimeAt(p[1], FirstBlock(p))
    BY <1>1 DEF RowsExact, FirstBlock
  <2>1. CASE p[1] \in B /\ LogBlocks(chain.active[p], n) # {}
    BY <2>1, ScannedUsers
  <2>2. CASE ~(p[1] \in B /\ LogBlocks(chain.active[p], n) # {})
    <3>1. users'[p] = users[p] BY <2>2, ScannedUsers
    <3>2. QED BY <3>1 DEF Inductive, RowsExact
  <2>3. QED BY <2>1, <2>2
<1>12. QED BY <1>5, <1>7, <1>8, <1>9, <1>10, <1>11 DEF Inductive

(* Moving the cursor: the scan left no market of the chunk behind.         *)
LEMMA CommitStep ==
  ASSUME TypeOK, Inductive, NEW n \in Networks, CommitCursor(n)
  PROVE  Inductive'
<1>1. /\ pc[n] = "commit"
      /\ UNCHANGED <<chain, users, markets, finalizedTo, to, known, todo>>
      /\ cursor'[n] = to[n] /\ from'[n] = to[n] + 1
      /\ pc'[n] = IF to[n] + 1 <= finalizedTo[n] THEN "discover" ELSE "done"
      /\ \A k \in Networks \ {n} :
           pc'[k] = pc[k] /\ from'[k] = from[k] /\ cursor'[k] = cursor[k]
  BY DEF CommitCursor, TypeOK
<1>2. Position(n) /\ MarketsBehind(n) /\ UsersBehind(n) BY DEF Inductive
<1>3. to[n] \in Nat /\ None \notin Nat BY LocalNat, IndexerAssumption
<1>4. StartFrom(n)' = to[n] + 1 BY <1>1, <1>3 DEF StartFrom
<1>5. PlausibleChain(chain) BY ChainAssumption DEF TypeOK
<1>6. \A b \in Blocks : b < to[n] + 1 => InChunk(n, b)
  <2>1. \A b \in Nat : b < to[n] + 1 => b <= to[n] BY <1>3
  <2>2. Blocks \subseteq Nat BY IndexerAssumption DEF Blocks
  <2>3. QED BY <1>1, <2>1, <2>2 DEF InChunk
<1>7. Position(n)' BY <1>1, <1>4 DEF Position, Active
<1>8. MarketsBehind(n)'
  <2> SUFFICES ASSUME NEW m \in MarketsOf(n), NEW b \in chain.listed[m],
                      b < to[n] + 1
               PROVE  markets[m] # None
    BY <1>1, <1>4 DEF MarketsBehind, InChunk, MarketsOf
  <2>1. b \in Blocks BY <1>5 DEF PlausibleChain, MarketsOf
  <2>2. QED BY <1>2, <1>6, <2>1 DEF MarketsBehind
<1>9. UsersBehind(n)'
  <2> SUFFICES ASSUME NEW p \in PairsOf(n), NEW b \in chain.active[p],
                      b < to[n] + 1
               PROVE  users[p] # None
    BY <1>1, <1>4 DEF UsersBehind, InChunk, PairsOf
  <2>1. b \in Blocks BY <1>5 DEF PlausibleChain, PairsOf
  <2>2. p[1] \notin todo[n] BY <1>1, <1>2 DEF Position
  <2>3. QED BY <1>2, <1>6, <2>1, <2>2 DEF UsersBehind
<1>10. ASSUME NEW k \in Networks, k # n
       PROVE  Position(k)' /\ MarketsBehind(k)' /\ UsersBehind(k)'
  BY <1>1, <1>10, Frame
<1>11. FirstSeenExact' /\ RowsExact'
  BY <1>1 DEF Inductive, FirstSeenExact, RowsExact, FirstBlock
<1>12. QED BY <1>7, <1>8, <1>9, <1>10, <1>11 DEF Inductive

LEMMA InductiveStep ==
  ASSUME TypeOK, Inductive, [Next]_vars
  PROVE  Inductive'
<1>1. CASE StartRun BY <1>1, QuietStep DEF StartRun, Quiet
<1>2. CASE FinishRun \/ Crash
  BY <1>2, QuietStep DEF FinishRun, Crash, RunVariablesReset, Quiet
<1>3. ASSUME NEW n \in Networks, IndexStep(n) PROVE Inductive'
  <2>1. ASSUME NEW final \in Blocks, Begin(n, final) PROVE Inductive'
    BY <2>1, BeginStep
  <2>2. CASE Discover(n) BY <2>2, DiscoverStep
  <2>3. ASSUME NEW S, DiscoverFails(n, S) PROVE Inductive'
    BY <2>3, DiscoverFailsStep
  <2>4. ASSUME NEW B, ScanBatch(n, B) PROVE Inductive' BY <2>4, ScanStep
  <2>5. CASE CommitCursor(n) BY <2>5, CommitStep
  <2>6. CASE Skip(n)
    <3>1. \A k \in Networks : pc'[k] = IF k = n THEN "failed" ELSE pc[k]
      BY <2>6 DEF Skip, TypeOK
    <3>2. QED BY <2>6, <3>1, QuietStep DEF Skip, Quiet
  <2>7. QED BY <1>3, <2>1, <2>2, <2>3, <2>4, <2>5, <2>6 DEF IndexStep
<1>4. CASE UNCHANGED vars BY <1>4, QuietStep DEF vars, db, local
<1>5. QED BY <1>1, <1>2, <1>3, <1>4 DEF Next

(* Every variable keeps its type, and the inductive invariant holds: the   *)
(* run of indexNetwork may be cut, failed, crashed and resumed anywhere.   *)
THEOREM IndexInvariant == Spec => [](TypeOK /\ Inductive)
<1>1. Init => TypeOK /\ Inductive BY TypeInit, InductiveInit
<1>2. TypeOK /\ Inductive /\ [Next]_vars => (TypeOK /\ Inductive)'
  BY TypeStep, InductiveStep
<1>3. QED BY <1>1, <1>2, PTL DEF Spec

(* The blocks a run works with are blocks the chain has: no chunk reaches  *)
(* past the head.                                                          *)
THEOREM TypeCorrect == Spec => []TypeOK
BY IndexInvariant, PTL

(* created_at of a row is the time of the user's first log in the market,  *)
(* whatever the chunks, batches, failures and restarts were.               *)
THEOREM RowsAreExact == Spec => []RowsExact
<1>1. Inductive => RowsExact BY DEF Inductive
<1>2. QED BY <1>1, IndexInvariant, PTL

(* Users active up to a block the cursor has reached have their rows.      *)
LEMMA CursorCovers ==
  ASSUME TypeOK, Inductive, NEW n \in Networks, cursor[n] # None
  PROVE  \A b \in Blocks : b <= cursor[n] => b < StartFrom(n)
<1>1. Blocks \subseteq Nat BY IndexerAssumption DEF Blocks
<1>2. cursor[n] \in Nat BY <1>1 DEF TypeOK
<1>3. \A b \in Nat : b <= cursor[n] => b < cursor[n] + 1 BY <1>2
<1>4. QED BY <1>1, <1>3 DEF StartFrom

LEMMA InductiveComplete == TypeOK /\ Inductive => IndexComplete
<1> SUFFICES ASSUME TypeOK, Inductive, NEW n \in Networks,
                    cursor[n] # None, NEW p \in PairsOf(n),
                    NEW b \in chain.active[p], b <= cursor[n]
             PROVE  users[p] # None
  BY DEF IndexComplete
<1>1. b \in Blocks
  BY ChainAssumption DEF TypeOK, PlausibleChain, PairsOf
<1>2. b < StartFrom(n) BY <1>1, CursorCovers
<1>3. QED BY <1>2 DEF Inductive, UsersBehind

(* The cursor of a network vouches for both protocol versions: no user     *)
(* active in a block up to it is missing.                                  *)
THEOREM NobodyMissing == Spec => []IndexComplete
BY InductiveComplete, IndexInvariant, PTL

(* The markets table is exact and complete up to the cursor, also after a  *)
(* discovery that failed half-way.                                         *)
THEOREM MarketTableExact == Spec => []MarketsExact
<1>1. TypeOK /\ Inductive => MarketsExact
  <2> SUFFICES ASSUME TypeOK, Inductive, NEW m \in Markets,
                      cursor[NetworkOf[m]] # None,
                      NEW b \in chain.listed[m], b <= cursor[NetworkOf[m]]
               PROVE  markets[m] # None
    BY DEF MarketsExact, Inductive, FirstSeenExact
  <2> DEFINE n == NetworkOf[m]
  <2>1. n \in Networks /\ m \in MarketsOf(n)
    BY IndexerAssumption DEF MarketsOf
  <2>2. b \in Blocks BY ChainAssumption DEF TypeOK, PlausibleChain
  <2>3. b < StartFrom(n) BY <2>1, <2>2, CursorCovers
  <2>4. QED BY <2>1, <2>3 DEF Inductive, MarketsBehind
<1>2. QED BY <1>1, IndexInvariant, PTL

-----------------------------------------------------------------------------

(* Refinement of UserIndex.                                                *)

LEMMA ScanLearns ==
  ASSUME TypeOK, Inductive, NEW n \in Networks, NEW B, ScanBatch(n, B)
  PROVE  Index!Next
<1> DEFINE S == {p \in Pairs : /\ p[1] \in B
                               /\ LogBlocks(chain.active[p], n) # {}}
<1>1. \A p \in S : chain.active[p] # {} BY ScannedUsers
<1>2. users' = [p \in Pairs |-> users'[p]] BY DEF ScanBatch
<1>3. \A p \in Pairs :
        users'[p] = IF p \in S THEN Index!FirstSeen(p) ELSE users[p]
  BY ScannedUsers DEF Index!FirstSeen, TimeAt, FirstBlock, Min, Index!Min
<1>4. users' = [p \in Pairs |->
                  IF p \in S THEN Index!FirstSeen(p) ELSE users[p]]
  BY <1>2, <1>3
<1>5. UNCHANGED <<chain, cursor>> BY DEF ScanBatch
<1>6. Index!Learn(S) BY <1>1, <1>4, <1>5 DEF Index!Learn
<1>7. QED BY <1>6 DEF Index!Next

LEMMA CommitAdvances ==
  ASSUME TypeOK, Inductive, NEW n \in Networks, CommitCursor(n)
  PROVE  Index!Next
<1>1. /\ pc[n] = "commit" /\ Position(n) /\ UsersBehind(n)
      /\ UNCHANGED <<chain, users>>
      /\ cursor' = [cursor EXCEPT ![n] = to[n]]
  BY DEF CommitCursor, Inductive
<1>2. to[n] \in Blocks BY DEF TypeOK
<1>3. cursor[n] # None => cursor[n] < to[n]
  <2> SUFFICES ASSUME cursor[n] # None PROVE cursor[n] < to[n] OBVIOUS
  <2>1. cursor[n] + 1 <= to[n]
    BY <1>1 DEF Position, Active, StartFrom
  <2>2. cursor[n] \in Nat /\ to[n] \in Nat
    BY LocalNat, IndexerAssumption DEF TypeOK, Blocks
  <2>3. QED BY <2>1, <2>2
<1>4. ASSUME NEW p \in Pairs, NetworkOf[p[1]] = n,
             NEW x \in chain.active[p], x <= to[n]
      PROVE  users[p] # None
  <2>1. p \in PairsOf(n) BY <1>4 DEF PairsOf
  <2>2. InChunk(n, x) /\ p[1] \notin todo[n]
    BY <1>1, <1>4 DEF InChunk, Position
  <2>3. QED BY <1>1, <2>1, <2>2 DEF UsersBehind
<1>5. cursor' \in [Networks -> Blocks \cup {None}]
  BY <1>1, <1>2 DEF TypeOK
<1>6. \A k \in Networks : cursor'[k] # cursor[k] => k = n /\ cursor'[k] = to[n]
  BY <1>1 DEF TypeOK
<1>7. to[n] # None BY LocalNat, IndexerAssumption
<1>8. Index!Advance(cursor') BY <1>1, <1>3, <1>4, <1>6, <1>7 DEF Index!Advance
<1>9. QED BY <1>5, <1>8 DEF Index!Next

(* The indexer, with its batches, failures and restarts, implements the    *)
(* abstract index.                                                         *)
THEOREM Refinement == Spec => ImplementsUserIndex
<1>1. Init => Index!Init BY DEF Init, Index!Init
<1>2. TypeOK /\ Inductive /\ [Next]_vars
        => [Index!Next]_<<chain.active, users, cursor>>
  <2> SUFFICES ASSUME TypeOK, Inductive, [Next]_vars
               PROVE  Index!Next \/ UNCHANGED <<chain.active, users, cursor>>
    OBVIOUS
  <2>1. ASSUME NEW n \in Networks, IndexStep(n)
        PROVE  Index!Next \/ UNCHANGED <<chain.active, users, cursor>>
    <3>1. CASE \E B \in SUBSET todo[n] : ScanBatch(n, B)
      BY <3>1, ScanLearns
    <3>2. CASE CommitCursor(n) BY <3>2, CommitAdvances
    <3>3. CASE \/ \E final \in Blocks : Begin(n, final)
               \/ Discover(n)
               \/ \E S \in SUBSET ListingLogs(n) : DiscoverFails(n, S)
               \/ Skip(n)
      BY <3>3 DEF Begin, Discover, DiscoverFails, Skip, db
    <3>4. QED BY <2>1, <3>1, <3>2, <3>3 DEF IndexStep
  <2>2. CASE StartRun \/ FinishRun \/ Crash
    BY <2>2 DEF StartRun, FinishRun, Crash, db
  <2>3. CASE UNCHANGED vars BY <2>3 DEF vars, db
  <2>4. QED BY <2>1, <2>2, <2>3 DEF Next
<1>3. QED
  BY <1>1, <1>2, IndexInvariant, PTL
     DEF Spec, ImplementsUserIndex, Index!Spec

-----------------------------------------------------------------------------
(* What the results take for granted.                                      *)

(* The markets of a series are scanned in one batch of addresses.          *)
OneBatch ==
  \A s \in Series :
    Cardinality({m \in Markets : <<NetworkOf[m], VersionOf[m]>> = s})
      <= BatchSize

(* Times are positive, and no two blocks of a network share one.           *)
TimesDiffer ==
  \A n \in Networks : \A a, b \in Blocks :
    /\ 0 < Timestamp[n][a]
    /\ a < b => Timestamp[n][a] < Timestamp[n][b]

Orderly == OneBatch /\ TimesDiffer /\ "manifest" \notin Losable

-----------------------------------------------------------------------------
(* Rows, files and manifests.                                              *)

(* created_at of the row of p, when it gets one.                           *)
FirstTime(ch, p) == TimeAt(p[1], Min(ch.active[p]))

(* The rows that can be in the files of a series.                          *)
RowsOf(ch, s) ==
  {<<p, FirstTime(ch, p)>> :
     p \in {q \in Pairs : SeriesOf(q) = s /\ ch.active[q] # {}}}

Info == [rows : Nat, end : Nat]

IsManifest(man) ==
  /\ man \in [Series -> [last : Nat, chunks : Seq(Info)]]
  /\ \A s \in Series :
       /\ Len(man[s].chunks) <= MaxChunks
       /\ \A i \in 1 .. Len(man[s].chunks) :
            man[s].chunks[i].end <= man[s].last

(* The declared chunks of a series.                                        *)
Chunks(man, s) == 1 .. Len(man[s].chunks)

Present(f, man) == \A s \in Series : \A i \in Chunks(man, s) : f[s][i] # None

(* p is in a declared file.                                                *)
Stored(f, man, p) ==
  \E i \in Chunks(man, SeriesOf(p)) : p \in PairsIn(f[SeriesOf(p)][i])

(* ChunksValid as the proofs use it.                                       *)
Valid(f, man) ==
  \A s \in Series : \A i \in Chunks(man, s) :
    LET info == man[s].chunks[i] IN
    /\ f[s][i] # None
    /\ Cardinality(f[s][i]) = info.rows
    /\ info.rows > 0 => Max(Times(f[s][i])) = info.end

(* Users of a series up to its watermark are in the files, those of Q      *)
(* excepted.                                                               *)
Covers(ch, f, man, s, Q) ==
  \A p \in Pairs :
    /\ SeriesOf(p) = s /\ ch.active[p] # {}
    /\ FirstTime(ch, p) <= man[s].last
    => Stored(f, man, p) \/ p \in Q

FilesOK(ch, f) ==
  /\ f \in [Series -> [ChunkIds -> (SUBSET (Pairs \X Nat)) \cup {None}]]
  /\ \A s \in Series, i \in ChunkIds :
       f[s][i] # None =>
         IsFiniteSet(f[s][i]) /\ f[s][i] \subseteq RowsOf(ch, s)

(* First block behind a cursor.                                            *)
After(cur, n) == IF cur[n] = None THEN StartBlock[n] ELSE cur[n] + 1

MarketsBefore(ch, table, cur) ==
  \A m \in Markets : \A b \in ch.listed[m] :
    b < After(cur, NetworkOf[m]) => table[m] # None

UsersBefore(ch, u, cur) ==
  \A p \in Pairs : \A b \in ch.active[p] :
    b < After(cur, NetworkOf[p[1]]) => u[p] # None

(* Whoever came before a user of the same series is there too.             *)
Closed(ch, u) ==
  \A p, q \in Pairs :
    /\ SeriesOf(p) = SeriesOf(q) /\ u[q] # None
    /\ ch.active[p] # {} /\ FirstTime(ch, p) <= FirstTime(ch, q)
    => u[p] # None

-----------------------------------------------------------------------------
(* Facts about them.                                                       *)

LEMMA SeriesOfPair ==
  ASSUME NEW p \in Pairs PROVE SeriesOf(p) \in Series
BY DEF SeriesOf, Series, Pairs

LEMMA ChunkIdOf ==
  ASSUME NEW man, IsManifest(man), NEW s \in Series, NEW i \in Chunks(man, s)
  PROVE  /\ i \in ChunkIds /\ man[s].chunks \in Seq(Info)
         /\ man[s].chunks[i] \in Info
         /\ man[s].chunks[i].end <= man[s].last
         /\ man[s].last \in Nat
         /\ Len(man[s].chunks) \in Nat
<1>1. man[s] \in [last : Nat, chunks : Seq(Info)] BY DEF IsManifest
<1>2. man[s].chunks \in Seq(Info) /\ man[s].last \in Nat BY <1>1
<1>3. Len(man[s].chunks) \in Nat /\ Len(man[s].chunks) <= MaxChunks
  BY <1>2 DEF IsManifest
<1>4. man[s].chunks[i] \in Info BY <1>2, ElementOfSeq DEF Chunks
<1>5. i \in ChunkIds BY <1>3, SnapshotAssumption DEF Chunks, ChunkIds
<1>6. QED BY <1>2, <1>3, <1>4, <1>5 DEF IsManifest, Chunks

LEMMA DeclaredChunks ==
  ASSUME NEW man, IsManifest(man)
  PROVE  DeclaredIn(man) =
           {c \in Series \X ChunkIds : c[2] \in Chunks(man, c[1])}
<1>1. \A s \in Series : man[s].chunks \in Seq(Info) BY DEF IsManifest
<1>2. \A s \in Series : DOMAIN man[s].chunks = Chunks(man, s)
  BY <1>1 DEF Chunks
<1>3. QED BY <1>2 DEF DeclaredIn

LEMMA ValidChunks ==
  ASSUME NEW man, IsManifest(man)
  PROVE  ChunksValid(man) <=> Valid(files, man)
<1>1. ASSUME NEW s \in Series, NEW i \in Chunks(man, s)
      PROVE  <<s, i>> \in DeclaredIn(man)
  BY DeclaredChunks, ChunkIdOf
<1>2. \A c \in DeclaredIn(man) :
        /\ c[1] \in Series /\ c[2] \in Chunks(man, c[1])
        /\ c = <<c[1], c[2]>>
  BY DeclaredChunks
<1>3. ChunksValid(man) => Valid(files, man)
  BY <1>1 DEF ChunksValid, Valid, FileOf
<1>4. Valid(files, man) => ChunksValid(man)
  BY <1>2 DEF ChunksValid, Valid, FileOf
<1>5. QED BY <1>3, <1>4

(* The empty manifest.                                                     *)
LEMMA EmptyIsManifest ==
  /\ IsManifest(EmptyManifest)
  /\ \A s \in Series : Chunks(EmptyManifest, s) = {}
                       /\ EmptyManifest[s].last = 0
<1>1. \A s \in Series : /\ EmptyManifest[s].chunks = <<>>
                        /\ EmptyManifest[s].last = 0
  BY DEF EmptyManifest
<1>2. EmptyManifest \in [Series -> [last : Nat, chunks : Seq(Info)]]
  BY EmptySeq DEF EmptyManifest
<1>3. \A s \in Series : Chunks(EmptyManifest, s) = {}
  BY <1>1 DEF Chunks
<1>4. QED BY <1>1, <1>2, <1>3, SnapshotAssumption DEF IsManifest, Chunks

(* Blocks and times of a user's first activity.                            *)
LEMMA FirstActive ==
  ASSUME NEW ch \in Chains, NEW p \in Pairs, ch.active[p] # {}
  PROVE  /\ Min(ch.active[p]) \in ch.active[p]
         /\ Min(ch.active[p]) \in Blocks
         /\ \A b \in ch.active[p] : Min(ch.active[p]) <= b /\ b \in Blocks
         /\ FirstTime(ch, p) \in Nat
<1>1. ch.active[p] \subseteq Blocks BY ChainAssumption DEF PlausibleChain
<1>2. p[1] \in Markets BY DEF Pairs
<1>3. QED BY <1>1, <1>2, MinBlock, TimeType DEF FirstTime

(* Where times differ, the user that came first has the smaller time.      *)
LEMMA FirstOrder ==
  ASSUME TimesDiffer, NEW ch \in Chains, NEW p \in Pairs, NEW q \in Pairs,
         SeriesOf(p) = SeriesOf(q), ch.active[p] # {}, ch.active[q] # {},
         FirstTime(ch, p) <= FirstTime(ch, q)
  PROVE  Min(ch.active[p]) <= Min(ch.active[q])
<1>1. /\ NetworkOf[p[1]] = NetworkOf[q[1]] /\ NetworkOf[p[1]] \in Networks
  BY IndexerAssumption DEF SeriesOf, Pairs
<1>2. PICK n \in Networks : n = NetworkOf[p[1]] /\ n = NetworkOf[q[1]]
  BY <1>1
<1>3. PICK a \in Blocks : a = Min(ch.active[p]) BY FirstActive
<1>4. PICK b \in Blocks : b = Min(ch.active[q]) BY FirstActive
<1>5. Timestamp[n][a] <= Timestamp[n][b]
  BY <1>2, <1>3, <1>4 DEF FirstTime, TimeAt
<1>6. Timestamp[n][a] \in Nat /\ Timestamp[n][b] \in Nat
  BY TimestampAssumption
<1>7. ~(b < a) BY <1>5, <1>6 DEF TimesDiffer
<1>8. QED BY <1>3, <1>4, <1>7, IndexerAssumption DEF Blocks

(* A non-empty bounded set of numbers has a greatest element.              *)
LEMMA MaxBounded ==
  ASSUME NEW S \in SUBSET Nat, S # {}, NEW t \in Nat, \A x \in S : x <= t
  PROVE  Max(S) \in S /\ \A x \in S : x <= Max(S)
<1> DEFINE D == {d \in Nat : t - d \in S}
<1>1. PICK x \in S : TRUE OBVIOUS
<1>2. t - x \in Nat /\ t - (t - x) = x BY <1>1
<1>3. D # {} /\ D \in SUBSET Nat BY <1>1, <1>2
<1>4. PICK d \in D : \A e \in D : d <= e BY <1>3, MinLemma
<1>5. t - d \in S /\ d \in Nat BY <1>4
<1>6. ASSUME NEW y \in S PROVE t - d >= y
  <2>1. t - y \in Nat /\ t - (t - y) = y /\ y \in Nat OBVIOUS
  <2>2. t - y \in D BY <2>1
  <2>3. d <= t - y BY <1>4, <2>2
  <2>4. QED BY <1>5, <2>1, <2>3
<1>7. \E m \in S : \A y \in S : m >= y BY <1>5, <1>6
<1>8. Max(S) \in S /\ \A y \in S : Max(S) >= y BY <1>7 DEF Max
<1>9. QED BY <1>8

(* Time of the last block: later than every row.                           *)
LEMMA TimesBounded ==
  ASSUME NEW ch \in Chains, NEW p \in Pairs, ch.active[p] # {}
  PROVE  /\ TimeAt(p[1], LastBlock) \in Nat
         /\ FirstTime(ch, p) <= TimeAt(p[1], LastBlock)
<1>1. p[1] \in Markets /\ NetworkOf[p[1]] \in Networks
  BY IndexerAssumption DEF Pairs
<1>2. LastBlock \in Blocks /\ \A b \in Blocks : b <= LastBlock
  BY IndexerAssumption DEF Blocks
<1>3. Min(ch.active[p]) \in Blocks BY FirstActive
<1>4. QED
  BY <1>1, <1>2, <1>3, TimeType, TimestampAssumption DEF FirstTime, TimeAt

(* A row in a file is the row of its user, and no later than the end of    *)
(* its chunk.                                                              *)
LEMMA RowInFile ==
  ASSUME NEW ch \in Chains, NEW f, FilesOK(ch, f),
         NEW man, IsManifest(man), Valid(f, man),
         NEW p \in Pairs, Stored(f, man, p)
  PROVE  /\ ch.active[p] # {}
         /\ FirstTime(ch, p) <= man[SeriesOf(p)].last
<1>1. PICK s \in Series : s = SeriesOf(p) BY SeriesOfPair
<1>2. PICK i \in Chunks(man, s) : p \in PairsIn(f[s][i])
  BY <1>1 DEF Stored
<1>3. /\ i \in ChunkIds /\ man[s].chunks[i] \in Info
      /\ man[s].chunks[i].end <= man[s].last /\ man[s].last \in Nat
  BY ChunkIdOf
<1>4. PICK F : F = f[s][i] OBVIOUS
<1>5. PICK info \in Info : info = man[s].chunks[i] BY <1>3
<1>6. /\ F # None /\ Cardinality(F) = info.rows
      /\ info.rows > 0 => Max(Times(F)) = info.end
  BY <1>4, <1>5 DEF Valid
<1>7. IsFiniteSet(F) /\ F \subseteq RowsOf(ch, s)
  BY <1>3, <1>4, <1>6 DEF FilesOK
<1>8. PICK r \in F : r[1] = p BY <1>2, <1>4 DEF PairsIn
<1>9. r = <<p, FirstTime(ch, p)>> /\ ch.active[p] # {}
  BY <1>7, <1>8 DEF RowsOf
<1>10. info.rows > 0
  <2>1. F # {} BY <1>8
  <2>2. Cardinality(F) # 0 BY <1>7, <2>1, FS_EmptySet
  <2>3. info.rows \in Nat BY DEF Info
  <2>4. QED BY <1>6, <2>2, <2>3
<1>11. /\ Times(F) \in SUBSET Nat
       /\ \A t \in Times(F) : t <= TimeAt(p[1], LastBlock)
  <2> SUFFICES ASSUME NEW x \in F
               PROVE  x[2] \in Nat /\ x[2] <= TimeAt(p[1], LastBlock)
    BY DEF Times
  <2>1. PICK q \in Pairs : /\ SeriesOf(q) = s /\ ch.active[q] # {}
                           /\ x = <<q, FirstTime(ch, q)>>
    BY <1>7 DEF RowsOf
  <2>2. TimeAt(q[1], LastBlock) = TimeAt(p[1], LastBlock)
    BY <1>1, <2>1 DEF SeriesOf, TimeAt
  <2>3. QED BY <2>1, <2>2, FirstActive, TimesBounded
<1>12. FirstTime(ch, p) \in Times(F) BY <1>8, <1>9 DEF Times
<1>13. FirstTime(ch, p) <= Max(Times(F)) /\ Max(Times(F)) \in Nat
  BY <1>9, <1>11, <1>12, MaxBounded, TimesBounded
<1>14. Max(Times(F)) = info.end BY <1>6, <1>10
<1>15. FirstTime(ch, p) \in Nat BY <1>9, FirstActive
<1>16. PICK l \in Nat : l = man[s].last BY <1>3
<1>17. info.end <= l BY <1>3, <1>5, <1>16
<1>18. FirstTime(ch, p) <= l BY <1>13, <1>14, <1>15, <1>17
<1>19. QED BY <1>1, <1>9, <1>16, <1>18

(* An exact table's rows.                                                  *)
LEMMA RowTime ==
  ASSUME RowsExact, NEW p \in Pairs, users[p] # None
  PROVE  chain.active[p] # {} /\ users[p] = FirstTime(chain, p)
BY DEF RowsExact, FirstTime, FirstBlock

-----------------------------------------------------------------------------
(* Sorting.                                                                *)

Sorted(q) == \A i, j \in DOMAIN q : i < j => q[i] # q[j] /\ q[i][2] <= q[j][2]

(* InOrder exists.  The proof looks at a smallest set of rows that could   *)
(* not be put in order and takes its earliest row away.                    *)
LEMMA OrderExists ==
  ASSUME NEW A, NEW rows, IsFiniteSet(rows), rows \subseteq A \X Nat
  PROVE  \E q \in [1 .. Cardinality(rows) -> rows] : Sorted(q)
<1> DEFINE Bad(n) == \E R : /\ IsFiniteSet(R) /\ R \subseteq A \X Nat
                            /\ Cardinality(R) = n
                            /\ ~ \E q \in [1 .. n -> R] : Sorted(q)
           B == {n \in Nat : Bad(n)}
<1>1. SUFFICES B = {}
  <2>1. Cardinality(rows) \in Nat BY FS_CardinalityType
  <2>2. QED BY <1>1, <2>1
<1>2. SUFFICES ASSUME B # {} PROVE FALSE OBVIOUS
<1>3. PICK n \in Nat : Bad(n) /\ \A m \in Nat : m < n => ~Bad(m)
  <2>1. B \in SUBSET Nat OBVIOUS
  <2>2. Min(B) \in B /\ \A x \in B : Min(B) <= x BY <1>2, <2>1, MinLemma
  <2>3. PICK n \in Nat : n = Min(B) BY <2>1, <2>2
  <2> HIDE DEF Bad
  <2>4. Bad(n) BY <2>2, <2>3
  <2>5. ASSUME NEW m \in Nat, m < n PROVE ~Bad(m)
    BY <2>2, <2>3, <2>5
  <2>6. QED BY <2>4, <2>5
<1>4. PICK R : /\ IsFiniteSet(R) /\ R \subseteq A \X Nat
               /\ Cardinality(R) = n
               /\ ~ \E q \in [1 .. n -> R] : Sorted(q)
  BY <1>3
<1>5. CASE R = {}
  <2>1. n = 0 BY <1>4, <1>5, FS_EmptySet
  <2>2. 1 .. n = {} BY <2>1
  <2> DEFINE q == [i \in 1 .. n |-> i]
  <2>3. q \in [1 .. n -> R] /\ Sorted(q) BY <2>2 DEF Sorted
  <2>4. QED BY <1>4, <2>3
<1>6. CASE R # {}
  <2> DEFINE T == {r[2] : r \in R}
  <2>1. T \in SUBSET Nat /\ T # {} BY <1>4, <1>6
  <2>2. PICK first \in R : \A r \in R : first[2] <= r[2]
    <3>1. \A r \in R : r[2] \in T OBVIOUS
    <3>2. \A t \in T : \E r \in R : r[2] = t OBVIOUS
    <3> HIDE DEF T
    <3>3. Min(T) \in T /\ \A t \in T : Min(T) <= t BY <2>1, MinLemma
    <3>4. QED BY <3>1, <3>2, <3>3
  <2> DEFINE S == R \ {first}
  <2>3. IsFiniteSet(S) /\ Cardinality(S) = n - 1
    BY <1>4, FS_RemoveElement
  <2>4. n > 0
    <3>1. Cardinality(R) # 0 BY <1>4, <1>6, FS_EmptySet
    <3>2. QED BY <1>4, <3>1
  <2>5. n - 1 \in Nat /\ n - 1 < n BY <2>4
  <2>6. PICK q \in [1 .. n - 1 -> S] : Sorted(q)
    <3>1. ~Bad(n - 1) BY <1>3, <2>5
    <3>2. S \subseteq A \X Nat BY <1>4
    <3>3. QED BY <2>3, <3>1, <3>2
  <2> DEFINE z == [i \in 1 .. n |-> IF i = 1 THEN first ELSE q[i - 1]]
  <2>7. \A i \in 1 .. n : i # 1 => i - 1 \in 1 .. n - 1 OBVIOUS
  <2>8. z \in [1 .. n -> R] BY <2>7
  <2>9. ASSUME NEW i \in 1 .. n, NEW j \in 1 .. n, i < j
        PROVE  z[i] # z[j] /\ z[i][2] <= z[j][2]
    <3>1. j # 1 /\ j - 1 \in 1 .. n - 1 /\ q[j - 1] \in S
          /\ z[j] = q[j - 1]
      BY <2>9
    <3>2. CASE i = 1 BY <2>2, <3>1, <3>2
    <3>3. CASE i # 1
      <4>1. i - 1 \in 1 .. n - 1 /\ i - 1 < j - 1 /\ z[i] = q[i - 1]
        BY <2>9, <3>3
      <4>2. DOMAIN q = 1 .. n - 1 OBVIOUS
      <4> HIDE DEF z
      <4>3. QED BY <2>6, <3>1, <4>1, <4>2 DEF Sorted
    <3>4. QED BY <3>2, <3>3
  <2>10. Sorted(z)
    <3>1. DOMAIN z = 1 .. n OBVIOUS
    <3> HIDE DEF z
    <3>2. QED BY <2>9, <3>1 DEF Sorted
  <2>11. QED BY <1>4, <2>8, <2>10
<1>7. QED BY <1>5, <1>6

(* The rows to flush: all of them, in the order of their times.            *)
LEMMA InOrderLemma ==
  ASSUME NEW A, NEW rows, IsFiniteSet(rows), rows \subseteq A \X Nat
  PROVE  /\ InOrder(rows) \in Seq(rows)
         /\ Len(InOrder(rows)) = Cardinality(rows)
         /\ Sorted(InOrder(rows))
         /\ \A r \in rows :
              \E j \in 1 .. Len(InOrder(rows)) : InOrder(rows)[j] = r
<1> DEFINE n == Cardinality(rows)
<1>1. n \in Nat BY FS_CardinalityType
<1>2. \E q \in [1 .. n -> rows] : Sorted(q) BY OrderExists
<1>3. PICK q : q = InOrder(rows) OBVIOUS
<1>4. q \in [1 .. n -> rows] /\ Sorted(q)
  BY <1>2, <1>3, ZenonT(60) DEF InOrder, Sorted
<1>5. q \in Seq(rows) /\ Len(q) = n BY <1>1, <1>4, IsASeq
<1>6. q \in Injection(1 .. n, rows)
  <2> SUFFICES ASSUME NEW i \in 1 .. n, NEW j \in 1 .. n, q[i] = q[j]
               PROVE  i = j
    BY <1>4 DEF Injection, IsInjective
  <2>1. i < j \/ j < i \/ i = j BY <1>1
  <2>2. QED BY <1>4, <2>1 DEF Sorted
<1>7. q \in Surjection(1 .. n, rows)
  <2>1. IsFiniteSet(1 .. n) /\ Cardinality(1 .. n) = n
    BY <1>1, FS_Interval
  <2>2. QED BY <1>6, <2>1, FS_Injection
<1>8. \A r \in rows : \E j \in 1 .. n : q[j] = r
  BY <1>7 DEF Surjection
<1>9. QED BY <1>3, <1>4, <1>5, <1>8

-----------------------------------------------------------------------------
(* Indexing keeps a closed table closed.                                   *)

(* One batch takes all markets of a version.                               *)
LEMMA WholeBatch ==
  ASSUME OneBatch, TypeOK, Inductive, NEW n \in Networks, NEW B,
         ScanBatch(n, B),
         NEW m \in B, NEW k \in todo[n], VersionOf[k] = VersionOf[m]
  PROVE  k \in B
<1> DEFINE v3 == {x \in todo[n] : VersionOf[x] = 3}
           rest == CurrentVersion(n)
<1>1. B \subseteq rest /\ Cardinality(B) = Min({BatchSize, Cardinality(rest)})
  BY DEF ScanBatch, IsBatch
<1>2. todo[n] \subseteq MarketsOf(n)
  BY DEF ScanBatch, Inductive, Position
<1>3. rest = IF v3 # {} THEN v3 ELSE todo[n] BY DEF CurrentVersion
<1>4. m \in rest /\ k \in rest BY <1>1, <1>3
<1>5. \A x \in rest : VersionOf[x] = VersionOf[m]
  <2>1. \A x \in Markets : VersionOf[x] \in {2, 3} BY IndexerAssumption
  <2>2. todo[n] \subseteq Markets BY <1>2 DEF MarketsOf
  <2>3. CASE v3 # {} BY <1>3, <1>4, <2>3
  <2>4. CASE v3 = {}
    <3>1. \A x \in todo[n] : VersionOf[x] # 3 BY <2>4
    <3>2. QED BY <1>3, <1>4, <2>1, <2>2, <2>4, <3>1
  <2>5. QED BY <2>3, <2>4
<1>6. rest \subseteq MarketsOf(n) BY <1>2, <1>3
<1> DEFINE s == <<n, VersionOf[m]>>
           M == {x \in Markets : <<NetworkOf[x], VersionOf[x]>> = s}
<1>7. s \in Series /\ rest \subseteq M
  BY <1>4, <1>5, <1>6 DEF MarketsOf, Series
<1>8. Cardinality(M) <= BatchSize BY <1>7 DEF OneBatch
<1>9. M \subseteq Markets OBVIOUS
<1> HIDE DEF rest, M, s, v3
<1>10. IsFiniteSet(M) /\ Cardinality(M) \in Nat
  BY <1>9, IndexerAssumption, FS_Subset, FS_CardinalityType
<1>11. /\ IsFiniteSet(rest) /\ Cardinality(rest) \in Nat
       /\ Cardinality(rest) <= Cardinality(M)
  BY <1>7, <1>10, FS_Subset, FS_CardinalityType
<1>12. Cardinality(B) = Cardinality(rest)
  <2>1. PICK c \in Nat : c = Cardinality(rest) BY <1>11
  <2>2. PICK d \in Nat : d = BatchSize BY IndexerAssumption
  <2>3. c <= d BY <1>8, <1>10, <1>11, <2>1, <2>2
  <2>4. Min({d, c}) \in {d, c} /\ Min({d, c}) <= d /\ Min({d, c}) <= c
    BY MinPair
  <2>5. Min({d, c}) = c
    <3>1. \E x \in {d, c} : \A y \in {d, c} : x <= y BY <2>3
    <3>2. Min({d, c}) <= c /\ \A y \in {d, c} : Min({d, c}) <= y
      BY <3>1 DEF Min
    <3>3. QED BY <2>3, <2>4
  <2>6. QED BY <1>1, <2>1, <2>2, <2>5
<1>13. B = rest BY <1>1, <1>11, <1>12, FS_Subset
<1>14. QED BY <1>4, <1>13

LEMMA ScanKeepsClosed ==
  ASSUME OneBatch, TimesDiffer, TypeOK, Inductive, Closed(chain, users),
         NEW n \in Networks, NEW B, ScanBatch(n, B)
  PROVE  Closed(chain, users')
<1> SUFFICES ASSUME NEW p \in Pairs, NEW q \in Pairs,
                    SeriesOf(p) = SeriesOf(q), users'[q] # None,
                    chain.active[p] # {},
                    FirstTime(chain, p) <= FirstTime(chain, q)
             PROVE  users'[p] # None
  BY DEF Closed
<1>1. /\ pc[n] = "scan" /\ chain \in Chains
      /\ UsersBehind(n) /\ Position(n) /\ None \notin Nat
  BY IndexerAssumption DEF ScanBatch, Inductive, TypeOK
<1>2. users[p] # None => users'[p] # None BY <1>1, ScannedUsers
<1>3. CASE users[q] # None BY <1>2, <1>3 DEF Closed
<1>4. CASE users[q] = None
  <2>1. /\ q[1] \in B /\ LogBlocks(chain.active[q], n) # {}
        /\ q \in PairsOf(n) /\ chain.active[q] # {}
    BY <1>4, ScannedUsers
  <2>2. PICK b \in chain.active[q] : b <= to[n] BY <2>1 DEF LogBlocks
  <2>3. PICK x \in Blocks : x = Min(chain.active[p]) BY <1>1, FirstActive
  <2>4. PICK y \in Blocks : y = Min(chain.active[q])
    BY <1>1, <2>1, FirstActive
  <2>5. x <= y BY <1>1, <2>1, <2>3, <2>4, FirstOrder
  <2>6. y <= b /\ b \in Blocks BY <1>1, <2>1, <2>4, FirstActive
  <2>7. to[n] \in Nat /\ from[n] \in Nat /\ Blocks \subseteq Nat
    BY LocalNat, IndexerAssumption DEF Blocks
  <2>8. x <= to[n] BY <2>2, <2>5, <2>6, <2>7
  <2>9. x \in chain.active[p] BY <1>1, <2>3, FirstActive
  <2>10. p \in PairsOf(n) BY <2>1 DEF PairsOf, SeriesOf
  <2>11. from[n] = StartFrom(n) BY <1>1 DEF Position, Active
  <2>12. CASE x < StartFrom(n) \/ p[1] \notin todo[n]
    BY <1>1, <1>2, <2>8, <2>9, <2>10, <2>12 DEF UsersBehind, InChunk
  <2>13. CASE ~(x < StartFrom(n)) /\ p[1] \in todo[n]
    <3>1. p[1] \in B
      <4>1. VersionOf[p[1]] = VersionOf[q[1]] BY DEF SeriesOf
      <4>2. QED BY <2>1, <2>13, <4>1, WholeBatch
    <3>2. from[n] <= x BY <2>3, <2>7, <2>11, <2>13
    <3>3. x \in LogBlocks(chain.active[p], n)
      BY <2>8, <2>9, <3>2 DEF LogBlocks
    <3>4. QED BY <1>1, <3>1, <3>3, ScannedUsers
  <2>14. QED BY <2>12, <2>13
<1>5. QED BY <1>3, <1>4

LEMMA StepKeepsClosed ==
  ASSUME OneBatch, TimesDiffer, TypeOK, Inductive, Closed(chain, users),
         NEW n \in Networks, IndexStep(n)
  PROVE  Closed(chain, users')
<1>1. CASE \E B \in SUBSET todo[n] : ScanBatch(n, B)
  BY <1>1, ScanKeepsClosed
<1>2. CASE ~ \E B \in SUBSET todo[n] : ScanBatch(n, B)
  <2>1. UNCHANGED users
    BY <1>2 DEF IndexStep, Begin, Discover, DiscoverFails, CommitCursor,
       Skip, db
  <2>2. QED BY <2>1
<1>3. QED BY <1>1, <1>2

(* Indexing never changes the chain.                                       *)
LEMMA StepKeepsChain ==
  ASSUME NEW n \in Networks, IndexStep(n) PROVE UNCHANGED chain
BY DEF IndexStep, Begin, Discover, DiscoverFails, ScanBatch, CommitCursor,
   Skip

(* A table with the users of all declared files and no others is closed,   *)
(* and complete behind the cursors that the files cover.                   *)
LEMMA ImportedTable ==
  ASSUME NEW ch \in Chains, NEW f, FilesOK(ch, f),
         NEW man, IsManifest(man), Valid(f, man),
         \A s \in Series : Covers(ch, f, man, s, {}),
         NEW u,
         \A p \in Pairs : u[p] # None <=> Stored(f, man, p)
  PROVE  Closed(ch, u)
<1> SUFFICES ASSUME NEW p \in Pairs, NEW q \in Pairs,
                    SeriesOf(p) = SeriesOf(q), u[q] # None,
                    ch.active[p] # {},
                    FirstTime(ch, p) <= FirstTime(ch, q)
             PROVE  u[p] # None
  BY DEF Closed
<1>1. PICK s \in Series : s = SeriesOf(p) BY SeriesOfPair
<1>2. /\ ch.active[q] # {}
      /\ FirstTime(ch, q) <= man[s].last
  BY <1>1, RowInFile
<1>3. PICK t \in Nat : t = FirstTime(ch, p) BY FirstActive
<1>4. PICK v \in Nat : v = FirstTime(ch, q) BY <1>2, FirstActive
<1>5. PICK l \in Nat : l = man[s].last BY DEF IsManifest
<1>6. t <= l BY <1>2, <1>3, <1>4, <1>5
<1>7. Stored(f, man, p) BY <1>1, <1>3, <1>5, <1>6 DEF Covers
<1>8. QED BY <1>7

-----------------------------------------------------------------------------
(* The invariant.                                                          *)

MarketsExactIn(ch, table) ==
  \A m \in Markets : table[m] # None =>
    ch.listed[m] # {} /\ table[m] = Min(ch.listed[m])

MetaType == [markets : [Markets -> Blocks \cup {None}],
             cursor  : [Networks -> Blocks \cup {None}]]

(* meta.sqlite: its markets are exact and complete behind its cursors, and *)
(* so are the users in the files, while none of these is missing.          *)
MetaOK(ch, f, man, mt) ==
  mt # None =>
    /\ mt \in MetaType
    /\ MarketsExactIn(ch, mt.markets)
    /\ MarketsBefore(ch, mt.markets, mt.cursor)
    /\ Present(f, man) =>
         \A p \in Pairs : \A b \in ch.active[p] :
           b < After(mt.cursor, NetworkOf[p[1]]) => Stored(f, man, p)

DiskOK(ch, f, man, mt) ==
  /\ FilesOK(ch, f)
  /\ IsManifest(man)
  /\ Present(f, man) => \A s \in Series : Covers(ch, f, man, s, {})
  /\ MetaOK(ch, f, man, mt)

(* What the coverage check is worth: a table that has all users of the     *)
(* declared files is complete behind its cursors, and closed, although it  *)
(* may be of a process that died while it imported or indexed.             *)
Reliable(ch, f, man, u, cur) ==
  /\ Valid(f, man)
  /\ \A p \in Pairs : Stored(f, man, p) => u[p] # None
  => UsersBefore(ch, u, cur) /\ Closed(ch, u)

QueuePairs(q) == {q[j][1] : j \in DOMAIN q}

(* During the flush: dec is the manifest in memory, man the one on disk.   *)
(* Every user is in a file, or waits in the queue or for its series.       *)
FlushOK(ch, f, man, dec, todoSeries, op, q, u) ==
  /\ IsManifest(dec) /\ Present(f, dec)
  /\ \A s \in Series : Len(man[s].chunks) <= Len(dec[s].chunks)
  /\ \A s \in Series :
       Covers(ch, f, dec, s, IF op = s THEN QueuePairs(q) ELSE {})
  /\ \A p \in Pairs : u[p] # None =>
       \/ Stored(f, dec, p)
       \/ op = SeriesOf(p) /\ p \in QueuePairs(q)
       \/ op # SeriesOf(p) /\ SeriesOf(p) \in todoSeries
  /\ op # None =>
       /\ op \in todoSeries /\ q # <<>> /\ dec[op].chunks # <<>>
       /\ q \in Seq(RowsOf(ch, op))
       /\ \A j \in DOMAIN q : dec[op].last <= q[j][2] /\ u[q[j][1]] # None
       /\ \A i, j \in DOMAIN q : i < j => q[i][2] <= q[j][2]

Tables ==
  /\ TypeOK /\ RowsExact /\ FirstSeenExact
  /\ MarketsBefore(chain, markets, cursor)

EmptyDb ==
  /\ users = [p \in Pairs |-> None]
  /\ markets = [m \in Markets |-> None]
  /\ cursor = [n \in Networks |-> None]

Fresh == runtime \in BOOLEAN /\ (~runtime \/ phase = "import" => EmptyDb)

Rely == Reliable(chain, files, LoadedManifest, users, cursor)

Disk == DiskOK(chain, files, LoadedManifest, meta)

Shape ==
  /\ phase \in Phases
  /\ pending \subseteq Series \X ChunkIds
  /\ left \subseteq Series
  /\ open \in Series \cup {None}
  /\ phase # "index" => Idle
  /\ phase # "flush" => open = None

Started == phase # "down" => runtime /\ Present(files, LoadedManifest)

Loading ==
  phase \in {"import", "users", "check", "ready", "index"} =>
    Valid(files, LoadedManifest) /\ declared = LoadedManifest

Importing ==
  phase = "users" =>
    /\ meta # None /\ cursor = meta.cursor
    /\ pending \subseteq DeclaredIn(LoadedManifest)
    /\ \A p \in Pairs : users[p] # None => Stored(files, LoadedManifest, p)

Working ==
  phase \in {"ready", "index", "flush", "sync"} =>
    Inductive /\ Closed(chain, users)

Flushing ==
  phase = "flush" =>
    FlushOK(chain, files, LoadedManifest, declared, left, open, queue, users)

Syncing ==
  phase = "sync" =>
    \A p \in Pairs : users[p] # None => Stored(files, LoadedManifest, p)

Process == Shape /\ Started /\ Loading /\ Importing /\ Working /\ Flushing
           /\ Syncing

SnapInv == Tables /\ Fresh /\ Rely /\ Disk /\ Process

-----------------------------------------------------------------------------
(* The initial state, and what a step leaves alone.                        *)

(* Nothing is behind a cursor that is not there.                           *)
LEMMA NoCursors ==
  ASSUME NEW ch \in Chains, NEW cur, \A n \in Networks : cur[n] = None
  PROVE  /\ \A m \in Markets : \A b \in ch.listed[m] :
              ~(b < After(cur, NetworkOf[m]))
         /\ \A p \in Pairs : \A b \in ch.active[p] :
              ~(b < After(cur, NetworkOf[p[1]]))
<1>1. \A n \in Networks : After(cur, n) = StartBlock[n] BY DEF After
<1>2. PlausibleChain(ch) BY ChainAssumption
<1>3. /\ Blocks \subseteq Nat
      /\ \A m \in Markets : /\ NetworkOf[m] \in Networks
                            /\ StartBlock[NetworkOf[m]] \in Nat
  BY IndexerAssumption DEF Blocks
<1>4. ASSUME NEW m \in Markets, NEW b \in ch.listed[m]
      PROVE  ~(b < After(cur, NetworkOf[m])) /\ b \in Nat
  BY <1>1, <1>2, <1>3 DEF PlausibleChain
<1>5. ASSUME NEW p \in Pairs, NEW b \in ch.active[p]
      PROVE  ~(b < After(cur, NetworkOf[p[1]]))
  <2>1. p[1] \in Markets BY DEF Pairs
  <2>2. b \in Nat BY <1>2, <1>3 DEF PlausibleChain
  <2>3. PICK l \in ch.listed[p[1]] : l <= b BY <1>2 DEF PlausibleChain
  <2>4. PICK a \in Nat : a = After(cur, NetworkOf[p[1]])
    BY <1>1, <1>3, <2>1
  <2>5. ~(l < a) /\ l \in Nat BY <1>4, <2>1, <2>4
  <2>6. QED BY <2>2, <2>3, <2>4, <2>5
<1>6. QED BY <1>4, <1>5

LEMMA EmptyReliable ==
  ASSUME NEW ch \in Chains, NEW f, NEW man,
         NEW u, \A p \in Pairs : u[p] = None,
         NEW cur, \A n \in Networks : cur[n] = None
  PROVE  Reliable(ch, f, man, u, cur)
<1>1. UsersBefore(ch, u, cur) BY NoCursors DEF UsersBefore
<1>2. Closed(ch, u) BY DEF Closed
<1>3. QED BY <1>1, <1>2 DEF Reliable

LEMMA EmptyRuntime ==
  EmptyDb =>
    /\ \A p \in Pairs : users[p] = None
    /\ \A n \in Networks : cursor[n] = None
    /\ \A ch \in Chains : MarketsBefore(ch, markets, cursor)
    /\ RowsExact /\ FirstSeenExact
<1> SUFFICES ASSUME EmptyDb
             PROVE  /\ \A p \in Pairs : users[p] = None
                    /\ \A n \in Networks : cursor[n] = None
                    /\ \A ch \in Chains : MarketsBefore(ch, markets, cursor)
                    /\ RowsExact /\ FirstSeenExact
  OBVIOUS
<1>1. /\ \A p \in Pairs : users[p] = None
      /\ \A m \in Markets : markets[m] = None
      /\ \A n \in Networks : cursor[n] = None
  BY DEF EmptyDb
<1>2. \A ch \in Chains : MarketsBefore(ch, markets, cursor)
  BY <1>1, NoCursors DEF MarketsBefore
<1>3. RowsExact /\ FirstSeenExact BY <1>1 DEF RowsExact, FirstSeenExact
<1>4. QED BY <1>1, <1>2, <1>3

LEMMA NothingStored ==
  ASSUME TimesDiffer, NEW ch \in Chains, NEW f
  PROVE  \A s \in Series : Covers(ch, f, EmptyManifest, s, {})
<1> SUFFICES ASSUME NEW s \in Series, NEW p \in Pairs, SeriesOf(p) = s,
                    ch.active[p] # {},
                    FirstTime(ch, p) <= EmptyManifest[s].last
             PROVE  FALSE
  BY DEF Covers
<1>1. FirstTime(ch, p) <= 0 BY EmptyIsManifest
<1>2. PICK a \in Blocks : a = Min(ch.active[p]) BY FirstActive
<1>3. PICK n \in Networks : n = NetworkOf[p[1]]
  BY IndexerAssumption DEF Pairs
<1>4. FirstTime(ch, p) = Timestamp[n][a] BY <1>2, <1>3 DEF FirstTime, TimeAt
<1>5. Timestamp[n][a] \in Nat /\ 0 < Timestamp[n][a]
  BY TimestampAssumption DEF TimesDiffer
<1>6. QED BY <1>1, <1>4, <1>5

LEMMA DownKeeps ==
  ASSUME ProcessEnds, Idle', Tables', Fresh', Rely', Disk'
  PROVE  SnapInv'
<1>1. /\ phase' = "down" /\ pending' = {} /\ left' = {} /\ open' = None
  BY DEF ProcessEnds
<1>2. Shape' BY <1>1 DEF Shape, Phases
<1>3. /\ Started' /\ Loading' /\ Importing' /\ Working' /\ Flushing'
      /\ Syncing'
  BY <1>1 DEF Started, Loading, Importing, Working, Flushing, Syncing
<1>4. QED BY <1>2, <1>3 DEF SnapInv, Process

LEMMA TablesFrame ==
  ASSUME Tables, UNCHANGED vars PROVE Tables'
<1>1. TypeOK' BY DEF Tables, TypeOK, vars, db, local
<1>2. RowsExact' BY DEF Tables, RowsExact, vars, db, FirstBlock
<1>3. FirstSeenExact' BY DEF Tables, FirstSeenExact, vars, db
<1>4. MarketsBefore(chain, markets, cursor)' BY DEF Tables, vars, db
<1>5. QED BY <1>1, <1>2, <1>3, <1>4 DEF Tables

LEMMA RelyFrame ==
  ASSUME Rely, UNCHANGED <<chain, users, cursor, files, manifest>>
  PROVE  Rely'
BY DEF Rely, LoadedManifest

LEMMA DiskFrame ==
  ASSUME Disk, UNCHANGED <<chain, files, manifest, meta>> PROVE Disk'
BY DEF Disk, LoadedManifest

LEMMA InductiveFrame ==
  ASSUME Inductive, UNCHANGED vars PROVE Inductive'
<1>1. UNCHANGED <<chain, db>> BY DEF vars
<1>2. \A n \in Networks :
        /\ pc'[n] = pc[n] /\ from'[n] = from[n] /\ to'[n] = to[n]
        /\ finalizedTo'[n] = finalizedTo[n] /\ todo'[n] = todo[n]
  BY DEF vars, local
<1>3. QED BY <1>1, <1>2, QuietStep

(* Steps that end the process and leave all stores alone.                  *)
LEMMA EndKeeps ==
  ASSUME SnapInv, ProcessEnds, Idle, UNCHANGED <<vars, disk>>
  PROVE  SnapInv'
<1>1. /\ UNCHANGED <<chain, users, cursor, files, manifest, meta, runtime>>
      /\ UNCHANGED markets /\ UNCHANGED pc
  BY DEF vars, disk, db, local
<1>2. Tables' BY TablesFrame DEF SnapInv
<1>3. Rely' /\ Disk' BY <1>1, RelyFrame, DiskFrame DEF SnapInv
<1>4. Idle' BY <1>1 DEF Idle
<1>5. Fresh'
  BY <1>1 DEF SnapInv, Fresh, ProcessEnds, EmptyDb
<1>6. QED BY <1>2, <1>3, <1>4, <1>5, DownKeeps

LEMMA SnapInvInit ==
  ASSUME TimesDiffer, SnapshotInit PROVE SnapInv
<1>1. Init /\ EmptyDb /\ chain \in Chains
  BY DEF SnapshotInit, Init, EmptyDb
<1>2. Tables BY <1>1, TypeInit, EmptyRuntime DEF Tables
<1>3. Rely BY <1>1, EmptyRuntime, EmptyReliable DEF Rely
<1>4. Fresh BY <1>1 DEF SnapshotInit, Fresh
<1>5. LoadedManifest = EmptyManifest BY DEF SnapshotInit, LoadedManifest
<1>6. FilesOK(chain, files)
  <2>1. files = [s \in Series |-> [i \in ChunkIds |-> None]]
    BY DEF SnapshotInit
  <2>2. \A s \in Series, i \in ChunkIds : files[s][i] = None BY <2>1
  <2>3. files \in [Series -> [ChunkIds -> (SUBSET (Pairs \X Nat)) \cup {None}]]
    <3> DEFINE T == (SUBSET (Pairs \X Nat)) \cup {None}
    <3>1. None \in T OBVIOUS
    <3> HIDE DEF T
    <3>2. files \in [Series -> [ChunkIds -> T]] BY <2>1, <3>1
    <3>3. QED BY <3>2 DEF T
  <2>4. QED BY <2>2, <2>3 DEF FilesOK
<1>7. Disk
  BY <1>1, <1>5, <1>6, EmptyIsManifest, NothingStored
     DEF SnapshotInit, Disk, DiskOK, MetaOK
<1>8. /\ phase = "down" /\ pending = {} /\ left = {} /\ open = None
      /\ Idle
  BY DEF SnapshotInit, Init, Idle
<1>9. Process
  BY <1>8 DEF Process, Shape, Started, Loading, Importing, Working,
     Flushing, Syncing, Phases
<1>10. QED BY <1>2, <1>3, <1>4, <1>7, <1>9 DEF SnapInv

-----------------------------------------------------------------------------
(* Assembling.                                                             *)

LEMMA AssembleKeeps ==
  ASSUME SnapInv, Assemble PROVE SnapInv'
<1>1. Idle /\ phase = "down" BY DEF SnapInv, Process, Shape, Assemble
<1>2. CASE ~ChunksValid(LoadedManifest)
  <2>1. ProcessEnds /\ UNCHANGED <<vars, disk>>
    BY <1>2 DEF Assemble, disk
  <2>2. QED BY <1>1, <2>1, EndKeeps
<1>3. CASE ChunksValid(LoadedManifest)
  <2>1. /\ declared' = LoadedManifest /\ runtime' = TRUE
        /\ phase' = IF runtime THEN "check" ELSE "import"
        /\ UNCHANGED <<pending, left, open, queue>>
        /\ UNCHANGED <<vars, files, manifest, meta>>
    BY <1>3 DEF Assemble
  <2>2. /\ UNCHANGED <<chain, users, markets, cursor, pc>>
        /\ LoadedManifest' = LoadedManifest
    BY <2>1 DEF vars, db, local, LoadedManifest
  <2>3. Tables' BY <2>1, TablesFrame DEF SnapInv
  <2>4. Rely' /\ Disk'
    BY <2>1, <2>2, RelyFrame, DiskFrame DEF SnapInv
  <2>5. IsManifest(LoadedManifest) BY DEF SnapInv, Disk, DiskOK
  <2>6. Valid(files, LoadedManifest) BY <1>3, <2>5, ValidChunks
  <2>7. Present(files, LoadedManifest) BY <2>6 DEF Valid, Present
  <2>8. Fresh'
    BY <2>1, <2>2 DEF SnapInv, Fresh, EmptyDb
  <2>9. Shape' BY <1>1, <2>1, <2>2 DEF SnapInv, Process, Shape, Phases, Idle
  <2>10. Started' /\ Loading' BY <2>1, <2>2, <2>6, <2>7 DEF Started, Loading
  <2>11. Importing' /\ Working' /\ Flushing' /\ Syncing'
    BY <2>1 DEF Importing, Working, Flushing, Syncing
  <2>12. QED
    BY <2>3, <2>4, <2>8, <2>9, <2>10, <2>11 DEF SnapInv, Process
<1>4. QED BY <1>2, <1>3

(* Steps inside the process that leave the indexer's and the snapshot's    *)
(* tables alone; what holds in the new phase is shown apart.               *)
LEMMA PhaseKeeps ==
  ASSUME SnapInv, UNCHANGED <<vars, disk>>, phase # "down", Idle,
         phase' \in {"check", "ready"},
         phase \in {"import", "check"},
         UNCHANGED <<declared, pending, left, open, queue>>,
         phase' = "ready" => Inductive /\ Closed(chain, users)
  PROVE  SnapInv'
<1>1. /\ UNCHANGED <<chain, users, markets, cursor, pc>>
      /\ UNCHANGED <<runtime, files, manifest, meta>>
      /\ LoadedManifest' = LoadedManifest
  BY DEF vars, db, local, disk, LoadedManifest
<1>2. Tables' BY TablesFrame DEF SnapInv
<1>3. Rely' /\ Disk' BY <1>1, RelyFrame, DiskFrame DEF SnapInv
<1>4. Fresh' BY <1>1 DEF SnapInv, Process, Started, Fresh, EmptyDb
<1>5. Shape' BY <1>1 DEF SnapInv, Process, Shape, Phases, Idle
<1>6. Started' /\ Loading'
  BY <1>1 DEF SnapInv, Process, Started, Loading
<1>7. Importing' /\ Flushing' /\ Syncing'
  BY DEF Importing, Flushing, Syncing
<1>8. Working'
  <2>1. CASE phase' = "ready"
    BY <1>1, <2>1, InductiveFrame DEF Working
  <2>2. CASE phase' = "check" BY <2>2 DEF Working
  <2>3. QED BY <2>1, <2>2
<1>9. QED
  BY <1>2, <1>3, <1>4, <1>5, <1>6, <1>7, <1>8 DEF SnapInv, Process

LEMMA StartWithoutMetaKeeps ==
  ASSUME SnapInv, StartWithoutMeta PROVE SnapInv'
<1>1. Idle /\ phase = "import"
  BY DEF SnapInv, Process, Shape, StartWithoutMeta
<1>2. CASE ~HasChunks /\ ColdStartAllowed
  BY <1>1, <1>2, PhaseKeeps DEF StartWithoutMeta
<1>3. CASE ~(~HasChunks /\ ColdStartAllowed)
  BY <1>1, <1>3, EndKeeps DEF StartWithoutMeta
<1>4. QED BY <1>2, <1>3

LEMMA CloseRuntimeKeeps ==
  ASSUME SnapInv, CloseRuntime PROVE SnapInv'
<1>1. Idle BY DEF SnapInv, Process, Shape, CloseRuntime
<1>2. QED BY <1>1, EndKeeps DEF CloseRuntime

(* No network in work: complete behind the cursors is all there is.        *)
LEMMA IdleInductive ==
  ASSUME Tables, Idle, UsersBefore(chain, users, cursor)
  PROVE  Inductive
<1>1. \A n \in Networks : pc[n] = "off" BY DEF Idle
<1>2. \A n : StartFrom(n) = After(cursor, n) BY DEF StartFrom, After
<1>3. ASSUME NEW n \in Networks PROVE Position(n)
  BY <1>1 DEF Position, Active
<1>4. ASSUME NEW n \in Networks, NEW b PROVE ~InChunk(n, b)
  BY <1>1 DEF InChunk
<1>5. ASSUME NEW n \in Networks PROVE MarketsBehind(n)
  BY <1>2, <1>4 DEF MarketsBehind, Tables, MarketsBefore, MarketsOf
<1>6. ASSUME NEW n \in Networks PROVE UsersBehind(n)
  BY <1>2, <1>4 DEF UsersBehind, UsersBefore, PairsOf
<1>7. QED BY <1>3, <1>5, <1>6 DEF Inductive, Tables

LEMMA InductiveBefore ==
  Inductive => /\ UsersBefore(chain, users, cursor)
               /\ MarketsBefore(chain, markets, cursor)
<1> SUFFICES ASSUME Inductive
             PROVE  /\ UsersBefore(chain, users, cursor)
                    /\ MarketsBefore(chain, markets, cursor)
  OBVIOUS
<1>1. \A n : StartFrom(n) = After(cursor, n) BY DEF StartFrom, After
<1>2. \A p \in Pairs : p \in PairsOf(NetworkOf[p[1]]) BY DEF PairsOf
<1>3. \A p \in Pairs : NetworkOf[p[1]] \in Networks
  BY IndexerAssumption DEF Pairs
<1>4. UsersBefore(chain, users, cursor)
  BY <1>1, <1>2, <1>3 DEF Inductive, UsersBehind, UsersBefore
<1>5. \A m \in Markets : m \in MarketsOf(NetworkOf[m])
                         /\ NetworkOf[m] \in Networks
  BY IndexerAssumption DEF MarketsOf
<1>6. MarketsBefore(chain, markets, cursor)
  BY <1>1, <1>5 DEF Inductive, MarketsBehind, MarketsBefore
<1>7. QED BY <1>4, <1>6

LEMMA CheckKeeps ==
  ASSUME SnapInv, Check PROVE SnapInv'
<1>1. Idle /\ phase = "check" /\ declared = LoadedManifest
  BY DEF SnapInv, Process, Shape, Loading, Check
<1>2. IsManifest(LoadedManifest) BY DEF SnapInv, Disk, DiskOK
<1>3. CASE \A c \in DeclaredIn(declared) :
             \A p \in PairsIn(FileOf(c)) : users[p] # None
  <2>1. ASSUME NEW p \in Pairs, Stored(files, LoadedManifest, p)
        PROVE  users[p] # None
    <3>1. PICK s \in Series : s = SeriesOf(p) BY SeriesOfPair
    <3>2. PICK i \in Chunks(LoadedManifest, s) : p \in PairsIn(files[s][i])
      BY <2>1, <3>1 DEF Stored
    <3>3. <<s, i>> \in DeclaredIn(declared)
      BY <1>1, <1>2, DeclaredChunks, ChunkIdOf
    <3>4. QED BY <1>3, <3>2, <3>3 DEF FileOf
  <2>2. Valid(files, LoadedManifest)
    BY <1>1 DEF SnapInv, Process, Loading
  <2>3. UsersBefore(chain, users, cursor) /\ Closed(chain, users)
    BY <2>1, <2>2 DEF SnapInv, Rely, Reliable
  <2>4. Inductive BY <1>1, <2>3, IdleInductive DEF SnapInv
  <2>5. QED BY <1>1, <1>3, <2>3, <2>4, PhaseKeeps DEF Check
<1>4. CASE ~\A c \in DeclaredIn(declared) :
              \A p \in PairsIn(FileOf(c)) : users[p] # None
  BY <1>1, <1>4, EndKeeps DEF Check
<1>5. QED BY <1>3, <1>4

-----------------------------------------------------------------------------
(* Importing.                                                              *)

(* A table with users of the files only, and the cursors of meta.          *)
LEMMA ImportReliable ==
  ASSUME Disk, chain \in Chains, meta # None,
         NEW u, \A p \in Pairs : u[p] # None => Stored(files, LoadedManifest, p)
  PROVE  Reliable(chain, files, LoadedManifest, u, meta.cursor)
<1> SUFFICES ASSUME Valid(files, LoadedManifest),
                    \A p \in Pairs : Stored(files, LoadedManifest, p)
                                       => u[p] # None
             PROVE  UsersBefore(chain, u, meta.cursor) /\ Closed(chain, u)
  BY DEF Reliable
<1>1. Present(files, LoadedManifest) BY DEF Valid, Present
<1>2. UsersBefore(chain, u, meta.cursor)
  BY <1>1 DEF Disk, DiskOK, MetaOK, UsersBefore
<1>3. /\ FilesOK(chain, files) /\ IsManifest(LoadedManifest)
      /\ \A s \in Series : Covers(chain, files, LoadedManifest, s, {})
  BY <1>1 DEF Disk, DiskOK
<1>4. Closed(chain, u) BY <1>3, ImportedTable
<1>5. QED BY <1>2, <1>4

LEMMA ImportMetaKeeps ==
  ASSUME SnapInv, ImportMeta PROVE SnapInv'
<1>1. /\ phase = "import" /\ meta # None
      /\ markets' = meta.markets /\ cursor' = meta.cursor
      /\ UNCHANGED <<chain, users, local, disk>>
  BY DEF ImportMeta
<1>2. /\ UNCHANGED <<runtime, files, manifest, meta, pc, finalizedTo, from,
                     to, known, todo>>
      /\ LoadedManifest' = LoadedManifest
  BY <1>1 DEF disk, local, LoadedManifest
<1>3. /\ Idle /\ runtime /\ EmptyDb /\ chain \in Chains /\ TypeOK
      /\ Valid(files, LoadedManifest) /\ declared = LoadedManifest
      /\ Present(files, LoadedManifest)
      /\ open = None /\ left \subseteq Series
  BY <1>1 DEF SnapInv, Process, Shape, Started, Loading, Fresh, Tables,
     TypeOK
<1>4. /\ meta \in MetaType /\ MarketsExactIn(chain, meta.markets)
      /\ MarketsBefore(chain, meta.markets, meta.cursor)
  BY <1>1 DEF SnapInv, Disk, DiskOK, MetaOK
<1>5. \A p \in Pairs : users[p] = None BY <1>3 DEF EmptyDb
<1>6. Tables'
  <2>1. meta.markets \in [Markets -> Blocks \cup {None}]
        /\ meta.cursor \in [Networks -> Blocks \cup {None}]
    BY <1>4 DEF MetaType
  <2>2. TypeOK' BY <1>1, <1>2, <1>3, <2>1 DEF TypeOK
  <2>3. RowsExact' BY <1>1, <1>5 DEF RowsExact
  <2>4. FirstSeenExact'
    BY <1>1, <1>4 DEF FirstSeenExact, MarketsExactIn
  <2>5. MarketsBefore(chain, markets, cursor)' BY <1>1, <1>4
  <2>6. QED BY <2>2, <2>3, <2>4, <2>5 DEF Tables
<1>7. Rely'
  <2>1. Reliable(chain, files, LoadedManifest, users, meta.cursor)
    BY <1>1, <1>3, <1>5, ImportReliable DEF SnapInv
  <2>2. QED BY <1>1, <1>2, <2>1 DEF Rely
<1>8. Disk' BY <1>1, <1>2, DiskFrame DEF SnapInv
<1>9. Idle' BY <1>2, <1>3 DEF Idle
<1>10. phase' # "import" => Fresh'
  BY <1>2, <1>3 DEF SnapInv, Fresh
<1>11. CASE \A n \in Networks : meta.cursor[n] = None
  <2>1. ProcessEnds BY <1>11 DEF ImportMeta
  <2>2. phase' # "import" BY <2>1 DEF ProcessEnds
  <2>3. QED BY <1>6, <1>7, <1>8, <1>9, <1>10, <2>1, <2>2, DownKeeps
<1>12. CASE ~\A n \in Networks : meta.cursor[n] = None
  <2>1. /\ pending' = {c \in DeclaredIn(declared) : FileOf(c) # None}
        /\ phase' = IF pending' = {} THEN "check" ELSE "users"
        /\ UNCHANGED <<declared, left, open, queue>>
    BY <1>12 DEF ImportMeta
  <2>2. pending' \subseteq DeclaredIn(LoadedManifest)
        /\ pending' \subseteq Series \X ChunkIds
    BY <1>3, <2>1 DEF DeclaredIn
  <2>3. phase' \in {"check", "users"} BY <2>1
  <2>4. Shape' BY <1>3, <1>9, <2>1, <2>2, <2>3 DEF Shape, Phases
  <2>5. Started' /\ Loading' BY <1>2, <1>3, <2>1 DEF Started, Loading
  <2>6. Importing'
    BY <1>1, <1>2, <1>5, <2>2 DEF Importing
  <2>7. Working' /\ Flushing' /\ Syncing'
    BY <2>3 DEF Working, Flushing, Syncing
  <2>8. Process' BY <2>4, <2>5, <2>6, <2>7 DEF Process
  <2>9. Fresh' BY <1>10, <2>3
  <2>10. QED BY <1>6, <1>7, <1>8, <2>8, <2>9 DEF SnapInv
<1>13. QED BY <1>11, <1>12

(* What a chunk brings.                                                    *)
LEMMA ImportedRow ==
  ASSUME NEW ch \in Chains, NEW f, FilesOK(ch, f),
         NEW s \in Series, NEW i \in ChunkIds, f[s][i] # None,
         NEW p \in Pairs, p \in PairsIn(f[s][i])
  PROVE  /\ SeriesOf(p) = s /\ ch.active[p] # {}
         /\ (CHOOSE r \in f[s][i] : r[1] = p)[2] = FirstTime(ch, p)
<1>1. f[s][i] \subseteq RowsOf(ch, s) BY DEF FilesOK
<1>2. \E r \in f[s][i] : r[1] = p BY DEF PairsIn
<1>3. PICK r \in f[s][i] : r = CHOOSE x \in f[s][i] : x[1] = p BY <1>2
<1>4. r[1] = p BY <1>2, <1>3
<1>5. PICK q \in Pairs : /\ SeriesOf(q) = s /\ ch.active[q] # {}
                         /\ r = <<q, FirstTime(ch, q)>>
  BY <1>1, <1>3 DEF RowsOf
<1>6. q = p /\ r[2] = FirstTime(ch, p) BY <1>4, <1>5
<1>7. QED BY <1>3, <1>5, <1>6

LEMMA ImportChunkKeeps ==
  ASSUME SnapInv, NEW c, ImportChunk(c) PROVE SnapInv'
<1>1. /\ phase = "users" /\ c \in pending
      /\ users' = [p \in Pairs |->
           IF users[p] = None /\ p \in PairsIn(FileOf(c))
           THEN (CHOOSE r \in FileOf(c) : r[1] = p)[2] ELSE users[p]]
      /\ pending' = pending \ {c}
      /\ phase' = IF pending' = {} THEN "check" ELSE "users"
      /\ UNCHANGED <<chain, markets, cursor, local, disk, declared, left,
                     open, queue>>
  BY DEF ImportChunk
<1>2. /\ UNCHANGED <<runtime, files, manifest, meta, pc, finalizedTo, from,
                     to, known, todo>>
      /\ LoadedManifest' = LoadedManifest
  BY <1>1 DEF disk, local, LoadedManifest
<1>3. /\ Idle /\ runtime /\ chain \in Chains /\ TypeOK
      /\ Valid(files, LoadedManifest) /\ declared = LoadedManifest
      /\ Present(files, LoadedManifest)
      /\ open = None /\ left \subseteq Series
      /\ pending \subseteq Series \X ChunkIds
  BY <1>1 DEF SnapInv, Process, Shape, Started, Loading, Tables, TypeOK
<1>4. /\ meta # None /\ cursor = meta.cursor
      /\ pending \subseteq DeclaredIn(LoadedManifest)
      /\ \A p \in Pairs : users[p] # None => Stored(files, LoadedManifest, p)
  BY <1>1 DEF SnapInv, Process, Importing
<1>5. FilesOK(chain, files) /\ IsManifest(LoadedManifest)
  BY DEF SnapInv, Disk, DiskOK
<1>6. PICK s \in Series, i \in ChunkIds :
        /\ c = <<s, i>> /\ i \in Chunks(LoadedManifest, s)
  BY <1>1, <1>4, <1>5, DeclaredChunks
<1>7. FileOf(c) = files[s][i] /\ files[s][i] # None
  BY <1>3, <1>6 DEF FileOf, Present
<1>8. ASSUME NEW p \in Pairs
      PROVE  \/ users'[p] = users[p]
             \/ /\ chain.active[p] # {} /\ users'[p] = FirstTime(chain, p)
                /\ Stored(files, LoadedManifest, p)
  <2>1. CASE users[p] = None /\ p \in PairsIn(files[s][i])
    <3>1. users'[p] = (CHOOSE r \in files[s][i] : r[1] = p)[2]
      BY <1>1, <1>7, <2>1
    <3>2. /\ SeriesOf(p) = s /\ chain.active[p] # {}
          /\ users'[p] = FirstTime(chain, p)
      BY <1>3, <1>5, <1>7, <2>1, <3>1, ImportedRow
    <3>3. QED BY <1>6, <2>1, <3>2 DEF Stored
  <2>2. CASE ~(users[p] = None /\ p \in PairsIn(files[s][i]))
    BY <1>1, <1>7, <2>2
  <2>3. QED BY <2>1, <2>2
<1>9. \A p \in Pairs : users'[p] # None => Stored(files, LoadedManifest, p)
  BY <1>4, <1>8
<1>10. Tables'
  <2>1. \A p \in Pairs : users'[p] \in Nat \cup {None}
    BY <1>3, <1>8, FirstActive DEF TypeOK
  <2>2. users' = [p \in Pairs |-> users'[p]] BY <1>1
  <2>3. users' \in [Pairs -> Nat \cup {None}] BY <2>1, <2>2
  <2>4. TypeOK' BY <1>1, <1>2, <1>3, <2>3 DEF TypeOK
  <2>5. RowsExact'
    <3> SUFFICES ASSUME NEW p \in Pairs, users'[p] # None
                 PROVE  /\ chain.active[p] # {}
                        /\ users'[p] = FirstTime(chain, p)
      BY <1>1 DEF RowsExact, FirstBlock, FirstTime
    <3>1. users[p] # None => chain.active[p] # {}
                             /\ users[p] = FirstTime(chain, p)
      BY RowTime DEF SnapInv, Tables
    <3>2. QED BY <1>8, <3>1
  <2>6. FirstSeenExact' BY <1>1 DEF SnapInv, Tables, FirstSeenExact
  <2>7. MarketsBefore(chain, markets, cursor)'
    BY <1>1 DEF SnapInv, Tables
  <2>8. QED BY <2>4, <2>5, <2>6, <2>7 DEF Tables
<1>11. Rely'
  <2>1. Reliable(chain, files, LoadedManifest, users', meta.cursor)
    BY <1>3, <1>4, <1>9, ImportReliable DEF SnapInv
  <2>2. QED BY <1>1, <1>2, <1>4, <2>1 DEF Rely
<1>12. Disk' BY <1>1, <1>2, DiskFrame DEF SnapInv
<1>13. phase' \in {"check", "users"} BY <1>1
<1>14. Fresh' BY <1>2, <1>3, <1>13 DEF SnapInv, Fresh
<1>15. Idle' BY <1>2, <1>3 DEF Idle
<1>16. pending' \subseteq pending BY <1>1
<1>17. Shape' BY <1>1, <1>3, <1>13, <1>15, <1>16 DEF Shape, Phases
<1>18. Started' /\ Loading' BY <1>1, <1>2, <1>3 DEF Started, Loading
<1>19. Importing' BY <1>1, <1>2, <1>4, <1>9, <1>16 DEF Importing
<1>20. Working' /\ Flushing' /\ Syncing'
  BY <1>13 DEF Working, Flushing, Syncing
<1>21. QED
  BY <1>10, <1>11, <1>12, <1>14, <1>17, <1>18, <1>19, <1>20
     DEF SnapInv, Process

-----------------------------------------------------------------------------
(* Indexing.                                                               *)

(* The tables after a step of the indexer.                                 *)
LEMMA IndexingTables ==
  ASSUME OneBatch, TimesDiffer, TypeOK, Inductive, Closed(chain, users),
         StartRun \/ FinishRun \/ \E n \in Networks : IndexStep(n)
  PROVE  /\ UNCHANGED chain /\ Tables' /\ Inductive'
         /\ UsersBefore(chain, users', cursor') /\ Closed(chain, users')
<1>1. Next BY DEF Next
<1>2. TypeOK' BY <1>1, TypeStep
<1>3. Inductive' BY <1>1, InductiveStep
<1>4. UNCHANGED chain
  BY StepKeepsChain DEF StartRun, FinishRun
<1>5. (UsersBefore(chain, users, cursor)
         /\ MarketsBefore(chain, markets, cursor))'
  BY <1>3, InductiveBefore, PTL
<1>6. RowsExact' /\ FirstSeenExact' BY <1>3 DEF Inductive
<1>7. Tables' BY <1>2, <1>5, <1>6 DEF Tables
<1>8. Closed(chain, users')
  <2>1. CASE \E n \in Networks : IndexStep(n) BY <2>1, StepKeepsClosed
  <2>2. CASE StartRun \/ FinishRun BY <2>2 DEF StartRun, FinishRun, db
  <2>3. QED BY <2>1, <2>2
<1>9. QED BY <1>3, <1>4, <1>5, <1>7, <1>8

LEMMA IndexingKeeps ==
  ASSUME OneBatch, TimesDiffer, SnapInv,
         BeginIndexing \/ IndexNetworks \/ EndIndexing
  PROVE  SnapInv'
<1>1. /\ phase \in {"ready", "index"} /\ phase' \in {"index", "flush"}
      /\ UNCHANGED <<disk, declared, pending, open, queue>>
      /\ StartRun \/ FinishRun \/ \E n \in Networks : IndexStep(n)
      /\ phase' = "index" => UNCHANGED left
      /\ phase' = "flush" =>
           /\ FinishRun
           /\ left' = {s \in Series : \E p \in Pairs :
                         SeriesOf(p) = s /\ users[p] # None}
  BY DEF BeginIndexing, IndexNetworks, EndIndexing, process
<1>2. /\ UNCHANGED <<runtime, files, manifest, meta>>
      /\ LoadedManifest' = LoadedManifest
  BY <1>1 DEF disk, LoadedManifest
<1>3. /\ TypeOK /\ Inductive /\ Closed(chain, users) /\ runtime
      /\ Valid(files, LoadedManifest) /\ declared = LoadedManifest
      /\ Present(files, LoadedManifest)
      /\ open = None /\ left \subseteq Series
      /\ pending \subseteq Series \X ChunkIds
  BY <1>1 DEF SnapInv, Process, Shape, Started, Loading, Working, Tables
<1>4. /\ UNCHANGED chain /\ Tables' /\ Inductive'
      /\ UsersBefore(chain, users', cursor') /\ Closed(chain, users')
  BY <1>1, <1>3, IndexingTables
<1>5. Rely' BY <1>4 DEF Rely, Reliable
<1>6. Disk' BY <1>2, <1>4, DiskFrame DEF SnapInv
<1>7. Fresh' BY <1>1, <1>2, <1>3 DEF SnapInv, Fresh
<1>8. Shape'
  <2>1. phase' = "flush" => Idle'
    BY <1>1 DEF FinishRun, RunVariablesReset, Idle
  <2>2. left' \subseteq Series BY <1>1, <1>3
  <2>3. QED BY <1>1, <1>3, <2>1, <2>2 DEF Shape, Phases
<1>9. Started' /\ Loading' BY <1>1, <1>2, <1>3 DEF Started, Loading
<1>10. Importing' /\ Syncing' BY <1>1 DEF Importing, Syncing
<1>11. Working' BY <1>4 DEF Working
<1>12. Flushing'
  <2> SUFFICES ASSUME phase' = "flush"
               PROVE  FlushOK(chain, files, LoadedManifest, LoadedManifest,
                              left', None, queue, users)
    BY <1>1, <1>2, <1>3, <1>4 DEF Flushing, FinishRun, db
  <2>1. /\ IsManifest(LoadedManifest) /\ None \notin Series
        /\ \A s \in Series : Covers(chain, files, LoadedManifest, s, {})
    BY <1>3, SnapshotAssumption DEF SnapInv, Disk, DiskOK
  <2>2. \A s \in Series : LoadedManifest[s].chunks \in Seq(Info)
    BY <2>1 DEF IsManifest
  <2>3. \A s \in Series : Len(LoadedManifest[s].chunks) \in Nat BY <2>2
  <2>4. \A s \in Series :
          Len(LoadedManifest[s].chunks) <= Len(LoadedManifest[s].chunks)
    BY <2>3
  <2>5. \A p \in Pairs : users[p] # None =>
          None # SeriesOf(p) /\ SeriesOf(p) \in left'
    BY <1>1, <2>1, SeriesOfPair
  <2>6. QED BY <1>3, <2>1, <2>4, <2>5 DEF FlushOK
<1>13. QED
  BY <1>4, <1>5, <1>6, <1>7, <1>8, <1>9, <1>10, <1>11, <1>12
     DEF SnapInv, Process

-----------------------------------------------------------------------------
(* Flushing.                                                               *)

Grows(f, g) ==
  \A s \in Series, i \in ChunkIds :
    f[s][i] # None => g[s][i] # None /\ f[s][i] \subseteq g[s][i]

LEMMA StoredGrows ==
  ASSUME NEW f, NEW g, Grows(f, g),
         NEW man, IsManifest(man), Present(f, man),
         NEW next, IsManifest(next),
         \A s \in Series : Len(man[s].chunks) <= Len(next[s].chunks),
         NEW p \in Pairs, Stored(f, man, p)
  PROVE  Stored(g, next, p)
<1>1. PICK s \in Series : s = SeriesOf(p) BY SeriesOfPair
<1>2. PICK i \in Chunks(man, s) : p \in PairsIn(f[s][i])
  BY <1>1 DEF Stored
<1>3. i \in ChunkIds /\ f[s][i] # None BY ChunkIdOf DEF Present
<1>4. p \in PairsIn(g[s][i]) BY <1>2, <1>3 DEF Grows, PairsIn
<1>5. i \in Chunks(next, s)
  <2>1. man[s].chunks \in Seq(Info) /\ next[s].chunks \in Seq(Info)
    BY DEF IsManifest
  <2>2. PICK l \in Nat : l = Len(man[s].chunks) BY <2>1
  <2>3. PICK k \in Nat : k = Len(next[s].chunks) BY <2>1
  <2>4. l <= k BY <2>2, <2>3
  <2>5. i \in 1 .. l BY <2>2 DEF Chunks
  <2>6. i \in 1 .. k BY <2>4, <2>5
  <2>7. QED BY <2>3, <2>6 DEF Chunks
<1>6. QED BY <1>1, <1>4, <1>5 DEF Stored

LEMMA SameLengths ==
  ASSUME NEW man, IsManifest(man)
  PROVE  \A s \in Series : /\ Len(man[s].chunks) \in Nat
                           /\ Len(man[s].chunks) <= Len(man[s].chunks)
<1>1. \A s \in Series : man[s].chunks \in Seq(Info) BY DEF IsManifest
<1>2. \A s \in Series : Len(man[s].chunks) \in Nat BY <1>1
<1>3. QED BY <1>2

(* Growing files keep what the snapshot on disk promises.                  *)
LEMMA DiskGrows ==
  ASSUME NEW ch, NEW f, NEW g, NEW man, NEW mt,
         DiskOK(ch, f, man, mt), Present(f, man),
         FilesOK(ch, g), Grows(f, g)
  PROVE  DiskOK(ch, g, man, mt) /\ Present(g, man)
<1>1. IsManifest(man) BY DEF DiskOK
<1>2. \A p \in Pairs : Stored(f, man, p) => Stored(g, man, p)
  BY <1>1, StoredGrows, SameLengths
<1>3. Present(g, man) BY <1>1, ChunkIdOf DEF Present, Grows
<1>4. \A s \in Series : Covers(ch, g, man, s, {})
  BY <1>2 DEF DiskOK, Covers
<1>5. MetaOK(ch, g, man, mt) BY <1>2 DEF DiskOK, MetaOK
<1>6. QED BY <1>1, <1>3, <1>4, <1>5 DEF DiskOK

LEMMA FlushStepKeeps ==
  ASSUME SnapInv, phase = "flush",
         UNCHANGED <<vars, runtime, manifest, meta, phase, pending>>,
         FilesOK(chain, files'), Grows(files, files'),
         left' \subseteq Series, open' \in Series \cup {None},
         FlushOK(chain, files', LoadedManifest, declared', left', open',
                 queue', users)
  PROVE  SnapInv'
<1>1. /\ UNCHANGED <<chain, users, markets, cursor, pc>>
      /\ LoadedManifest' = LoadedManifest
  BY DEF vars, db, local, LoadedManifest
<1>2. /\ Inductive /\ Closed(chain, users) /\ runtime
      /\ Present(files, LoadedManifest)
      /\ DiskOK(chain, files, LoadedManifest, meta)
  BY DEF SnapInv, Process, Working, Started, Disk
<1>3. Tables' BY TablesFrame DEF SnapInv
<1>4. /\ DiskOK(chain, files', LoadedManifest, meta)
      /\ Present(files', LoadedManifest)
  BY <1>2, DiskGrows
<1>5. Disk' BY <1>1, <1>4 DEF Disk
<1>6. Rely'
  BY <1>1, <1>2, InductiveBefore DEF Rely, Reliable
<1>7. Fresh' BY <1>2 DEF SnapInv, Fresh
<1>8. Shape' BY <1>1 DEF SnapInv, Process, Shape, Idle
<1>9. Started' BY <1>1, <1>2, <1>4 DEF Started
<1>10. Loading' /\ Importing' /\ Syncing' BY DEF Loading, Importing, Syncing
<1>11. Working' BY <1>1, <1>2, InductiveFrame DEF Working
<1>12. Flushing' BY <1>1 DEF Flushing
<1>13. QED
  BY <1>3, <1>5, <1>6, <1>7, <1>8, <1>9, <1>10, <1>11, <1>12
     DEF SnapInv, Process

(* Rows of a finite number of users.                                       *)
LEMMA PairsFinite == IsFiniteSet(Pairs)
BY IndexerAssumption, SnapshotAssumption, FS_Product DEF Pairs

LEMMA NewRowsFacts ==
  ASSUME Tables, NEW s \in Series
  PROVE  /\ IsFiniteSet(NewRows(s))
         /\ NewRows(s) \subseteq RowsOf(chain, s)
         /\ NewRows(s) \subseteq Pairs \X Nat
         /\ \A p \in Pairs :
              SeriesOf(p) = s /\ users[p] # None /\ users[p] > declared[s].last
              => <<p, users[p]>> \in NewRows(s)
         /\ \A r \in NewRows(s) :
              r[2] > declared[s].last /\ users[r[1]] # None /\ r[1] \in Pairs
<1> DEFINE Q == {q \in Pairs : /\ SeriesOf(q) = s /\ users[q] # None
                               /\ users[q] > declared[s].last}
           F == [q \in Q |-> <<q, users[q]>>]
<1>1. IsFiniteSet(Q) BY PairsFinite, FS_Subset
<1>2. F \in Surjection(Q, NewRows(s)) BY DEF Surjection, NewRows
<1>3. IsFiniteSet(NewRows(s))
  <2> HIDE DEF Q, F
  <2>1. QED BY <1>1, <1>2, FS_Surjection
<1>4. \A q \in Pairs : users[q] # None =>
        /\ chain.active[q] # {} /\ users[q] = FirstTime(chain, q)
        /\ users[q] \in Nat
  BY RowTime DEF Tables, TypeOK
<1>5. NewRows(s) \subseteq RowsOf(chain, s) BY <1>4 DEF NewRows, RowsOf
<1>6. NewRows(s) \subseteq Pairs \X Nat BY <1>4 DEF NewRows
<1>7. QED BY <1>3, <1>5, <1>6 DEF NewRows

(* A file that is opened.                                                  *)
LEMMA OpenedFile ==
  ASSUME NEW ch, NEW f, FilesOK(ch, f), NEW s \in Series, NEW i \in ChunkIds,
         NEW g, g = [f EXCEPT ![s][i] = IF @ = None THEN {} ELSE @]
  PROVE  FilesOK(ch, g) /\ Grows(f, g) /\ g[s][i] # None
<1> DEFINE T == (SUBSET (Pairs \X Nat)) \cup {None}
<1>1. f \in [Series -> [ChunkIds -> T]] BY DEF FilesOK
<1>2. {} \in T /\ {} # None /\ IsFiniteSet({})
  <2>1. {} # None BY SnapshotAssumption
  <2>2. QED BY <2>1, FS_EmptySet
<1> HIDE DEF T
<1>3. g \in [Series -> [ChunkIds -> T]] BY <1>1, <1>2
<1>4. \A x \in Series, j \in ChunkIds :
        g[x][j] = IF x = s /\ j = i /\ f[x][j] = None THEN {} ELSE f[x][j]
  BY <1>1
<1>5. Grows(f, g) BY <1>2, <1>4 DEF Grows
<1>6. \A x \in Series, j \in ChunkIds : g[x][j] # None =>
        IsFiniteSet(g[x][j]) /\ g[x][j] \subseteq RowsOf(ch, x)
  BY <1>2, <1>4 DEF FilesOK
<1>7. FilesOK(ch, g) BY <1>3, <1>6 DEF FilesOK, T
<1>8. QED BY <1>2, <1>4, <1>5, <1>7

LEMMA OpenedOnly ==
  ASSUME NEW ch, NEW f, FilesOK(ch, f), NEW s \in Series, NEW i \in ChunkIds,
         NEW g, g = [f EXCEPT ![s][i] = IF @ = None THEN {} ELSE @]
  PROVE  /\ f[s][i] = None => g[s][i] = {}
         /\ \A x \in Series, j \in ChunkIds :
              x # s \/ j # i => g[x][j] = f[x][j]
<1> DEFINE T == (SUBSET (Pairs \X Nat)) \cup {None}
<1>1. f \in [Series -> [ChunkIds -> T]] /\ {} \in T BY DEF FilesOK
<1> HIDE DEF T
<1>2. QED BY <1>1

(* The rows of a series are read.                                          *)
LEMMA FlushSeriesKeeps ==
  ASSUME SnapInv, NEW s, FlushSeries(s)
  PROVE  SnapInv' /\ Grows(files, files')
<1>1. /\ phase = "flush" /\ open = None /\ s \in left
      /\ UNCHANGED <<vars, runtime, manifest, meta, phase, pending>>
  BY DEF FlushSeries
<1>2. /\ s \in Series /\ left \subseteq Series /\ Tables
      /\ chain \in Chains /\ None \notin Series
      /\ FilesOK(chain, files) /\ IsManifest(LoadedManifest)
  BY <1>1, SnapshotAssumption
     DEF SnapInv, Process, Shape, Tables, TypeOK, Disk, DiskOK
<1>3. FlushOK(chain, files, LoadedManifest, declared, left, None, queue,
              users)
  BY <1>1 DEF SnapInv, Process, Flushing
<1>4. /\ IsManifest(declared) /\ Present(files, declared)
      /\ \A x \in Series : Covers(chain, files, declared, x, {})
      /\ \A p \in Pairs : users[p] # None =>
           Stored(files, declared, p) \/ SeriesOf(p) \in left
  <2>1. \A p \in Pairs : None # SeriesOf(p) BY <1>2, SeriesOfPair
  <2>2. \A x \in Series :
          Covers(chain, files, declared, x,
                 IF None = x THEN QueuePairs(queue) ELSE {})
    BY <1>3 DEF FlushOK
  <2>3. \A x \in Series : (IF None = x THEN QueuePairs(queue) ELSE {}) = {}
    BY <1>2
  <2>4. \A x \in Series : Covers(chain, files, declared, x, {})
    BY <2>2, <2>3
  <2>5. QED BY <1>3, <2>1, <2>4 DEF FlushOK
<1>5. \A p \in Pairs : users[p] # None =>
        /\ chain.active[p] # {} /\ users[p] = FirstTime(chain, p)
        /\ users[p] \in Nat
  BY <1>2, RowTime DEF Tables, TypeOK
<1>6. PICK l \in Nat : l = declared[s].last
  BY <1>2, <1>4 DEF IsManifest
<1>7. ASSUME NEW p \in Pairs, SeriesOf(p) = s, users[p] # None
      PROVE  \/ Stored(files, declared, p)
             \/ <<p, users[p]>> \in NewRows(s)
  <2>1. CASE users[p] > l BY <1>2, <1>6, <1>7, <2>1, NewRowsFacts
  <2>2. CASE ~(users[p] > l)
    <3>1. FirstTime(chain, p) <= l BY <1>5, <1>7, <2>2
    <3>2. QED BY <1>2, <1>4, <1>5, <1>6, <1>7, <3>1 DEF Covers
  <2>3. QED BY <2>1, <2>2
<1>8. CASE NewRows(s) = {}
  <2>1. /\ left' = left \ {s}
        /\ UNCHANGED <<files, declared, open, queue>>
    BY <1>8 DEF FlushSeries
  <2>2. FlushOK(chain, files, LoadedManifest, declared, left', None, queue,
                users)
    <3>1. \A p \in Pairs : users[p] # None =>
            Stored(files, declared, p) \/ SeriesOf(p) \in left'
      BY <1>4, <1>7, <1>8, <2>1
    <3>2. \A p \in Pairs : None # SeriesOf(p) BY <1>2, SeriesOfPair
    <3>3. QED BY <1>3, <3>1, <3>2 DEF FlushOK
  <2>3. Grows(files, files') BY <2>1 DEF Grows
  <2>4. QED BY <1>1, <1>2, <2>1, <2>2, <2>3, FlushStepKeeps
<1>9. CASE NewRows(s) # {}
  <2> DEFINE chunks == declared[s].chunks
             active == IF chunks = <<>> THEN <<[rows |-> 0, end |-> 0]>>
                                        ELSE chunks
  <2>1. /\ declared' = [declared EXCEPT ![s].chunks = active]
        /\ files' = Opened(s, Len(active))
        /\ open' = s /\ queue' = InOrder(NewRows(s)) /\ left' = left
    BY <1>9 DEF FlushSeries
  <2>2. chunks \in Seq(Info) /\ Len(chunks) <= MaxChunks
    BY <1>2, <1>4 DEF IsManifest
  <2>3. PICK n \in ChunkIds :
          /\ n = Len(active) /\ active \in Seq(Info) /\ Len(chunks) <= n
          /\ active # <<>>
          /\ \A i \in 1 .. n : active[i].end <= l
          /\ \A i \in 1 .. n : i # n => i \in 1 .. Len(chunks)
    <3>1. CASE chunks = <<>>
      <4>1. PICK e \in Info : e.end = 0 /\ active = <<e>>
        <5>1. [rows |-> 0, end |-> 0] \in Info BY DEF Info
        <5>2. active = <<[rows |-> 0, end |-> 0]>> BY <3>1
        <5>3. QED BY <5>1, <5>2
      <4>2. <<e>> \in Seq(Info) /\ Len(<<e>>) = 1 /\ <<e>>[1] = e
            /\ <<e>> # <<>>
        OBVIOUS
      <4>3. active \in Seq(Info) /\ Len(active) = 1 /\ active # <<>>
            /\ active[1].end = 0
        BY <4>1, <4>2
      <4>4. 1 \in ChunkIds BY SnapshotAssumption DEF ChunkIds
      <4>5. Len(chunks) = 0 BY <3>1
      <4> HIDE DEF active, chunks
      <4>6. /\ 1 = Len(active) /\ Len(chunks) <= 1
            /\ \A i \in 1 .. 1 : active[i].end <= l
            /\ \A i \in 1 .. 1 : i = 1
        BY <4>3, <4>5
      <4>7. QED BY <4>3, <4>4, <4>6
    <3>2. CASE chunks # <<>>
      <4>1. active = chunks BY <3>2
      <4>2. PICK n \in Nat : n = Len(chunks) BY <2>2
      <4>3. n # 0 BY <2>2, <3>2, <4>2, EmptySeq
      <4>4. n \in ChunkIds
        BY <2>2, <4>2, <4>3, SnapshotAssumption DEF ChunkIds
      <4>5. \A i \in 1 .. n : chunks[i].end <= l
        BY <1>2, <1>4, <1>6, <4>2 DEF IsManifest
      <4> HIDE DEF active, chunks
      <4>6. n <= n BY <4>2
      <4>7. QED BY <2>2, <3>2, <4>1, <4>2, <4>4, <4>5, <4>6
    <3>3. QED BY <3>1, <3>2
  <2> DEFINE next == declared'
             g == files'
             q == queue'
  <2>4. /\ \A x \in Series : x # s => next[x] = declared[x]
        /\ next[s].last = declared[s].last /\ next[s].chunks = active
        /\ next \in [Series -> [last : Nat, chunks : Seq(Info)]]
    <3>1. declared \in [Series -> [last : Nat, chunks : Seq(Info)]]
      BY <1>4 DEF IsManifest
    <3>2. active \in Seq(Info) BY <2>3
    <3> HIDE DEF active
    <3>3. QED BY <1>2, <2>1, <3>1, <3>2
  <2> HIDE DEF chunks, active
  <2>5. IsManifest(next)
    <3>1. n <= MaxChunks BY SnapshotAssumption DEF ChunkIds
    <3> HIDE DEF next
    <3>2. QED BY <1>4, <1>6, <2>3, <2>4, <3>1 DEF IsManifest
  <2>6. FilesOK(chain, g) /\ Grows(files, g) /\ g[s][n] # None
    <3>1. g = [files EXCEPT ![s][n] = IF @ = None THEN {} ELSE @]
      BY <2>1, <2>3 DEF Opened
    <3> HIDE DEF g
    <3>2. QED BY <1>2, <3>1, OpenedFile, ZenonT(60)
  <2>7. \A x \in Series : Len(declared[x].chunks) <= Len(next[x].chunks)
    <3> HIDE DEF next
    <3>1. QED BY <1>4, <2>3, <2>4, SameLengths DEF chunks
  <2>8. Present(g, next)
    <3> SUFFICES ASSUME NEW x \in Series, NEW i \in Chunks(next, x)
                 PROVE  g[x][i] # None
      BY DEF Present
    <3> HIDE DEF next, g
    <3>1. ASSUME i \in Chunks(declared, x) PROVE g[x][i] # None
      BY <1>4, <2>6, <3>1, ChunkIdOf DEF Present, Grows
    <3>2. CASE x # s BY <2>4, <3>1, <3>2 DEF Chunks
    <3>3. CASE x = s /\ i = n BY <2>6, <3>3
    <3>4. CASE x = s /\ i # n
      BY <2>3, <2>4, <3>1, <3>4 DEF Chunks, chunks
    <3>5. QED BY <3>2, <3>3, <3>4
  <2>9. \A p \in Pairs : Stored(files, declared, p) => Stored(g, next, p)
    BY <1>4, <2>5, <2>6, <2>7, StoredGrows
  <2>10. /\ IsFiniteSet(NewRows(s)) /\ NewRows(s) \subseteq Pairs \X Nat
         /\ NewRows(s) \subseteq RowsOf(chain, s)
         /\ \A r \in NewRows(s) :
              r[2] > l /\ users[r[1]] # None /\ r[1] \in Pairs
    BY <1>2, <1>6, NewRowsFacts
  <2>11. /\ q \in Seq(NewRows(s)) /\ Len(q) = Cardinality(NewRows(s))
         /\ Sorted(q)
         /\ \A r \in NewRows(s) : \E j \in 1 .. Len(q) : q[j] = r
    <3>1. q = InOrder(NewRows(s)) BY <2>1
    <3>2. PICK R : R = NewRows(s) OBVIOUS
    <3>3. IsFiniteSet(R) /\ R \subseteq Pairs \X Nat BY <2>10, <3>2
    <3>4. /\ InOrder(R) \in Seq(R) /\ Len(InOrder(R)) = Cardinality(R)
          /\ Sorted(InOrder(R))
          /\ \A r \in R : \E j \in 1 .. Len(InOrder(R)) : InOrder(R)[j] = r
      BY <3>3, InOrderLemma
    <3> HIDE DEF q
    <3>5. QED BY <3>1, <3>2, <3>4
  <2>12. FlushOK(chain, g, LoadedManifest, next, left, s, q, users)
    <3> HIDE DEF next, g, q
    <3>1. \A x \in Series :
            Len(LoadedManifest[x].chunks) <= Len(next[x].chunks)
      <4> SUFFICES ASSUME NEW x \in Series
                   PROVE  Len(LoadedManifest[x].chunks) <= Len(next[x].chunks)
        OBVIOUS
      <4>1. PICK a \in Nat : a = Len(LoadedManifest[x].chunks)
        BY <1>2, SameLengths
      <4>2. PICK b \in Nat : b = Len(declared[x].chunks)
        BY <1>4, SameLengths
      <4>3. PICK c \in Nat : c = Len(next[x].chunks) BY <2>5, SameLengths
      <4>4. a <= b /\ b <= c BY <1>3, <2>7, <4>1, <4>2, <4>3 DEF FlushOK
      <4>5. QED BY <4>1, <4>3, <4>4
    <3>2. \A x \in Series : Covers(chain, g, next, x, {})
      <4>1. \A x \in Series : next[x].last = declared[x].last BY <2>4
      <4>2. QED BY <1>4, <2>9, <4>1 DEF Covers
    <3>3. \A x \in Series :
            Covers(chain, g, next, x, IF s = x THEN QueuePairs(q) ELSE {})
      BY <3>2 DEF Covers
    <3>4. DOMAIN q = 1 .. Len(q) BY <2>11
    <3>5. \A p \in Pairs : users[p] # None =>
            \/ Stored(g, next, p)
            \/ s = SeriesOf(p) /\ p \in QueuePairs(q)
            \/ s # SeriesOf(p) /\ SeriesOf(p) \in left
      <4> SUFFICES ASSUME NEW p \in Pairs, users[p] # None,
                          s = SeriesOf(p), ~Stored(files, declared, p)
                   PROVE  p \in QueuePairs(q)
        BY <1>4, <2>9
      <4>1. <<p, users[p]>> \in NewRows(s) BY <1>7
      <4>2. PICK j \in 1 .. Len(q) : q[j] = <<p, users[p]>> BY <2>11, <4>1
      <4>3. QED BY <3>4, <4>2 DEF QueuePairs
    <3>6. next[s].chunks # <<>> BY <2>3, <2>4
    <3>7. q # <<>>
      <4>1. PICK r \in NewRows(s) : TRUE BY <1>9
      <4>2. PICK j \in 1 .. Len(q) : q[j] = r BY <2>11
      <4>3. QED BY <3>4, <4>2
    <3>8. q \in Seq(RowsOf(chain, s)) BY <2>10, <2>11, SeqMonotonic
    <3>9. ASSUME NEW j \in DOMAIN q
          PROVE  next[s].last <= q[j][2] /\ users[q[j][1]] # None
      <4>1. q[j] \in NewRows(s) BY <2>11, <3>4
      <4>2. PICK r \in NewRows(s) : r = q[j] BY <4>1
      <4>3. r[2] > l /\ users[r[1]] # None /\ r[2] \in Nat BY <2>10
      <4>4. l <= r[2] BY <4>3
      <4>5. QED BY <1>6, <2>4, <4>2, <4>3, <4>4
    <3>10. \A i, j \in DOMAIN q : i < j => q[i][2] <= q[j][2]
      BY <2>11 DEF Sorted
    <3>11. s \in left BY <1>1
    <3>12. QED
      BY <2>5, <2>8, <3>1, <3>3, <3>5, <3>6, <3>7, <3>8, <3>9, <3>10, <3>11
         DEF FlushOK
  <2>13. QED BY <1>1, <1>2, <2>1, <2>6, <2>12, FlushStepKeeps
<1>10. QED BY <1>8, <1>9

(* The first k rows of the queue are in the active file now, and taken from *)
(* the queue.                                                              *)
RowsWritten(f, dec, s, q, k, g, next) ==
  /\ k \in 1 .. Len(q) /\ Grows(f, g)
  /\ \A j \in 1 .. k : q[j][1] \in PairsIn(g[s][Len(dec[s].chunks)])
  /\ IsManifest(next) /\ Present(g, next)
  /\ \A x \in Series : x # s => next[x] = dec[x]
  /\ Len(dec[s].chunks) <= Len(next[s].chunks)
  /\ next[s].last = q[k][2]

Dequeued(s, q, k, lft, rest, op, lft2) ==
  /\ rest = SubSeq(q, k + 1, Len(q))
  /\ op = IF rest = <<>> THEN None ELSE s
  /\ lft2 = IF rest = <<>> THEN lft \ {s} ELSE lft

LEMMA ChunkFlushed ==
  ASSUME NEW ch \in Chains, NEW f, NEW man, NEW dec, NEW lft,
         NEW s \in Series, NEW q, NEW u,
         FlushOK(ch, f, man, dec, lft, s, q, u), IsManifest(man),
         \A p \in Pairs : u[p] # None =>
           ch.active[p] # {} /\ u[p] = FirstTime(ch, p),
         Closed(ch, u), None \notin Series,
         NEW k, NEW g, NEW next, RowsWritten(f, dec, s, q, k, g, next),
         NEW rest, NEW op, NEW lft2, Dequeued(s, q, k, lft, rest, op, lft2)
  PROVE  FlushOK(ch, g, man, next, lft2, op, rest, u)
<1>1. /\ k \in 1 .. Len(q) /\ Grows(f, g)
      /\ \A j \in 1 .. k : q[j][1] \in PairsIn(g[s][Len(dec[s].chunks)])
      /\ IsManifest(next) /\ Present(g, next)
      /\ \A x \in Series : x # s => next[x] = dec[x]
      /\ Len(dec[s].chunks) <= Len(next[s].chunks)
      /\ next[s].last = q[k][2]
  BY DEF RowsWritten
<1>2. /\ rest = SubSeq(q, k + 1, Len(q))
      /\ op = IF rest = <<>> THEN None ELSE s
      /\ lft2 = IF rest = <<>> THEN lft \ {s} ELSE lft
  BY DEF Dequeued
<1>3. /\ IsManifest(dec) /\ Present(f, dec)
      /\ \A x \in Series : Len(man[x].chunks) <= Len(dec[x].chunks)
      /\ \A x \in Series :
           Covers(ch, f, dec, x, IF s = x THEN QueuePairs(q) ELSE {})
      /\ \A p \in Pairs : u[p] # None =>
           \/ Stored(f, dec, p)
           \/ s = SeriesOf(p) /\ p \in QueuePairs(q)
           \/ s # SeriesOf(p) /\ SeriesOf(p) \in lft
  BY DEF FlushOK
<1>4. /\ s # None /\ s \in lft /\ q # <<>> /\ dec[s].chunks # <<>>
      /\ q \in Seq(RowsOf(ch, s))
      /\ \A j \in DOMAIN q : u[q[j][1]] # None
      /\ \A i, j \in DOMAIN q : i < j => q[i][2] <= q[j][2]
  BY DEF FlushOK
<1>5. PICK n \in Nat : n = Len(q) BY <1>4, LenProperties
<1>6. DOMAIN q = 1 .. n /\ k \in 1 .. n BY <1>1, <1>4, <1>5, LenProperties
<1>7. ASSUME NEW j \in 1 .. n
      PROVE  \E p \in Pairs : /\ SeriesOf(p) = s /\ ch.active[p] # {}
                              /\ q[j] = <<p, FirstTime(ch, p)>>
  BY <1>4, <1>5, ElementOfSeq DEF RowsOf
<1>8. /\ rest \in Seq(RowsOf(ch, s))
      /\ Len(rest) = n - k
      /\ \A i \in 1 .. n - k : rest[i] = q[k + i]
  <2> DEFINE S == RowsOf(ch, s)
  <2> HIDE DEF S
  <2>1. \A i \in k + 1 .. n : q[i] \in S
    BY <1>4, <1>5, <1>6, ElementOfSeq DEF S
  <2>2. k + 1 \in Int /\ n \in Int BY <1>6
  <2>3. /\ rest \in Seq(S)
        /\ Len(rest) = IF k + 1 <= n THEN n - (k + 1) + 1 ELSE 0
        /\ \A i \in 1 .. n - (k + 1) + 1 : rest[i] = q[(k + 1) + i - 1]
    BY <1>2, <1>5, <2>1, <2>2, SubSeqProperties
  <2>4. Len(rest) = n - k BY <1>6, <2>3
  <2>5. ASSUME NEW i \in 1 .. n - k PROVE rest[i] = q[k + i]
    <3>1. i \in 1 .. n - (k + 1) + 1 /\ (k + 1) + i - 1 = k + i BY <1>6
    <3>2. QED BY <2>3, <3>1
  <2>6. QED BY <2>3, <2>4, <2>5 DEF S
<1>9. DOMAIN rest = 1 .. n - k BY <1>8, LenProperties
<1>10. \A x \in Series : Len(dec[x].chunks) <= Len(next[x].chunks)
  BY <1>1, <1>3, SameLengths
<1>11. \A p \in Pairs : Stored(f, dec, p) => Stored(g, next, p)
  BY <1>1, <1>3, <1>10, StoredGrows
<1>12. Len(dec[s].chunks) \in Chunks(next, s)
  <2>1. PICK a \in Nat : a = Len(dec[s].chunks) BY <1>3, SameLengths
  <2>2. PICK b \in Nat : b = Len(next[s].chunks) BY <1>1, SameLengths
  <2>3. a # 0
    <3>1. dec[s].chunks \in Seq(Info) BY <1>3 DEF IsManifest
    <3>2. QED BY <1>4, <2>1, <3>1, EmptySeq
  <2>4. a <= b BY <1>1, <2>1, <2>2
  <2>5. a \in 1 .. b BY <2>3, <2>4
  <2>6. QED BY <2>1, <2>2, <2>5 DEF Chunks
<1>13. ASSUME NEW p \in QueuePairs(q)
       PROVE  Stored(g, next, p) \/ p \in QueuePairs(rest)
  <2>1. PICK j \in 1 .. n : p = q[j][1] BY <1>6, <1>13 DEF QueuePairs
  <2>2. CASE j <= k
    <3>1. j \in 1 .. k BY <2>2
    <3>2. p \in PairsIn(g[s][Len(dec[s].chunks)]) BY <1>1, <2>1, <3>1
    <3>3. SeriesOf(p) = s BY <1>7, <2>1
    <3>4. QED BY <1>12, <3>2, <3>3 DEF Stored
  <2>3. CASE ~(j <= k)
    <3>1. j - k \in 1 .. n - k /\ k + (j - k) = j BY <1>6, <2>3
    <3>2. rest[j - k] = q[j] BY <1>8, <3>1
    <3>3. QED BY <1>9, <2>1, <3>1, <3>2 DEF QueuePairs
  <2>4. QED BY <2>2, <2>3
<1>14. rest = <<>> => QueuePairs(rest) = {}
  <2>1. DOMAIN <<>> = {} OBVIOUS
  <2>2. QED BY <2>1 DEF QueuePairs
<1>15. \A x \in Series : Len(man[x].chunks) <= Len(next[x].chunks)
  <2> SUFFICES ASSUME NEW x \in Series
               PROVE  Len(man[x].chunks) <= Len(next[x].chunks)
    OBVIOUS
  <2>1. PICK a \in Nat : a = Len(man[x].chunks) BY SameLengths
  <2>2. PICK b \in Nat : b = Len(dec[x].chunks) BY <1>3, SameLengths
  <2>3. PICK c \in Nat : c = Len(next[x].chunks) BY <1>1, SameLengths
  <2>4. a <= b /\ b <= c BY <1>3, <1>10, <2>1, <2>2, <2>3
  <2>5. QED BY <2>1, <2>3, <2>4
<1>16. ASSUME NEW p \in Pairs, SeriesOf(p) = s, u[p] # None
       PROVE  Stored(g, next, p) \/ (op = s /\ p \in QueuePairs(rest))
  <2>1. Stored(f, dec, p) \/ p \in QueuePairs(q) BY <1>3, <1>16
  <2>2. QED BY <1>2, <1>11, <1>13, <1>14, <2>1
<1>17. ASSUME NEW x \in Series
       PROVE  Covers(ch, g, next, x,
                     IF op = x THEN QueuePairs(rest) ELSE {})
  <2>1. CASE x # s
    <3>1. Covers(ch, f, dec, x, {})
      <4>1. Covers(ch, f, dec, x, IF s = x THEN QueuePairs(q) ELSE {})
        BY <1>3
      <4>2. (IF s = x THEN QueuePairs(q) ELSE {}) = {} BY <2>1
      <4>3. QED BY <4>1, <4>2
    <3>2. next[x] = dec[x] BY <1>1, <2>1
    <3>3. QED BY <1>11, <3>1, <3>2 DEF Covers
  <2>2. CASE x = s
    <3> SUFFICES ASSUME NEW p \in Pairs, SeriesOf(p) = s,
                        ch.active[p] # {},
                        FirstTime(ch, p) <= next[s].last
                 PROVE  \/ Stored(g, next, p)
                        \/ op = s /\ p \in QueuePairs(rest)
      BY <2>2 DEF Covers
    <3>1. PICK r \in Pairs : /\ SeriesOf(r) = s
                             /\ q[k] = <<r, FirstTime(ch, r)>>
      BY <1>6, <1>7
    <3>2. u[r] # None
      <4>1. u[q[k][1]] # None BY <1>4, <1>6
      <4>2. QED BY <3>1, <4>1
    <3>3. FirstTime(ch, p) <= FirstTime(ch, r) BY <1>1, <3>1
    <3>4. u[p] # None BY <3>1, <3>2, <3>3 DEF Closed
    <3>5. QED BY <1>16, <3>4
  <2>3. QED BY <2>1, <2>2
<1>18. ASSUME NEW p \in Pairs, u[p] # None
       PROVE  \/ Stored(g, next, p)
              \/ op = SeriesOf(p) /\ p \in QueuePairs(rest)
              \/ op # SeriesOf(p) /\ SeriesOf(p) \in lft2
  <2>1. CASE SeriesOf(p) = s BY <1>16, <1>18, <2>1
  <2>2. CASE SeriesOf(p) # s
    <3>1. Stored(f, dec, p) \/ SeriesOf(p) \in lft BY <1>3, <1>18, <2>2
    <3>2. op # SeriesOf(p) BY <1>2, <2>2, SeriesOfPair
    <3>3. SeriesOf(p) \in lft => SeriesOf(p) \in lft2 BY <1>2, <2>2
    <3>4. QED BY <1>11, <3>1, <3>2, <3>3
  <2>3. QED BY <2>1, <2>2
<1>19. ASSUME op # None
       PROVE  /\ op \in lft2 /\ rest # <<>> /\ next[op].chunks # <<>>
              /\ rest \in Seq(RowsOf(ch, op))
              /\ \A j \in DOMAIN rest : /\ next[op].last <= rest[j][2]
                                        /\ u[rest[j][1]] # None
              /\ \A i, j \in DOMAIN rest : i < j => rest[i][2] <= rest[j][2]
  <2>1. op = s /\ rest # <<>> /\ lft2 = lft BY <1>2, <1>19
  <2>2. next[s].chunks # <<>>
    <3>1. PICK i \in Chunks(next, s) : TRUE BY <1>12
    <3>2. Len(<<>>) = 0 OBVIOUS
    <3>3. QED BY <3>1, <3>2 DEF Chunks
  <2>3. ASSUME NEW j \in DOMAIN rest
        PROVE  next[s].last <= rest[j][2] /\ u[rest[j][1]] # None
    <3>1. j \in 1 .. n - k BY <1>9
    <3>2. k + j \in 1 .. n /\ k < k + j BY <1>6, <3>1
    <3>3. rest[j] = q[k + j] BY <1>8, <3>1
    <3>4. q[k][2] <= q[k + j][2] BY <1>4, <1>6, <3>2
    <3>5. u[q[k + j][1]] # None BY <1>4, <1>6, <3>2
    <3>6. QED BY <1>1, <3>3, <3>4, <3>5
  <2>4. ASSUME NEW i \in DOMAIN rest, NEW j \in DOMAIN rest, i < j
        PROVE  rest[i][2] <= rest[j][2]
    <3>1. i \in 1 .. n - k /\ j \in 1 .. n - k BY <1>9
    <3>2. k + i \in 1 .. n /\ k + j \in 1 .. n /\ k + i < k + j
      BY <1>6, <2>4, <3>1
    <3>3. rest[i] = q[k + i] /\ rest[j] = q[k + j] BY <1>8, <3>1
    <3>4. QED BY <1>4, <1>6, <3>2, <3>3
  <2>5. QED BY <1>4, <1>8, <2>1, <2>2, <2>3, <2>4
<1>20. QED BY <1>1, <1>15, <1>17, <1>18, <1>19 DEF FlushOK

LEMMA ReplacedFile ==
  ASSUME NEW T, NEW f \in [Series -> [ChunkIds -> T]],
         NEW s \in Series, NEW i \in ChunkIds, NEW F \in T
  PROVE  /\ [f EXCEPT ![s][i] = F] \in [Series -> [ChunkIds -> T]]
         /\ \A x \in Series, j \in ChunkIds :
              [f EXCEPT ![s][i] = F][x][j] =
                IF x = s /\ j = i THEN F ELSE f[x][j]
OBVIOUS

WithRows(f, s, i, N) == [f EXCEPT ![s][i] = @ \cup N]

LEMMA WrittenFile ==
  ASSUME NEW ch \in Chains, NEW f, FilesOK(ch, f),
         NEW s \in Series, NEW i \in ChunkIds, f[s][i] # None,
         NEW N, IsFiniteSet(N), N \subseteq RowsOf(ch, s),
         NEW g, g = WithRows(f, s, i, N)
  PROVE  /\ FilesOK(ch, g) /\ Grows(f, g) /\ g[s][i] = f[s][i] \cup N
         /\ \A x \in Series, j \in ChunkIds :
              x # s \/ j # i => g[x][j] = f[x][j]
<1> DEFINE P == SUBSET (Pairs \X Nat)
           T == P \cup {None}
           F == f[s][i] \cup N
<1>1. f \in [Series -> [ChunkIds -> T]] BY DEF FilesOK
<1>2. IsFiniteSet(f[s][i]) /\ f[s][i] \subseteq RowsOf(ch, s) BY DEF FilesOK
<1>3. IsFiniteSet(F) /\ F \subseteq RowsOf(ch, s) BY <1>2, FS_Union
<1>4. RowsOf(ch, s) \subseteq Pairs \X Nat BY FirstActive DEF RowsOf
<1>5. F \in T BY <1>3, <1>4
<1>6. F # None
  <2> DEFINE All == {Timestamp[n][b] : n \in Networks, b \in Blocks}
  <2>1. RowsOf(ch, s) \subseteq Pairs \X All
    <3> SUFFICES ASSUME NEW p \in Pairs, ch.active[p] # {}
                 PROVE  FirstTime(ch, p) \in All
      BY DEF RowsOf
    <3>1. Min(ch.active[p]) \in Blocks BY FirstActive
    <3>2. NetworkOf[p[1]] \in Networks BY IndexerAssumption DEF Pairs
    <3>3. QED BY <3>1, <3>2 DEF FirstTime, TimeAt
  <2>2. F \in SUBSET (Pairs \X All) BY <1>3, <2>1
  <2>3. QED BY <2>2, SnapshotAssumption
<1>7. g = [f EXCEPT ![s][i] = F] BY <1>1 DEF WithRows
<1> HIDE DEF T, F
<1>8. /\ g \in [Series -> [ChunkIds -> T]]
      /\ \A x \in Series, j \in ChunkIds :
           g[x][j] = IF x = s /\ j = i THEN F ELSE f[x][j]
  <2>1. /\ [f EXCEPT ![s][i] = F] \in [Series -> [ChunkIds -> T]]
        /\ \A x \in Series, j \in ChunkIds :
             [f EXCEPT ![s][i] = F][x][j] =
               IF x = s /\ j = i THEN F ELSE f[x][j]
    BY <1>1, <1>5, ReplacedFile
  <2>2. QED BY <1>7, <2>1, Zenon
<1>9. \A x \in Series, j \in ChunkIds :
        g[x][j] = IF x = s /\ j = i THEN F ELSE f[x][j]
  BY <1>8
<1>10. Grows(f, g) BY <1>6, <1>9 DEF Grows, F
<1>11. \A x \in Series, j \in ChunkIds : g[x][j] # None =>
         IsFiniteSet(g[x][j]) /\ g[x][j] \subseteq RowsOf(ch, x)
  BY <1>3, <1>9 DEF FilesOK
<1>12. FilesOK(ch, g) BY <1>8, <1>11 DEF FilesOK, T
<1>13. QED BY <1>9, <1>10, <1>12 DEF F

LEMMA GrowsTrans ==
  ASSUME NEW f, NEW g, NEW h, Grows(f, g), Grows(g, h) PROVE Grows(f, h)
<1> SUFFICES ASSUME NEW s \in Series, NEW i \in ChunkIds, f[s][i] # None
             PROVE  h[s][i] # None /\ f[s][i] \subseteq h[s][i]
  BY DEF Grows
<1>1. g[s][i] # None /\ f[s][i] \subseteq g[s][i] BY DEF Grows
<1>2. h[s][i] # None /\ g[s][i] \subseteq h[s][i] BY <1>1 DEF Grows
<1>3. QED BY <1>1, <1>2

(* Rows of the queue at some of its places.                                *)
LEMMA PlacesFinite ==
  ASSUME NEW q, NEW n \in Nat, NEW J, J \subseteq 1 .. n
  PROVE  IsFiniteSet({q[j] : j \in J})
<1> DEFINE row == [j \in J |-> q[j]]
           R == {q[j] : j \in J}
<1>1. IsFiniteSet(J)
  <2>1. 0 \in Int /\ 1 \in Int /\ n \in Int OBVIOUS
  <2>2. IsFiniteSet(1 .. n) BY <2>1, FS_Interval
  <2>3. QED BY <2>2, FS_Subset
<1>2. row \in Surjection(J, R)
  <2>1. row \in [J -> R] OBVIOUS
  <2>2. \A r \in R : \E j \in J : row[j] = r OBVIOUS
  <2>3. QED BY <2>1, <2>2 DEF Surjection
<1> HIDE DEF row, R
<1>3. IsFiniteSet(R) BY <1>1, <1>2, FS_Surjection
<1>4. QED BY <1>3 DEF R

(* The manifest after a chunk was written; more says whether a new chunk   *)
(* was opened.                                                             *)
Recorded(chunks, i, done, more) ==
  IF more THEN Append([chunks EXCEPT ![i] = done],
                      [rows |-> 0, end |-> done.end])
          ELSE [chunks EXCEPT ![i] = done]

WithChunk(man, s, i, done, more) ==
  [man EXCEPT ![s] = [last   |-> done.end,
                      chunks |-> Recorded(man[s].chunks, i, done, more)]]

(* What is known of that manifest.                                         *)
ChunkRecorded(man, s, i, done, more, next) ==
  /\ IsManifest(next)
  /\ \A x \in Series : x # s => next[x] = man[x]
  /\ next[s].last = done.end
  /\ Len(next[s].chunks) = IF more THEN i + 1 ELSE i
  /\ \A j \in 1 .. i :
       next[s].chunks[j] = IF j = i THEN done ELSE man[s].chunks[j]
  /\ more => next[s].chunks[i + 1].rows = 0

LEMMA RecordedManifest ==
  ASSUME NEW man, IsManifest(man), NEW s \in Series,
         NEW i \in ChunkIds, i = Len(man[s].chunks),
         NEW done \in Info, man[s].last <= done.end,
         NEW more \in BOOLEAN, more => i < MaxChunks,
         NEW next, next = WithChunk(man, s, i, done, more)
  PROVE  ChunkRecorded(man, s, i, done, more, next)
<1> DEFINE chunks == man[s].chunks
           C == [chunks EXCEPT ![i] = done]
           D == Recorded(chunks, i, done, more)
<1>1. man \in [Series -> [last : Nat, chunks : Seq(Info)]]
  BY DEF IsManifest
<1>2. chunks \in Seq(Info) /\ man[s].last \in Nat BY <1>1
<1>3. i \in Nat /\ i \in 1 .. Len(chunks) /\ MaxChunks \in Nat
      /\ i <= MaxChunks
  BY SnapshotAssumption DEF ChunkIds
<1>4. PICK l \in Nat : l = man[s].last BY <1>2
<1>5. PICK e \in Nat : e = done.end BY DEF Info
<1>6. l <= e BY <1>4, <1>5
<1>7. PICK z \in Info :
        z = [rows |-> 0, end |-> e] /\ z.end = e /\ z.rows = 0
  <2>1. [rows |-> 0, end |-> e] \in Info BY DEF Info
  <2>2. QED BY <2>1
<1>8. ASSUME NEW j \in 1 .. i
      PROVE  chunks[j].end \in Nat /\ chunks[j].end <= l
  <2>1. chunks[j] \in Info BY <1>2, <1>8, ElementOfSeq
  <2>2. chunks[j].end <= man[s].last BY <1>8 DEF IsManifest
  <2>3. QED BY <1>4, <2>1, <2>2 DEF Info
<1>9. /\ C \in Seq(Info) /\ Len(C) = i
      /\ \A j \in 1 .. i : C[j] = IF j = i THEN done ELSE chunks[j]
  <2> HIDE DEF chunks
  <2>1. i = Len(chunks) BY DEF chunks
  <2>2. QED BY <1>2, <1>3, <2>1, ExceptSeq
<1>10. \A j \in 1 .. i : C[j].end <= e
  <2> SUFFICES ASSUME NEW j \in 1 .. i PROVE C[j].end <= e OBVIOUS
  <2>1. CASE j = i
    <3>1. C[j].end = e BY <1>5, <1>9, <2>1
    <3>2. QED BY <3>1
  <2>2. CASE j # i
    <3>1. C[j] = chunks[j] BY <1>9, <2>2
    <3>2. PICK a \in Nat : a = chunks[j].end BY <1>8
    <3>3. a <= l BY <1>8, <3>2
    <3>4. QED BY <1>6, <3>1, <3>2, <3>3
  <2>3. QED BY <2>1, <2>2
<1> HIDE DEF C
<1>11. /\ D \in Seq(Info) /\ Len(D) = (IF more THEN i + 1 ELSE i)
       /\ Len(D) <= MaxChunks
       /\ \A j \in 1 .. Len(D) : D[j].end <= e
       /\ \A j \in 1 .. i : D[j] = C[j]
       /\ more => D[i + 1].rows = 0
  <2>1. CASE ~more
    <3>1. D = C BY <2>1 DEF Recorded, C
    <3> HIDE DEF D
    <3>2. QED BY <1>3, <1>9, <1>10, <2>1, <3>1
  <2>2. CASE more
    <3>1. D = Append(C, z) BY <1>5, <1>7, <2>2 DEF Recorded, C
    <3> HIDE DEF D
    <3>2. /\ D \in Seq(Info) /\ Len(D) = i + 1
          /\ \A j \in 1 .. i : D[j] = C[j]
          /\ D[i + 1] = z
      BY <1>9, <3>1, AppendProperties
    <3>3. i + 1 <= MaxChunks BY <1>3, <2>2
    <3>4. ASSUME NEW j \in 1 .. i + 1 PROVE D[j].end <= e
      <4>1. CASE j = i + 1
        <5>1. D[j].end = e BY <1>7, <3>2, <4>1
        <5>2. QED BY <5>1
      <4>2. CASE j # i + 1
        <5>1. j \in 1 .. i BY <1>3, <4>2
        <5>2. QED BY <1>10, <3>2, <5>1
      <4>3. QED BY <4>1, <4>2
    <3>5. D[i + 1].rows = 0 BY <1>7, <3>2
    <3>6. QED BY <2>2, <3>2, <3>3, <3>4, <3>5
  <2>3. QED BY <2>1, <2>2
<1> HIDE DEF D
<1>12. next = [man EXCEPT ![s] = [last |-> e, chunks |-> D]]
  BY <1>5 DEF D, chunks, WithChunk
<1>13. next \in [Series -> [last : Nat, chunks : Seq(Info)]]
  BY <1>1, <1>11, <1>12
<1>14. \A x \in Series : x # s => next[x] = man[x] BY <1>1, <1>12
<1>15. next[s].last = e /\ next[s].chunks = D BY <1>1, <1>12
<1>16. IsManifest(next)
  <2>1. ASSUME NEW x \in Series
        PROVE  /\ Len(next[x].chunks) <= MaxChunks
               /\ \A j \in 1 .. Len(next[x].chunks) :
                    next[x].chunks[j].end <= next[x].last
    <3>1. CASE x = s BY <1>11, <1>15, <3>1
    <3>2. CASE x # s BY <1>14, <3>2 DEF IsManifest
    <3>3. QED BY <3>1, <3>2
  <2>2. QED BY <1>13, <2>1 DEF IsManifest
<1>17. \A j \in 1 .. i :
         next[s].chunks[j] = IF j = i THEN done ELSE man[s].chunks[j]
  BY <1>9, <1>11, <1>15
<1>18. more => next[s].chunks[i + 1].rows = 0 BY <1>11, <1>15
<1>19. QED
  BY <1>5, <1>11, <1>14, <1>15, <1>16, <1>17, <1>18 DEF ChunkRecorded

(* What is known when a chunk is written.                                  *)
LEMMA OpenChunk ==
  ASSUME SnapInv, phase = "flush", open # None
  PROVE  /\ open \in Series /\ IsManifest(declared)
         /\ Len(declared[open].chunks) \in ChunkIds
         /\ Len(declared[open].chunks) \in Chunks(declared, open)
         /\ declared[open].chunks[Len(declared[open].chunks)] \in Info
         /\ files[open][Len(declared[open].chunks)] # None
         /\ queue \in Seq(RowsOf(chain, open)) /\ queue # <<>>
         /\ Len(queue) \in Nat /\ Len(queue) # 0
         /\ \A j \in 1 .. Len(queue) :
              /\ queue[j] \in RowsOf(chain, open)
              /\ queue[j][2] \in Nat /\ declared[open].last <= queue[j][2]
<1>1. PICK s \in Series : s = open BY DEF SnapInv, Process, Shape
<1>2. FlushOK(chain, files, LoadedManifest, declared, left, s, queue, users)
  BY <1>1 DEF SnapInv, Process, Flushing
<1>3. /\ IsManifest(declared) /\ Present(files, declared)
      /\ declared[s].chunks # <<>>
      /\ queue \in Seq(RowsOf(chain, s)) /\ queue # <<>>
      /\ \A j \in DOMAIN queue : declared[s].last <= queue[j][2]
  BY <1>1, <1>2 DEF FlushOK
<1>4. declared[s].chunks \in Seq(Info) BY <1>3 DEF IsManifest
<1>5. PICK i \in Nat : i = Len(declared[s].chunks) BY <1>4
<1>6. i # 0 BY <1>3, <1>4, <1>5, EmptySeq
<1>7. i \in 1 .. i BY <1>6
<1>8. i \in Chunks(declared, s) BY <1>5, <1>7 DEF Chunks
<1>9. i \in ChunkIds /\ declared[s].chunks[i] \in Info /\ files[s][i] # None
  BY <1>3, <1>8, ChunkIdOf DEF Present
<1>10. Len(queue) \in Nat /\ DOMAIN queue = 1 .. Len(queue)
  BY <1>3, LenProperties
<1>11. Len(queue) # 0 BY <1>3, EmptySeq
<1>12. ASSUME NEW j \in 1 .. Len(queue)
       PROVE  queue[j] \in RowsOf(chain, s) /\ queue[j][2] \in Nat
  <2>1. queue[j] \in RowsOf(chain, s) BY <1>3, <1>12, ElementOfSeq
  <2>2. chain \in Chains BY DEF SnapInv, Tables, TypeOK
  <2>3. QED BY <2>1, <2>2, FirstActive DEF RowsOf
<1>13. QED BY <1>1, <1>3, <1>5, <1>8, <1>9, <1>10, <1>11, <1>12

(* A chunk is written: k rows of the queue are done, N of them are new to  *)
(* the file.                                                               *)
ChunkWritten(k, N, done, more) ==
  LET s == open
      i == Len(declared[s].chunks) IN
  /\ k \in 1 .. Len(queue) /\ done \in Info /\ more \in BOOLEAN
  /\ N = {queue[j] : j \in {x \in 1 .. k :
                              queue[x][1] \notin PairsIn(files[s][i])}}
  /\ done.rows = declared[s].chunks[i].rows + Cardinality(N)
  /\ done.end = queue[k][2]
  /\ more => i < MaxChunks
  /\ declared' = WithChunk(declared, s, i, done, more)
  /\ files' = IF more THEN [WithRows(files, s, i, N)
                              EXCEPT ![s][i + 1] = IF @ = None THEN {} ELSE @]
                      ELSE WithRows(files, s, i, N)
  /\ queue' = SubSeq(queue, k + 1, Len(queue))
  /\ open' = IF queue' = <<>> THEN None ELSE s
  /\ left' = IF queue' = <<>> THEN left \ {s} ELSE left

LEMMA FlushChunkWrites ==
  ASSUME SnapInv, FlushChunk
  PROVE  \E k, N, done, more : ChunkWritten(k, N, done, more)
<1> DEFINE s     == open
           i     == Len(declared[s].chunks)
           info  == declared[s].chunks[i]
           file  == files[s][i]
           new(k) == {queue[j] : j \in {x \in 1 .. k :
                                          queue[x][1] \notin PairsIn(file)}}
           full  == {k \in 1 .. Len(queue) :
                       info.rows + Cardinality(new(k)) >= ChunkRows}
           k     == IF full = {} THEN Len(queue) ELSE Min(full)
           last  == queue[k][2]
           done  == [rows |-> info.rows + Cardinality(new(k)), end |-> last]
           rest  == SubSeq(queue, k + 1, Len(queue))
           chunks == [declared[s].chunks EXCEPT ![i] = done]
           written == [files EXCEPT ![s][i] = @ \cup new(k)]
<1>1. /\ phase = "flush" /\ open # None
      /\ full # {} => i < MaxChunks
      /\ declared' = [declared EXCEPT ![s] =
           [last   |-> last,
            chunks |-> IF full = {} THEN chunks
                       ELSE Append(chunks, [rows |-> 0, end |-> last])]]
      /\ files' = IF full = {} THEN written
                  ELSE [written EXCEPT ![s][i + 1] =
                          IF @ = None THEN {} ELSE @]
      /\ queue' = rest
      /\ open' = IF rest = <<>> THEN None ELSE s
      /\ left' = IF rest = <<>> THEN left \ {s} ELSE left
  BY DEF FlushChunk
<1>2. /\ info \in Info /\ Len(queue) \in Nat /\ Len(queue) # 0
      /\ \A j \in 1 .. Len(queue) : queue[j][2] \in Nat
  BY <1>1, OpenChunk
<1>3. k \in 1 .. Len(queue)
  <2>1. CASE full = {} BY <1>2, <2>1, SMTT(30)
  <2>2. CASE full # {}
    <3> HIDE DEF new, info
    <3>1. full \in SUBSET Nat /\ full \subseteq 1 .. Len(queue) BY <1>2
    <3> HIDE DEF full
    <3>2. Min(full) \in full BY <2>2, <3>1, MinLemma
    <3>3. QED BY <2>2, <3>1, <3>2
  <2>3. QED BY <2>1, <2>2
<1> HIDE DEF full
<1>4. done \in Info
  <2> HIDE DEF k
  <2>1. PICK n \in Nat : n = k BY <1>2, <1>3
  <2>2. IsFiniteSet(new(k))
    <3> DEFINE J == {x \in 1 .. n : queue[x][1] \notin PairsIn(file)}
    <3>1. J \subseteq 1 .. n OBVIOUS
    <3> HIDE DEF J
    <3>2. IsFiniteSet({queue[j] : j \in J}) BY <3>1, PlacesFinite
    <3>3. QED BY <2>1, <3>2 DEF J
  <2>3. Cardinality(new(k)) \in Nat BY <2>2, FS_CardinalityType
  <2> HIDE DEF new
  <2>4. info.rows \in Nat BY <1>2 DEF Info
  <2>5. last \in Nat BY <1>2, <1>3
  <2> HIDE DEF info, last
  <2>6. info.rows + Cardinality(new(k)) \in Nat BY <2>3, <2>4
  <2>7. QED BY <2>5, <2>6 DEF Info
<1>5. done.end = last /\ done.rows = info.rows + Cardinality(new(k))
  OBVIOUS
<1> DEFINE more == full # {}
<1> HIDE DEF done, k
<1>6. Recorded(declared[s].chunks, i, done, more)
        = IF full = {} THEN chunks
          ELSE Append(chunks, [rows |-> 0, end |-> last])
  BY <1>5 DEF Recorded
<1>7. ChunkWritten(k, new(k), done, more)
  BY <1>1, <1>3, <1>4, <1>5, <1>6 DEF ChunkWritten, WithChunk, WithRows
<1>8. QED BY <1>7

LEMMA FlushChunkKeeps ==
  ASSUME SnapInv, FlushChunk PROVE SnapInv' /\ Grows(files, files')
<1>1. /\ phase = "flush" /\ open # None
      /\ UNCHANGED <<vars, runtime, manifest, meta, phase, pending>>
  BY DEF FlushChunk
<1>2. PICK s \in Series, i \in ChunkIds :
        /\ s = open /\ i = Len(declared[s].chunks)
        /\ i \in Chunks(declared, s)
        /\ declared[s].chunks[i] \in Info /\ files[s][i] # None
  BY <1>1, OpenChunk
<1>3. /\ queue \in Seq(RowsOf(chain, s)) /\ Len(queue) \in Nat
      /\ IsManifest(declared)
      /\ \A j \in 1 .. Len(queue) :
           /\ queue[j] \in RowsOf(chain, s) /\ queue[j][2] \in Nat
           /\ declared[s].last <= queue[j][2]
  BY <1>1, <1>2, OpenChunk
<1>4. /\ chain \in Chains /\ Tables /\ None \notin Series
      /\ FilesOK(chain, files) /\ IsManifest(LoadedManifest)
      /\ left \subseteq Series /\ Closed(chain, users)
      /\ FlushOK(chain, files, LoadedManifest, declared, left, s, queue,
                 users)
  BY <1>1, <1>2, SnapshotAssumption
     DEF SnapInv, Tables, TypeOK, Disk, DiskOK, Process, Shape, Working,
         Flushing
<1>5. Present(files, declared) BY <1>4 DEF FlushOK
<1>6. PICK k, N, done, more : ChunkWritten(k, N, done, more)
  BY FlushChunkWrites
<1> DEFINE J == {x \in 1 .. k : queue[x][1] \notin PairsIn(files[s][i])}
           next == declared'
           g == files'
           w == WithRows(files, s, i, N)
<1>7. /\ k \in 1 .. Len(queue) /\ done \in Info /\ more \in BOOLEAN
      /\ N = {queue[j] : j \in J}
      /\ done.end = queue[k][2]
      /\ more => i < MaxChunks
      /\ next = WithChunk(declared, s, i, done, more)
      /\ g = IF more THEN [w EXCEPT ![s][i + 1] = IF @ = None THEN {} ELSE @]
                     ELSE w
      /\ queue' = SubSeq(queue, k + 1, Len(queue))
      /\ open' = IF queue' = <<>> THEN None ELSE s
      /\ left' = IF queue' = <<>> THEN left \ {s} ELSE left
  BY <1>2, <1>6 DEF ChunkWritten
<1> HIDE DEF next, g
<1>8. IsFiniteSet(N) /\ N \subseteq RowsOf(chain, s)
  <2>1. PICK n \in Nat : n = k BY <1>3, <1>7
  <2>2. J \subseteq 1 .. n BY <2>1
  <2>3. J \subseteq 1 .. Len(queue) BY <1>3, <1>7
  <2> HIDE DEF J
  <2>4. IsFiniteSet(N) BY <1>7, <2>2, PlacesFinite
  <2>5. N \subseteq RowsOf(chain, s) BY <1>3, <1>7, <2>3
  <2>6. QED BY <2>4, <2>5
<1>9. /\ FilesOK(chain, w) /\ Grows(files, w)
      /\ w[s][i] = files[s][i] \cup N
  BY <1>2, <1>4, <1>8, WrittenFile
<1> HIDE DEF w
<1>10. i \in Nat /\ (more => i + 1 \in ChunkIds)
  <2>1. i \in Nat /\ MaxChunks \in Nat
    BY SnapshotAssumption DEF ChunkIds
  <2>2. more => i < MaxChunks BY <1>7
  <2>3. QED BY <2>1, <2>2 DEF ChunkIds
<1>11. /\ FilesOK(chain, g) /\ Grows(w, g)
       /\ more => g[s][i + 1] # None
  <2>1. CASE ~more BY <1>7, <1>9, <2>1 DEF Grows
  <2>2. CASE more
    <3>1. g = [w EXCEPT ![s][i + 1] = IF @ = None THEN {} ELSE @]
      BY <1>7, <2>2
    <3>2. i + 1 \in ChunkIds BY <1>10, <2>2
    <3>3. QED BY <1>9, <3>1, <3>2, OpenedFile
  <2>3. QED BY <1>7, <2>1, <2>2
<1>12. Grows(files, g) BY <1>9, <1>11, GrowsTrans
<1>13. /\ IsManifest(next)
       /\ \A x \in Series : x # s => next[x] = declared[x]
       /\ next[s].last = done.end
       /\ Len(next[s].chunks) = IF more THEN i + 1 ELSE i
  <2>1. declared[s].last <= done.end BY <1>3, <1>7
  <2>2. ChunkRecorded(declared, s, i, done, more, next)
    BY <1>2, <1>3, <1>7, <2>1, RecordedManifest
  <2>3. QED BY <2>2 DEF ChunkRecorded
<1>14. Len(declared[s].chunks) <= Len(next[s].chunks)
  <2>1. i <= i /\ i <= i + 1 BY <1>10
  <2>2. QED BY <1>2, <1>13, <2>1
<1>15. Present(g, next)
  <2> SUFFICES ASSUME NEW x \in Series, NEW j \in Chunks(next, x)
               PROVE  g[x][j] # None
    BY DEF Present
  <2>1. ASSUME j \in Chunks(declared, x) PROVE g[x][j] # None
    BY <1>3, <1>5, <1>12, <2>1, ChunkIdOf DEF Present, Grows
  <2>2. CASE x # s BY <1>13, <2>1, <2>2 DEF Chunks
  <2>3. CASE x = s
    <3>1. CASE j \in 1 .. i BY <1>2, <2>1, <2>3, <3>1 DEF Chunks
    <3>2. CASE j \notin 1 .. i
      <4>1. more /\ j = i + 1
        <5>1. j \in 1 .. IF more THEN i + 1 ELSE i
          BY <1>13, <2>3 DEF Chunks
        <5>2. more BY <3>2, <5>1
        <5>3. j \in 1 .. i + 1 BY <5>1, <5>2
        <5>4. j = i + 1 BY <1>10, <3>2, <5>3
        <5>5. QED BY <5>2, <5>4
      <4>2. QED BY <1>11, <2>3, <4>1
    <3>3. QED BY <3>1, <3>2
  <2>4. QED BY <2>2, <2>3
<1>16. \A j \in 1 .. k : queue[j][1] \in PairsIn(g[s][Len(declared[s].chunks)])
  <2> SUFFICES ASSUME NEW j \in 1 .. k PROVE queue[j][1] \in PairsIn(g[s][i])
    BY <1>2
  <2>1. w[s][i] \subseteq g[s][i]
    <3>1. w[s][i] # None BY <1>2, <1>9 DEF Grows
    <3>2. QED BY <1>2, <1>11, <3>1 DEF Grows
  <2>2. CASE queue[j][1] \in PairsIn(files[s][i])
    BY <1>9, <2>1, <2>2 DEF PairsIn
  <2>3. CASE queue[j][1] \notin PairsIn(files[s][i])
    <3>1. queue[j] \in N BY <1>7, <2>3
    <3>2. queue[j] \in g[s][i] BY <1>9, <2>1, <3>1
    <3>3. QED BY <3>2 DEF PairsIn
  <2>4. QED BY <2>2, <2>3
<1>17. \A p \in Pairs : users[p] # None =>
         chain.active[p] # {} /\ users[p] = FirstTime(chain, p)
  BY <1>4, RowTime DEF Tables
<1>18. next[s].last = queue[k][2] BY <1>7, <1>13
<1>19. FlushOK(chain, g, LoadedManifest, next, left', open', queue', users)
  <2>1. RowsWritten(files, declared, s, queue, k, g, next)
    BY <1>7, <1>12, <1>13, <1>14, <1>15, <1>16, <1>18 DEF RowsWritten
  <2>2. Dequeued(s, queue, k, left, queue', open', left')
    BY <1>7 DEF Dequeued
  <2>3. QED BY <1>4, <1>17, <2>1, <2>2, ChunkFlushed
<1>20. left' \subseteq Series /\ open' \in Series \cup {None}
  BY <1>4, <1>7
<1>21. QED
  BY <1>1, <1>11, <1>12, <1>19, <1>20, FlushStepKeeps DEF g, next
-----------------------------------------------------------------------------
(* Publishing.                                                             *)

LEMMA SaveManifestKeeps ==
  ASSUME SnapInv, SaveManifest
  PROVE  /\ SnapInv' /\ LoadedManifest' = declared
         /\ \A p \in Pairs : Stored(files, LoadedManifest, p)
                             => Stored(files, declared, p)
<1>1. /\ phase = "flush" /\ left = {} /\ manifest' = declared
      /\ phase' = "sync"
      /\ UNCHANGED <<vars, runtime, files, meta, declared, pending, left,
                     open, queue>>
  BY DEF SaveManifest
<1>2. UNCHANGED <<chain, users, markets, cursor, pc>>
  BY <1>1 DEF vars, db, local
<1>3. /\ Inductive /\ Closed(chain, users) /\ runtime
      /\ Present(files, LoadedManifest) /\ open = None
      /\ DiskOK(chain, files, LoadedManifest, meta)
      /\ FlushOK(chain, files, LoadedManifest, declared, {}, open, queue,
                 users)
  <2>1. FlushOK(chain, files, LoadedManifest, declared, {}, open, queue,
                users)
    BY <1>1 DEF SnapInv, Process, Flushing
  <2>2. open = None BY <2>1 DEF FlushOK
  <2>3. QED BY <1>1, <2>1, <2>2 DEF SnapInv, Process, Working, Started, Disk
<1>4. None \notin Series BY SnapshotAssumption
<1>5. /\ IsManifest(declared) /\ Present(files, declared)
      /\ \A s \in Series :
           Len(LoadedManifest[s].chunks) <= Len(declared[s].chunks)
  BY <1>3 DEF FlushOK
<1>6. \A s \in Series : Covers(chain, files, declared, s, {})
  <2>1. \A s \in Series :
          Covers(chain, files, declared, s,
                 IF open = s THEN QueuePairs(queue) ELSE {})
    BY <1>3 DEF FlushOK
  <2>2. \A s \in Series : (IF open = s THEN QueuePairs(queue) ELSE {}) = {}
    BY <1>3, <1>4
  <2>3. QED BY <2>1, <2>2
<1>7. \A p \in Pairs : users[p] # None => Stored(files, declared, p)
  BY <1>3, <1>4, SeriesOfPair DEF FlushOK
<1>8. LoadedManifest' = declared
  <2>1. declared \in [Series -> [last : Nat, chunks : Seq(Info)]]
    BY <1>5 DEF IsManifest
  <2>2. declared # None BY <2>1, SnapshotAssumption DEF Info
  <2>3. QED BY <1>1, <2>2 DEF LoadedManifest
<1>9. \A p \in Pairs : Stored(files, LoadedManifest, p)
                         => Stored(files, declared, p)
  <2>1. Grows(files, files) BY DEF Grows
  <2>2. IsManifest(LoadedManifest) BY <1>3 DEF DiskOK
  <2>3. QED BY <1>3, <1>5, <2>1, <2>2, StoredGrows
<1>10. DiskOK(chain, files, declared, meta)
  <2>1. MetaOK(chain, files, declared, meta)
    BY <1>3, <1>9 DEF DiskOK, MetaOK
  <2>2. QED BY <1>3, <1>5, <1>6, <2>1 DEF DiskOK
<1>11. Disk' BY <1>1, <1>2, <1>8, <1>10 DEF Disk
<1>12. Tables' BY <1>1, TablesFrame DEF SnapInv
<1>13. Rely' BY <1>2, <1>3, InductiveBefore DEF Rely, Reliable
<1>14. Fresh' BY <1>1, <1>3 DEF SnapInv, Fresh
<1>15. Shape' BY <1>1, <1>2, <1>3 DEF SnapInv, Process, Shape, Idle, Phases
<1>16. Started' BY <1>1, <1>3, <1>5, <1>8 DEF Started
<1>17. Loading' /\ Importing' /\ Flushing'
  BY <1>1 DEF Loading, Importing, Flushing
<1>18. Working' BY <1>1, <1>2, <1>3, InductiveFrame DEF Working
<1>19. Syncing' BY <1>1, <1>2, <1>7, <1>8 DEF Syncing
<1>20. QED
  BY <1>8, <1>9, <1>11, <1>12, <1>13, <1>14, <1>15, <1>16, <1>17, <1>18,
     <1>19
     DEF SnapInv, Process

LEMMA EmptyMetaOK ==
  ASSUME NEW ch \in Chains, NEW f, NEW man
  PROVE  MetaOK(ch, f, man, EmptyMeta)
<1>1. /\ EmptyMeta \in MetaType
      /\ \A m \in Markets : EmptyMeta.markets[m] = None
      /\ \A n \in Networks : EmptyMeta.cursor[n] = None
  BY DEF EmptyMeta, MetaType
<1>2. MarketsBefore(ch, EmptyMeta.markets, EmptyMeta.cursor)
  BY <1>1, NoCursors DEF MarketsBefore
<1>3. MarketsExactIn(ch, EmptyMeta.markets) BY <1>1 DEF MarketsExactIn
<1>4. QED BY <1>1, <1>2, <1>3, NoCursors DEF MetaOK

LEMMA EnsureMetaKeeps ==
  ASSUME SnapInv, EnsureMeta PROVE SnapInv'
<1>1. /\ phase = "sync" /\ meta' = EmptyMeta
      /\ UNCHANGED <<vars, runtime, files, manifest, process>>
  BY DEF EnsureMeta
<1>2. /\ UNCHANGED <<chain, users, markets, cursor, pc, phase, declared,
                     pending, left, open, queue>>
      /\ LoadedManifest' = LoadedManifest
  BY <1>1 DEF vars, db, local, process, LoadedManifest
<1>3. Tables' BY <1>1, TablesFrame DEF SnapInv
<1>4. Rely' BY <1>1, <1>2, RelyFrame DEF SnapInv
<1>5. Disk'
  <2>1. chain \in Chains BY DEF SnapInv, Tables, TypeOK
  <2>2. MetaOK(chain, files, LoadedManifest, EmptyMeta) BY <2>1, EmptyMetaOK
  <2>3. DiskOK(chain, files, LoadedManifest, EmptyMeta)
    BY <2>2 DEF SnapInv, Disk, DiskOK
  <2>4. QED BY <1>1, <1>2, <2>3 DEF Disk
<1>6. Fresh' BY <1>1, <1>2 DEF SnapInv, Process, Started, Fresh
<1>7. Shape' BY <1>1, <1>2 DEF SnapInv, Process, Shape, Idle
<1>8. Started' BY <1>1, <1>2 DEF SnapInv, Process, Started
<1>9. Loading' /\ Importing' /\ Flushing'
  BY <1>1, <1>2 DEF Loading, Importing, Flushing
<1>10. Working'
  BY <1>1, <1>2, InductiveFrame DEF SnapInv, Process, Working
<1>11. Syncing' BY <1>1, <1>2 DEF SnapInv, Process, Syncing
<1>12. QED
  BY <1>3, <1>4, <1>5, <1>6, <1>7, <1>8, <1>9, <1>10, <1>11
     DEF SnapInv, Process

LEMMA SyncMetaKeeps ==
  ASSUME SnapInv, SyncMeta PROVE SnapInv'
<1>1. /\ phase = "sync" /\ meta' = [markets |-> markets, cursor |-> cursor]
      /\ ProcessEnds /\ UNCHANGED <<vars, runtime, files, manifest>>
  BY DEF SyncMeta
<1>2. /\ UNCHANGED <<chain, users, markets, cursor, pc>>
      /\ LoadedManifest' = LoadedManifest
  BY <1>1 DEF vars, db, local, LoadedManifest
<1>3. /\ Inductive /\ Idle /\ Tables /\ TypeOK /\ FirstSeenExact
      /\ \A p \in Pairs : users[p] # None => Stored(files, LoadedManifest, p)
  BY <1>1 DEF SnapInv, Process, Shape, Working, Syncing, Tables
<1>4. Tables' BY <1>1, TablesFrame DEF SnapInv
<1>5. Rely' BY <1>1, <1>2, RelyFrame DEF SnapInv
<1>6. Idle' BY <1>2, <1>3 DEF Idle
<1>7. Fresh'
  BY <1>1, <1>2 DEF SnapInv, Process, Started, Fresh, ProcessEnds
<1>8. Disk'
  <2> DEFINE mt == [markets |-> markets, cursor |-> cursor]
  <2>1. mt \in MetaType BY <1>3 DEF TypeOK, MetaType
  <2>2. mt.markets = markets /\ mt.cursor = cursor OBVIOUS
  <2> HIDE DEF mt
  <2>3. MarketsExactIn(chain, mt.markets)
    BY <1>3, <2>2 DEF FirstSeenExact, MarketsExactIn
  <2>4. /\ MarketsBefore(chain, mt.markets, mt.cursor)
        /\ UsersBefore(chain, users, mt.cursor)
    BY <1>3, <2>2, InductiveBefore
  <2>5. MetaOK(chain, files, LoadedManifest, mt)
    BY <1>3, <2>1, <2>3, <2>4 DEF MetaOK, UsersBefore
  <2>6. DiskOK(chain, files, LoadedManifest, mt)
    BY <2>5 DEF SnapInv, Disk, DiskOK
  <2>7. QED BY <1>1, <1>2, <2>6 DEF Disk, mt
<1>9. QED BY <1>1, <1>4, <1>5, <1>6, <1>7, <1>8, DownKeeps

-----------------------------------------------------------------------------
(* The environment.                                                        *)

LEMMA ProcessDiesKeeps ==
  ASSUME SnapInv, ProcessDies PROVE SnapInv'
<1>1. ProcessEnds /\ RunVariablesReset /\ UNCHANGED <<chain, db, disk>>
  BY DEF ProcessDies
<1>2. UNCHANGED <<users, markets, cursor, runtime, files, manifest, meta>>
  BY <1>1 DEF db, disk
<1>3. Tables'
  <2>1. TypeOK' BY <1>1, ResetType DEF SnapInv, Tables
  <2>2. RowsExact' /\ FirstSeenExact'
    BY <1>1, <1>2 DEF SnapInv, Tables, RowsExact, FirstSeenExact, FirstBlock
  <2>3. MarketsBefore(chain, markets, cursor)'
    BY <1>1, <1>2 DEF SnapInv, Tables
  <2>4. QED BY <2>1, <2>2, <2>3 DEF Tables
<1>4. Rely' /\ Disk' BY <1>1, <1>2, RelyFrame, DiskFrame DEF SnapInv
<1>5. Fresh' BY <1>1, <1>2 DEF SnapInv, Fresh, EmptyDb, ProcessEnds
<1>6. Idle' BY <1>1 DEF RunVariablesReset, Idle
<1>7. QED BY <1>1, <1>3, <1>4, <1>5, <1>6, DownKeeps

(* Steps taken while no process runs.                                      *)
LEMMA OutsideKeeps ==
  ASSUME SnapInv, phase = "down", UNCHANGED <<process, pc>>,
         Tables', Fresh', Rely', Disk'
  PROVE  SnapInv'
<1>1. UNCHANGED <<phase, declared, pending, left, open, queue, pc>>
  BY DEF process
<1>2. Shape' BY <1>1 DEF SnapInv, Process, Shape, Idle
<1>3. /\ Started' /\ Loading' /\ Importing' /\ Working' /\ Flushing'
      /\ Syncing'
  BY <1>1 DEF Started, Loading, Importing, Working, Flushing, Syncing
<1>4. QED BY <1>2, <1>3 DEF SnapInv, Process

LEMMA LoseRuntimeKeeps ==
  ASSUME SnapInv, LoseRuntime PROVE SnapInv'
<1>1. /\ phase = "down" /\ runtime' = FALSE /\ EmptyDb'
      /\ UNCHANGED <<chain, local, files, manifest, meta, process>>
  BY DEF LoseRuntime, EmptyDb
<1>2. UNCHANGED <<pc, finalizedTo, from, to, known, todo>>
  BY <1>1 DEF local
<1>3. /\ \A p \in Pairs : users'[p] = None
      /\ \A n \in Networks : cursor'[n] = None
      /\ \A ch \in Chains : MarketsBefore(ch, markets', cursor')
      /\ RowsExact' /\ FirstSeenExact'
  <2>1. (/\ \A p \in Pairs : users[p] = None
         /\ \A n \in Networks : cursor[n] = None
         /\ \A ch \in Chains : MarketsBefore(ch, markets, cursor)
         /\ RowsExact /\ FirstSeenExact)'
    BY <1>1, EmptyRuntime, PTL
  <2>2. QED BY <2>1
<1>4. TypeOK /\ chain \in Chains BY DEF SnapInv, Tables, TypeOK
<1>5. TypeOK' BY <1>1, <1>2, <1>4 DEF TypeOK, EmptyDb
<1>6. Tables' BY <1>1, <1>3, <1>4, <1>5 DEF Tables
<1>7. Rely' BY <1>1, <1>3, <1>4, EmptyReliable DEF Rely
<1>8. Disk' BY <1>1, DiskFrame DEF SnapInv
<1>9. Fresh' BY <1>1 DEF Fresh
<1>10. QED BY <1>1, <1>2, <1>6, <1>7, <1>8, <1>9, OutsideKeeps

WithoutChunk(f, s, i) == [f EXCEPT ![s][i] = None]

(* A chunk file is lost: declared, it is missed; not declared, it does not *)
(* matter.                                                                 *)
LEMMA LostChunk ==
  ASSUME NEW ch, NEW f, FilesOK(ch, f), NEW man,
         NEW s \in Series, NEW i \in ChunkIds,
         NEW g, g = WithoutChunk(f, s, i), IsManifest(man)
  PROVE  /\ FilesOK(ch, g)
         /\ Present(g, man) =>
              /\ Present(f, man)
              /\ \A p \in Pairs : Stored(g, man, p) <=> Stored(f, man, p)
         /\ Valid(g, man) => Valid(f, man) /\ Present(g, man)
<1> DEFINE T == (SUBSET (Pairs \X Nat)) \cup {None}
<1>1. f \in [Series -> [ChunkIds -> T]] BY DEF FilesOK
<1>2. None \in T OBVIOUS
<1> HIDE DEF T
<1>3. /\ g \in [Series -> [ChunkIds -> T]]
      /\ \A x \in Series, j \in ChunkIds :
           g[x][j] = IF x = s /\ j = i THEN None ELSE f[x][j]
  BY <1>1, <1>2, ReplacedFile DEF WithoutChunk
<1>4. FilesOK(ch, g) BY <1>3 DEF FilesOK, T
<1>5. ASSUME Present(g, man), NEW x \in Series, NEW j \in Chunks(man, x)
      PROVE  g[x][j] = f[x][j]
  <2>1. j \in ChunkIds /\ g[x][j] # None BY <1>5, ChunkIdOf DEF Present
  <2>2. QED BY <1>3, <2>1
<1>6. Present(g, man) => Present(f, man) BY <1>5 DEF Present
<1>7. ASSUME Present(g, man), NEW p \in Pairs
      PROVE  Stored(g, man, p) <=> Stored(f, man, p)
  BY <1>5, <1>7, SeriesOfPair DEF Stored
<1>8. Valid(g, man) => Present(g, man) BY DEF Valid, Present
<1>9. Valid(g, man) => Valid(f, man) BY <1>5, <1>8 DEF Valid
<1>10. QED BY <1>4, <1>6, <1>7, <1>8, <1>9

LEMMA LosePartKeeps ==
  ASSUME "manifest" \notin Losable, SnapInv,
         NEW part \in Losable, NEW c \in Series \X ChunkIds,
         LosePart(part, c)
  PROVE  SnapInv'
<1>1. /\ phase = "down" /\ part \in {"meta", "chunk"}
      /\ UNCHANGED <<vars, runtime, manifest, process>>
      /\ part = "meta" => meta' = None /\ UNCHANGED files
      /\ part = "chunk" => /\ files' = [files EXCEPT ![c[1]][c[2]] = None]
                           /\ UNCHANGED meta
  BY SnapshotAssumption DEF LosePart
<1>2. /\ UNCHANGED <<chain, users, markets, cursor, pc>>
      /\ LoadedManifest' = LoadedManifest
  BY <1>1 DEF vars, db, local, LoadedManifest
<1>3. /\ FilesOK(chain, files) /\ IsManifest(LoadedManifest)
      /\ MetaOK(chain, files, LoadedManifest, meta)
      /\ Present(files, LoadedManifest) =>
           \A s \in Series : Covers(chain, files, LoadedManifest, s, {})
  BY DEF SnapInv, Disk, DiskOK
<1>4. Tables' BY <1>1, TablesFrame DEF SnapInv
<1>5. Fresh'
  BY <1>1, <1>2 DEF SnapInv, Fresh, EmptyDb, process
<1>6. CASE part = "meta"
  <2>1. Rely' BY <1>1, <1>2, <1>6, RelyFrame DEF SnapInv
  <2>2. Disk' BY <1>1, <1>2, <1>3, <1>6 DEF Disk, DiskOK, MetaOK
  <2>3. QED BY <1>1, <1>2, <1>4, <1>5, <2>1, <2>2, OutsideKeeps
<1>7. CASE part = "chunk"
  <2>1. /\ FilesOK(chain, files')
        /\ Present(files', LoadedManifest) =>
             /\ Present(files, LoadedManifest)
             /\ \A p \in Pairs : Stored(files', LoadedManifest, p)
                                  <=> Stored(files, LoadedManifest, p)
        /\ Valid(files', LoadedManifest) =>
             Valid(files, LoadedManifest) /\ Present(files', LoadedManifest)
    <3>1. PICK s \in Series, i \in ChunkIds : c = <<s, i>> OBVIOUS
    <3>2. files' = WithoutChunk(files, s, i)
      BY <1>1, <1>7, <3>1 DEF WithoutChunk
    <3>3. QED BY <1>3, <3>2, LostChunk
  <2>2. Rely' BY <1>2, <2>1 DEF SnapInv, Rely, Reliable
  <2>3. Present(files', LoadedManifest) =>
          \A s \in Series : Covers(chain, files', LoadedManifest, s, {})
    BY <1>3, <2>1 DEF Covers
  <2>4. MetaOK(chain, files', LoadedManifest, meta)
    BY <1>3, <2>1 DEF MetaOK
  <2>5. Disk' BY <1>1, <1>2, <1>3, <1>7, <2>1, <2>3, <2>4 DEF Disk, DiskOK
  <2>6. QED BY <1>1, <1>2, <1>4, <1>5, <2>2, <2>5, OutsideKeeps
<1>8. QED BY <1>1, <1>6, <1>7

-----------------------------------------------------------------------------
(* The theorems.                                                           *)

LEMMA StutterKeeps ==
  ASSUME SnapInv, UNCHANGED allVars PROVE SnapInv'
<1>1. /\ UNCHANGED vars
      /\ UNCHANGED <<runtime, files, manifest, meta>>
      /\ UNCHANGED <<phase, declared, pending, left, open, queue>>
  BY DEF allVars, disk, process
<1>2. /\ UNCHANGED <<chain, users, markets, cursor, pc>>
      /\ LoadedManifest' = LoadedManifest
  BY <1>1 DEF vars, db, local, LoadedManifest
<1>3. Tables' BY <1>1, TablesFrame DEF SnapInv
<1>4. Rely' /\ Disk' BY <1>1, <1>2, RelyFrame, DiskFrame DEF SnapInv
<1>5. Fresh' BY <1>1, <1>2 DEF SnapInv, Fresh, EmptyDb
<1>6. Shape' BY <1>1, <1>2 DEF SnapInv, Process, Shape, Idle
<1>7. Started' /\ Loading'
  BY <1>1, <1>2 DEF SnapInv, Process, Started, Loading
<1>8. Importing' BY <1>1, <1>2 DEF SnapInv, Process, Importing
<1>9. Working'
  BY <1>1, <1>2, InductiveFrame DEF SnapInv, Process, Working
<1>10. Flushing' BY <1>1, <1>2 DEF SnapInv, Process, Flushing
<1>11. Syncing' BY <1>1, <1>2 DEF SnapInv, Process, Syncing
<1>12. QED
  BY <1>3, <1>4, <1>5, <1>6, <1>7, <1>8, <1>9, <1>10, <1>11
     DEF SnapInv, Process

LEMMA SnapInvStep ==
  ASSUME Orderly, SnapInv, [SnapshotNext]_allVars PROVE SnapInv'
<1>1. OneBatch /\ TimesDiffer /\ "manifest" \notin Losable BY DEF Orderly
<1>2. CASE Assemble BY <1>2, AssembleKeeps
<1>3. CASE StartWithoutMeta BY <1>3, StartWithoutMetaKeeps
<1>4. CASE ImportMeta BY <1>4, ImportMetaKeeps
<1>5. ASSUME NEW c \in Series \X ChunkIds, ImportChunk(c) PROVE SnapInv'
  BY <1>5, ImportChunkKeeps
<1>6. CASE Check BY <1>6, CheckKeeps
<1>7. CASE BeginIndexing \/ IndexNetworks \/ EndIndexing
  BY <1>1, <1>7, IndexingKeeps
<1>8. ASSUME NEW s \in Series, FlushSeries(s) PROVE SnapInv'
  BY <1>8, FlushSeriesKeeps
<1>9. CASE FlushChunk BY <1>9, FlushChunkKeeps
<1>10. CASE SaveManifest BY <1>10, SaveManifestKeeps
<1>11. CASE EnsureMeta BY <1>11, EnsureMetaKeeps
<1>12. CASE SyncMeta BY <1>12, SyncMetaKeeps
<1>13. CASE CloseRuntime BY <1>13, CloseRuntimeKeeps
<1>14. CASE ProcessDies BY <1>14, ProcessDiesKeeps
<1>15. CASE LoseRuntime BY <1>15, LoseRuntimeKeeps
<1>16. ASSUME NEW part \in Losable, NEW c \in Series \X ChunkIds,
              LosePart(part, c)
       PROVE  SnapInv'
  BY <1>1, <1>16, LosePartKeeps
<1>17. CASE UNCHANGED allVars BY <1>17, StutterKeeps
<1>18. QED
  BY <1>2, <1>3, <1>4, <1>5, <1>6, <1>7, <1>8, <1>9, <1>10, <1>11, <1>12,
     <1>13, <1>14, <1>15, <1>16, <1>17
     DEF SnapshotNext, ProcessStep, Environment

(* However processes are killed between two commits and whatever of the    *)
(* runtime database, meta.sqlite and the chunk files is lost, the three    *)
(* stores fit together as the invariant says.                              *)
THEOREM SnapshotInvariant ==
  ASSUME Orderly PROVE SnapshotSpec => []SnapInv
<1>1. SnapshotInit => SnapInv BY SnapInvInit DEF Orderly
<1>2. SnapInv /\ [SnapshotNext]_allVars => SnapInv' BY SnapInvStep
<1>3. QED BY <1>1, <1>2, PTL DEF SnapshotSpec

(* Types of the variables of assemble(), run() and flush(); no network is  *)
(* in work outside run().                                                  *)
THEOREM SnapshotTypeCorrect ==
  ASSUME Orderly PROVE SnapshotSpec => []SnapshotTypeOK
<1>1. SnapInv => SnapshotTypeOK
  <2> SUFFICES ASSUME SnapInv PROVE SnapshotTypeOK OBVIOUS
  <2>1. FilesOK(chain, files) BY DEF SnapInv, Disk, DiskOK
  <2>2. files \in [Series -> [ChunkIds -> (SUBSET (Pairs \X Nat)) \cup {None}]]
    BY <2>1 DEF FilesOK
  <2>3. \A s \in Series, i \in ChunkIds :
          files[s][i] = None \/ files[s][i] \subseteq Pairs \X Nat
    BY <2>2
  <2>4. QED
    BY <2>3 DEF SnapInv, Tables, Fresh, Process, Shape, SnapshotTypeOK
<1>2. QED BY <1>1, SnapshotInvariant, PTL

(* A runtime database that passed assertRuntimeContainsManifestUsers has   *)
(* every user active up to its cursors, although an earlier process may    *)
(* have died while it imported into it or indexed into it.                 *)
THEOREM RuntimeIsComplete ==
  ASSUME Orderly PROVE SnapshotSpec => []RuntimeComplete
<1>1. SnapInv => RuntimeComplete
  BY InductiveComplete
     DEF SnapInv, Tables, Process, Working, RuntimeComplete
<1>2. QED BY <1>1, SnapshotInvariant, PTL

(* Who is stored is published, with the time of its first activity.        *)
LEMMA PublishedRow ==
  ASSUME NEW p \in Pairs, chain \in Chains, FilesOK(chain, files),
         IsManifest(LoadedManifest), Present(files, LoadedManifest)
  PROVE  /\ Stored(files, LoadedManifest, p) =>
              /\ chain.active[p] # {}
              /\ PublishedUsers[p] = FirstTime(chain, p)
              /\ PublishedUsers[p] # None
         /\ ~Stored(files, LoadedManifest, p) => PublishedUsers[p] = None
<1> DEFINE all == UNION {FileOf(c) : c \in {d \in Published :
                                             FileOf(d) # None}}
           rows == {r \in all : r[1] = p}
<1>1. PublishedUsers[p] = IF rows = {} THEN None ELSE Min(Times(rows))
  BY DEF PublishedUsers
<1>2. ASSUME NEW r \in rows
      PROVE  /\ Stored(files, LoadedManifest, p) /\ chain.active[p] # {}
             /\ r = <<p, FirstTime(chain, p)>>
  <2>1. PICK c \in Published : FileOf(c) # None /\ r \in FileOf(c)
    OBVIOUS
  <2>2. c \in Series \X ChunkIds /\ c[2] \in Chunks(LoadedManifest, c[1])
    BY <2>1, DeclaredChunks DEF Published
  <2>3. PICK s \in Series : s = c[1] BY <2>2
  <2>4. PICK i \in ChunkIds : i = c[2] /\ i \in Chunks(LoadedManifest, s)
    BY <2>2, <2>3
  <2>5. files[s][i] # None /\ r \in files[s][i]
    BY <2>1, <2>3, <2>4 DEF FileOf
  <2>6. r \in RowsOf(chain, s) BY <2>5 DEF FilesOK
  <2>7. /\ SeriesOf(p) = s /\ chain.active[p] # {}
        /\ r = <<p, FirstTime(chain, p)>>
    BY <2>6 DEF RowsOf
  <2>8. p \in PairsIn(files[s][i]) BY <2>5, <2>7 DEF PairsIn
  <2>9. QED BY <2>4, <2>7, <2>8 DEF Stored
<1>3. ASSUME Stored(files, LoadedManifest, p) PROVE rows # {}
  <2>1. PICK s \in Series : s = SeriesOf(p) BY SeriesOfPair
  <2>2. PICK i \in Chunks(LoadedManifest, s) : p \in PairsIn(files[s][i])
    BY <1>3, <2>1 DEF Stored
  <2>3. i \in ChunkIds /\ files[s][i] # None BY ChunkIdOf DEF Present
  <2>4. <<s, i>> \in Published /\ FileOf(<<s, i>>) = files[s][i]
    BY <2>3, DeclaredChunks DEF Published, FileOf
  <2>5. PICK r \in files[s][i] : r[1] = p BY <2>2 DEF PairsIn
  <2>6. r \in all BY <2>3, <2>4, <2>5
  <2>7. QED BY <2>5, <2>6
<1> HIDE DEF rows
<1>4. ASSUME rows # {}
      PROVE  /\ chain.active[p] # {}
             /\ PublishedUsers[p] = FirstTime(chain, p)
             /\ PublishedUsers[p] # None
  <2>1. PICK r \in rows : TRUE BY <1>4
  <2>2. PICK t \in Nat : t = FirstTime(chain, p) BY <1>2, <2>1, FirstActive
  <2>3. Times(rows) = {t} BY <1>2, <2>1, <2>2 DEF Times
  <2>4. {t} \in SUBSET Nat /\ {t} # {} OBVIOUS
  <2>5. Min({t}) \in {t} BY <2>4, MinLemma
  <2>6. PublishedUsers[p] = t BY <1>1, <1>4, <2>3, <2>5
  <2>7. QED BY <1>2, <2>1, <2>2, <2>6, IndexerAssumption
<1>5. rows # {} => Stored(files, LoadedManifest, p) BY <1>2
<1>6. QED BY <1>1, <1>3, <1>4, <1>5

(* The cursors of meta.sqlite vouch for the chunk files in every state,    *)
(* between any two commits of the flush too: a user active up to a         *)
(* published cursor is in a declared chunk.                                *)
THEOREM SnapshotIsComplete ==
  ASSUME Orderly PROVE SnapshotSpec => []SnapshotComplete
<1>1. SnapInv => SnapshotComplete
  <2> SUFFICES ASSUME SnapInv, \A c \in Published : FileOf(c) # None,
                      NEW n \in Networks, NEW p \in Pairs,
                      p \in PairsOf(n), PublishedCursor[n] # None,
                      NEW b \in chain.active[p], b <= PublishedCursor[n]
               PROVE  PublishedUsers[p] # None
    BY DEF SnapshotComplete
  <2>1. /\ chain \in Chains /\ FilesOK(chain, files)
        /\ IsManifest(LoadedManifest)
        /\ MetaOK(chain, files, LoadedManifest, meta)
    BY DEF SnapInv, Tables, TypeOK, Disk, DiskOK
  <2>2. Present(files, LoadedManifest)
    <3> SUFFICES ASSUME NEW s \in Series, NEW i \in Chunks(LoadedManifest, s)
                 PROVE  files[s][i] # None
      BY DEF Present
    <3>1. <<s, i>> \in Published
      BY <2>1, ChunkIdOf, DeclaredChunks DEF Published
    <3>2. QED BY <3>1 DEF FileOf
  <2>3. meta # None /\ PublishedCursor = meta.cursor
    BY DEF PublishedCursor, EmptyMeta
  <2>4. meta.cursor \in [Networks -> Blocks \cup {None}]
    BY <2>1, <2>3 DEF MetaOK, MetaType
  <2>5. Blocks \subseteq Nat BY IndexerAssumption DEF Blocks
  <2>6. b \in Nat
    BY <2>1, <2>5, ChainAssumption DEF PlausibleChain
  <2>7. PICK a \in Nat : a = meta.cursor[n] BY <2>3, <2>4, <2>5
  <2>8. NetworkOf[p[1]] = n BY DEF PairsOf
  <2>9. b < a + 1 BY <2>3, <2>6, <2>7
  <2>10. After(meta.cursor, n) = a + 1 BY <2>3, <2>7 DEF After
  <2>11. Stored(files, LoadedManifest, p)
    BY <2>1, <2>2, <2>3, <2>8, <2>9, <2>10 DEF MetaOK
  <2>12. QED BY <2>1, <2>2, <2>11, PublishedRow
<1>2. QED BY <1>1, SnapshotInvariant, PTL

-----------------------------------------------------------------------------
(* The next assemble accepts the snapshot.                                 *)

(* The declared files are as declared, and there are no others.            *)
Matches(f, man) ==
  /\ Valid(f, man)
  /\ \A s \in Series, i \in ChunkIds : f[s][i] # None => i \in Chunks(man, s)

(* The manifest the files are written for.                                 *)
InMemory == IF phase = "flush" THEN declared ELSE LoadedManifest

Matching == Matches(files, InMemory)

LEMMA EmptyMatches ==
  ASSUME NEW f, \A s \in Series, i \in ChunkIds : f[s][i] = None
  PROVE  Matches(f, EmptyManifest)
BY EmptyIsManifest DEF Matches, Valid

(* The greatest of some times.                                             *)
LEMMA LastTime ==
  ASSUME NEW R, \A r \in R : r[2] \in Nat, NEW e \in Nat,
         \E r \in R : r[2] = e, \A r \in R : r[2] <= e
  PROVE  Max(Times(R)) = e
<1> DEFINE T == Times(R)
<1>1. T \in SUBSET Nat /\ e \in T /\ \A t \in T : t <= e BY DEF Times
<1> HIDE DEF T
<1>2. T # {} BY <1>1
<1>3. Max(T) \in T /\ \A t \in T : t <= Max(T) BY <1>1, <1>2, MaxBounded
<1>4. PICK m \in Nat : m = Max(T) BY <1>1, <1>3
<1>5. m <= e /\ e <= m BY <1>1, <1>3, <1>4
<1>6. m = e BY <1>5
<1>7. QED BY <1>4, <1>6 DEF T

(* The first chunk of a series is opened.                                  *)
LEMMA OpenMatches ==
  ASSUME NEW ch, NEW f, FilesOK(ch, f), NEW man, IsManifest(man),
         Matches(f, man), NEW s \in Series, man[s].chunks = <<>>,
         NEW zero \in Info, zero.rows = 0,
         NEW next, next = [man EXCEPT ![s].chunks = <<zero>>],
         NEW g, g = [f EXCEPT ![s][1] = IF @ = None THEN {} ELSE @]
  PROVE  Matches(g, next)
<1>1. Valid(f, man) /\ man \in [Series -> [last : Nat, chunks : Seq(Info)]]
  BY DEF Matches, IsManifest
<1>2. /\ next[s].chunks = <<zero>>
      /\ \A x \in Series : x # s => next[x] = man[x]
  BY <1>1
<1>3. Chunks(next, s) = {1} /\ Chunks(man, s) = {} /\ next[s].chunks[1] = zero
  <2>1. Len(<<zero>>) = 1 /\ <<zero>>[1] = zero OBVIOUS
  <2>2. Len(next[s].chunks) = 1 /\ next[s].chunks[1] = zero BY <1>2, <2>1
  <2>3. Len(man[s].chunks) = 0 OBVIOUS
  <2>4. QED BY <2>2, <2>3 DEF Chunks
<1>4. 1 \in ChunkIds BY SnapshotAssumption DEF ChunkIds
<1>5. f[s][1] = None BY <1>3, <1>4 DEF Matches
<1> DEFINE T == (SUBSET (Pairs \X Nat)) \cup {None}
<1>6. f \in [Series -> [ChunkIds -> T]] /\ {} \in T BY DEF FilesOK
<1> HIDE DEF T
<1>7. \A x \in Series, j \in ChunkIds :
        g[x][j] = IF x = s /\ j = 1 THEN {} ELSE f[x][j]
  BY <1>4, <1>5, <1>6
<1>8. g[s][1] = {} /\ {} # None
  <2>1. {} # None BY SnapshotAssumption
  <2>2. QED BY <1>4, <1>7, <2>1
<1>9. \A x \in Series, j \in ChunkIds :
        x # s \/ j # 1 => g[x][j] = f[x][j]
  BY <1>7
<1>10. \A x \in Series : x # s => Chunks(next, x) = Chunks(man, x)
  BY <1>2 DEF Chunks
<1>11. ASSUME NEW x \in Series, NEW j \in Chunks(next, x)
       PROVE  LET info == next[x].chunks[j] IN
              /\ g[x][j] # None
              /\ Cardinality(g[x][j]) = info.rows
              /\ info.rows > 0 => Max(Times(g[x][j])) = info.end
  <2>1. CASE x = s
    <3>1. j = 1 BY <1>3, <2>1
    <3>2. Cardinality({}) = 0 BY FS_EmptySet
    <3>3. next[x].chunks[j] = zero /\ ~(zero.rows > 0)
      BY <1>3, <2>1, <3>1
    <3>4. QED BY <1>8, <2>1, <3>1, <3>2, <3>3
  <2>2. CASE x # s
    <3>1. next[x] = man[x] /\ j \in Chunks(man, x) BY <1>2, <1>10, <2>2
    <3>2. g[x][j] = f[x][j] BY <1>9, <2>2, <3>1, ChunkIdOf
    <3>3. QED BY <1>1, <3>1, <3>2 DEF Valid
  <2>3. QED BY <2>1, <2>2
<1>12. ASSUME NEW x \in Series, NEW j \in ChunkIds, g[x][j] # None
       PROVE  j \in Chunks(next, x)
  <2>1. CASE x = s /\ j = 1 BY <1>3, <2>1
  <2>2. CASE x # s \/ j # 1
    <3>1. j \in Chunks(man, x) BY <1>9, <1>12, <2>2 DEF Matches
    <3>2. QED BY <1>3, <1>10, <2>2, <3>1
  <2>3. QED BY <2>1, <2>2
<1>13. Valid(g, next) BY <1>11 DEF Valid
<1>14. QED BY <1>12, <1>13 DEF Matches

(* The files after a chunk was written.                                    *)
ChunkFiles(f, s, i, N, more) ==
  IF more THEN [WithRows(f, s, i, N)
                  EXCEPT ![s][i + 1] = IF @ = None THEN {} ELSE @]
          ELSE WithRows(f, s, i, N)

(* The rows N are new to the file F and later than those in it.            *)
Appended(F, N, info, done) ==
  /\ N \cap F = {}
  /\ done.rows = info.rows + Cardinality(N)
  /\ \E r \in F \cup N : r[2] = done.end
  /\ \A r \in F \cup N : r[2] <= done.end

(* Rows are written to the last chunk of a series.                         *)
LEMMA WriteMatches ==
  ASSUME NEW ch \in Chains, NEW f, FilesOK(ch, f), NEW man, IsManifest(man),
         Matches(f, man), NEW s \in Series, NEW i \in ChunkIds,
         i = Len(man[s].chunks), i \in Chunks(man, s),
         NEW N, IsFiniteSet(N), N \subseteq RowsOf(ch, s),
         NEW done \in Info, Appended(f[s][i], N, man[s].chunks[i], done),
         NEW more \in BOOLEAN, more => i < MaxChunks,
         NEW next, ChunkRecorded(man, s, i, done, more, next),
         NEW g, g = ChunkFiles(f, s, i, N, more)
  PROVE  Matches(g, next)
<1> DEFINE w == WithRows(f, s, i, N)
<1>1. g = IF more THEN [w EXCEPT ![s][i + 1] = IF @ = None THEN {} ELSE @]
                  ELSE w
  BY DEF ChunkFiles
<1> HIDE DEF w
<1>2. Valid(f, man) /\ f[s][i] # None BY DEF Matches, Valid
<1>3. /\ IsManifest(next)
      /\ \A x \in Series : x # s => next[x] = man[x]
      /\ Len(next[s].chunks) = IF more THEN i + 1 ELSE i
      /\ \A j \in 1 .. i :
           next[s].chunks[j] = IF j = i THEN done ELSE man[s].chunks[j]
      /\ more => next[s].chunks[i + 1].rows = 0
  BY DEF ChunkRecorded
<1>4. /\ FilesOK(ch, w) /\ w[s][i] = f[s][i] \cup N /\ w[s][i] # None
      /\ \A x \in Series, j \in ChunkIds : x # s \/ j # i => w[x][j] = f[x][j]
  BY <1>2, WrittenFile DEF Grows, w
<1>5. i \in Nat /\ (more => i + 1 \in ChunkIds) /\ i \in 1 .. i
      /\ i + 1 \notin 1 .. i /\ i + 1 # i /\ i + 1 \in 1 .. i + 1
  BY SnapshotAssumption DEF ChunkIds
<1>6. more => f[s][i + 1] = None BY <1>5 DEF Matches, Chunks
<1>7. /\ \A x \in Series, j \in ChunkIds :
           x # s \/ j # i + 1 => g[x][j] = w[x][j]
      /\ more => g[s][i + 1] = {} /\ {} # None
  <2>1. CASE ~more BY <1>1, <2>1
  <2>2. CASE more
    <3>1. g = [w EXCEPT ![s][i + 1] = IF @ = None THEN {} ELSE @]
      BY <1>1, <2>2
    <3>2. i + 1 \in ChunkIds /\ w[s][i + 1] = None
      BY <1>4, <1>5, <1>6, <2>2
    <3>3. g[s][i + 1] = {}
          /\ \A x \in Series, j \in ChunkIds :
               x # s \/ j # i + 1 => g[x][j] = w[x][j]
      BY <1>4, <3>1, <3>2, OpenedOnly
    <3>4. {} # None BY SnapshotAssumption
    <3>5. QED BY <3>3, <3>4
  <2>3. QED BY <2>1, <2>2
<1>8. g[s][i] = f[s][i] \cup N /\ g[s][i] # None BY <1>4, <1>5, <1>7
<1>9. \A x \in Series, j \in ChunkIds :
        x # s \/ (j # i /\ j # i + 1) => g[x][j] = f[x][j]
  BY <1>4, <1>7
<1>10. /\ Cardinality(g[s][i]) = done.rows
      /\ Max(Times(g[s][i])) = done.end
  <2> DEFINE F == f[s][i]
  <2>1. IsFiniteSet(F) /\ F \subseteq RowsOf(ch, s) BY <1>2 DEF FilesOK
  <2>2. Cardinality(F) = man[s].chunks[i].rows BY <1>2 DEF Valid
  <2>3. man[s].chunks[i] \in Info BY ChunkIdOf
  <2>4. F \cap N = {} /\ done.rows = man[s].chunks[i].rows + Cardinality(N)
    BY DEF Appended
  <2>5. PICK e \in Nat : e = done.end BY DEF Info
  <2>6. \A r \in F \cup N : r[2] \in Nat
    BY <2>1, FirstActive DEF RowsOf
  <2>7. \E r \in F \cup N : r[2] = e BY <2>5 DEF Appended
  <2>8. \A r \in F \cup N : r[2] <= e BY <2>5 DEF Appended
  <2> HIDE DEF F
  <2>9. Cardinality(F \cup N) = Cardinality(F) + Cardinality(N)
    <3>1. Cardinality(F \cap N) = 0 BY <2>4, FS_EmptySet
    <3>2. Cardinality(F) \in Nat /\ Cardinality(N) \in Nat
      BY <2>1, FS_CardinalityType
    <3>3. Cardinality(F \cup N)
            = Cardinality(F) + Cardinality(N) - Cardinality(F \cap N)
      BY <2>1, FS_Union
    <3>4. QED BY <3>1, <3>2, <3>3
  <2>10. Max(Times(F \cup N)) = e BY <2>6, <2>7, <2>8, LastTime
  <2>11. g[s][i] = F \cup N BY <1>8 DEF F
  <2>12. QED BY <2>2, <2>4, <2>5, <2>9, <2>10, <2>11
<1>11. \A x \in Series : x # s => Chunks(next, x) = Chunks(man, x)
  BY <1>3 DEF Chunks
<1>12. /\ Chunks(man, s) = 1 .. i
       /\ Chunks(next, s) = IF more THEN 1 .. i + 1 ELSE 1 .. i
  BY <1>3 DEF Chunks
<1>13. ASSUME NEW x \in Series, NEW j \in Chunks(next, x)
       PROVE  LET info == next[x].chunks[j] IN
              /\ g[x][j] # None
              /\ Cardinality(g[x][j]) = info.rows
              /\ info.rows > 0 => Max(Times(g[x][j])) = info.end
  <2>1. CASE x = s /\ j = i
    <3>1. next[x].chunks[j] = done BY <1>3, <1>5, <2>1
    <3>2. QED BY <1>8, <1>10, <2>1, <3>1
  <2>2. CASE x = s /\ j = i + 1
    <3>1. more BY <1>5, <1>12, <2>2
    <3>2. Cardinality({}) = 0 BY FS_EmptySet
    <3>3. next[x].chunks[j].rows = 0 BY <1>3, <2>2, <3>1
    <3>4. g[x][j] = {} /\ {} # None BY <1>7, <2>2, <3>1
    <3>5. ~(next[x].chunks[j].rows > 0) BY <3>3
    <3>6. QED BY <3>2, <3>3, <3>4, <3>5
  <2>3. CASE x # s \/ (j # i /\ j # i + 1)
    <3>1. j \in Chunks(man, x) /\ next[x].chunks[j] = man[x].chunks[j]
      <4>1. CASE x # s BY <1>3, <1>11, <4>1
      <4>2. CASE x = s
        <5>1. j \in 1 .. i BY <1>5, <1>12, <2>3, <4>2
        <5>2. QED BY <1>3, <1>12, <2>3, <4>2, <5>1
      <4>3. QED BY <4>1, <4>2
    <3>2. g[x][j] = f[x][j] BY <1>9, <2>3, <3>1, ChunkIdOf
    <3>3. LET info == man[x].chunks[j] IN
          /\ f[x][j] # None
          /\ Cardinality(f[x][j]) = info.rows
          /\ info.rows > 0 => Max(Times(f[x][j])) = info.end
      BY <1>2, <3>1 DEF Valid
    <3>4. QED BY <3>1, <3>2, <3>3
  <2>4. QED BY <2>1, <2>2, <2>3
<1>14. ASSUME NEW x \in Series, NEW j \in ChunkIds, g[x][j] # None
       PROVE  j \in Chunks(next, x)
  <2>1. CASE x = s /\ j = i BY <1>5, <1>12, <2>1
  <2>2. CASE x = s /\ j = i + 1
    <3>1. CASE more BY <1>5, <1>12, <2>2, <3>1
    <3>2. CASE ~more
      <4>1. f[s][i + 1] # None BY <1>1, <1>4, <1>5, <1>14, <2>2, <3>2
      <4>2. i + 1 \in 1 .. i BY <1>12, <2>2, <4>1 DEF Matches
      <4>3. QED BY <1>5, <4>2
    <3>3. QED BY <3>1, <3>2
  <2>3. CASE x # s \/ (j # i /\ j # i + 1)
    <3>1. j \in Chunks(man, x) BY <1>9, <1>14, <2>3 DEF Matches
    <3>2. CASE x # s BY <1>11, <3>1, <3>2
    <3>3. CASE x = s
      <4>1. j \in 1 .. i BY <1>12, <3>1, <3>3
      <4>2. j \in 1 .. i + 1 BY <1>5, <4>1
      <4>3. QED BY <1>12, <3>3, <4>1, <4>2
    <3>4. QED BY <3>2, <3>3
  <2>4. QED BY <2>1, <2>2, <2>3
<1>15. Valid(g, next) BY <1>13 DEF Valid
<1>16. QED BY <1>14, <1>15 DEF Matches

LEMMA FlushSeriesMatches ==
  ASSUME SnapInv, Matching, NEW s, FlushSeries(s) PROVE Matching'
<1>1. /\ phase = "flush" /\ phase' = "flush" /\ open = None
      /\ s \in Series
      /\ UNCHANGED manifest
  BY DEF FlushSeries, SnapInv, Process, Shape
<1>2. Matches(files, declared) BY <1>1 DEF Matching, InMemory
<1>3. Matching' <=> Matches(files', declared')
  BY <1>1 DEF Matching, InMemory
<1>4. CASE NewRows(s) = {}
  <2>1. UNCHANGED <<files, declared>> BY <1>4 DEF FlushSeries
  <2>2. QED BY <1>2, <1>3, <2>1
<1>5. CASE NewRows(s) # {}
  <2> DEFINE chunks == declared[s].chunks
             active == IF chunks = <<>> THEN <<[rows |-> 0, end |-> 0]>>
                                        ELSE chunks
  <2>1. /\ declared' = [declared EXCEPT ![s].chunks = active]
        /\ files' = Opened(s, Len(active))
    BY <1>5 DEF FlushSeries
  <2>2. /\ IsManifest(declared) /\ FilesOK(chain, files)
        /\ declared \in [Series -> [last : Nat, chunks : Seq(Info)]]
    BY <1>1 DEF SnapInv, Process, Flushing, FlushOK, Disk, DiskOK,
                IsManifest
  <2>3. CASE chunks = <<>>
    <3>1. PICK zero \in Info :
            zero = [rows |-> 0, end |-> 0] /\ zero.rows = 0
      <4>1. [rows |-> 0, end |-> 0] \in Info BY DEF Info
      <4>2. QED BY <4>1
    <3>2. active = <<zero>> /\ Len(<<zero>>) = 1 BY <2>3, <3>1
    <3> HIDE DEF active
    <3>3. declared' = [declared EXCEPT ![s].chunks = <<zero>>]
      BY <2>1, <3>2
    <3>4. files' = [files EXCEPT ![s][1] = IF @ = None THEN {} ELSE @]
      BY <2>1, <3>2 DEF Opened
    <3>5. Matches(files', declared')
      BY <1>1, <1>2, <2>2, <2>3, <3>1, <3>3, <3>4, OpenMatches
    <3>6. QED BY <1>3, <3>5
  <2>4. CASE chunks # <<>>
    <3>1. active = chunks BY <2>4
    <3>2. declared' = declared BY <1>1, <2>1, <2>2, <3>1
    <3>3. chunks \in Seq(Info) BY <1>1, <2>2
    <3>4. PICK n \in Nat : n = Len(chunks) BY <3>3
    <3>5. n # 0 BY <2>4, <3>3, <3>4, EmptySeq
    <3>6. n \in 1 .. n BY <3>5
    <3>7. n \in Chunks(declared, s) BY <3>4, <3>6 DEF Chunks
    <3>8. n \in ChunkIds /\ files[s][n] # None
      BY <1>1, <1>2, <2>2, <3>7, ChunkIdOf DEF Matches, Valid
    <3> HIDE DEF active, chunks
    <3>9. files' = [files EXCEPT ![s][n] = IF @ = None THEN {} ELSE @]
      BY <2>1, <3>1, <3>4 DEF Opened
    <3> DEFINE T == (SUBSET (Pairs \X Nat)) \cup {None}
    <3>10. files \in [Series -> [ChunkIds -> T]] BY <2>2 DEF FilesOK
    <3> HIDE DEF T
    <3>11. files' = files BY <1>1, <3>8, <3>9, <3>10
    <3>12. QED BY <1>2, <1>3, <3>2, <3>11
  <2>5. QED BY <2>3, <2>4
<1>6. QED BY <1>4, <1>5

LEMMA FlushChunkMatches ==
  ASSUME SnapInv, Matching, FlushChunk PROVE Matching'
<1>1. phase = "flush" /\ phase' = "flush" /\ open # None /\ UNCHANGED manifest
  BY DEF FlushChunk
<1>2. PICK s \in Series, i \in ChunkIds :
        /\ s = open /\ i = Len(declared[s].chunks)
        /\ i \in Chunks(declared, s)
        /\ declared[s].chunks[i] \in Info /\ files[s][i] # None
  BY <1>1, OpenChunk
<1>3. /\ Len(queue) \in Nat /\ queue \in Seq(RowsOf(chain, s))
      /\ IsManifest(declared)
      /\ \A j \in 1 .. Len(queue) :
           /\ queue[j] \in RowsOf(chain, s) /\ queue[j][2] \in Nat
           /\ declared[s].last <= queue[j][2]
  BY <1>1, <1>2, OpenChunk
<1>4. /\ chain \in Chains /\ FilesOK(chain, files)
      /\ \A a, b \in DOMAIN queue : a < b => queue[a][2] <= queue[b][2]
  BY <1>1 DEF SnapInv, Tables, TypeOK, Disk, DiskOK, Process, Flushing,
              FlushOK
<1>5. Matches(files, declared) BY <1>1 DEF Matching, InMemory
<1>6. Matching' <=> Matches(files', declared')
  BY <1>1 DEF Matching, InMemory
<1>7. PICK k, N, done, more : ChunkWritten(k, N, done, more)
  BY FlushChunkWrites
<1> DEFINE F == files[s][i]
           J == {x \in 1 .. k : queue[x][1] \notin PairsIn(F)}
           next == declared'
           g == files'
<1>8. /\ k \in 1 .. Len(queue) /\ done \in Info /\ more \in BOOLEAN
      /\ N = {queue[j] : j \in J}
      /\ done.rows = declared[s].chunks[i].rows + Cardinality(N)
      /\ done.end = queue[k][2]
      /\ more => i < MaxChunks
      /\ next = WithChunk(declared, s, i, done, more)
      /\ g = ChunkFiles(files, s, i, N, more)
  BY <1>2, <1>7 DEF ChunkWritten, ChunkFiles
<1> HIDE DEF next, g
<1>9. PICK n \in Nat : n = k BY <1>3, <1>8
<1>10. /\ J \subseteq 1 .. n /\ J \subseteq 1 .. Len(queue)
       /\ n \in 1 .. Len(queue)
  BY <1>3, <1>8, <1>9
<1>11. IsFiniteSet(N) /\ N \subseteq RowsOf(chain, s)
  <2> HIDE DEF J
  <2>1. IsFiniteSet(N) BY <1>8, <1>10, PlacesFinite
  <2>2. N \subseteq RowsOf(chain, s) BY <1>3, <1>8, <1>10
  <2>3. QED BY <2>1, <2>2
<1>12. N \cap F = {} BY <1>8 DEF PairsIn
<1>13. F \subseteq RowsOf(chain, s) BY <1>2, <1>4 DEF FilesOK
<1>14. PICK e \in Nat : e = done.end /\ e = queue[n][2]
  BY <1>3, <1>8, <1>9, <1>10
<1>15. declared[s].last <= e BY <1>3, <1>10, <1>14
<1>16. \E r \in F \cup N : r[2] = e
  <2>1. CASE queue[n][1] \notin PairsIn(F)
    <3>1. n \in J BY <1>8, <1>9, <1>10, <2>1
    <3>2. queue[n] \in N BY <1>8, <3>1
    <3>3. QED BY <1>14, <3>2
  <2>2. CASE queue[n][1] \in PairsIn(F)
    <3>1. PICK r \in F : r[1] = queue[n][1] BY <2>2 DEF PairsIn
    <3>2. r = queue[n]
      <4>1. r \in RowsOf(chain, s) /\ queue[n] \in RowsOf(chain, s)
        BY <1>3, <1>10, <1>13
      <4>2. QED BY <3>1, <4>1 DEF RowsOf
    <3>3. QED BY <1>14, <3>2
  <2>3. QED BY <2>1, <2>2
<1>17. ASSUME NEW r \in F \cup N PROVE r[2] <= e
  <2>1. CASE r \in F
    <3>1. PICK p \in Pairs : /\ SeriesOf(p) = s /\ chain.active[p] # {}
                             /\ r = <<p, FirstTime(chain, p)>>
      BY <1>13, <2>1 DEF RowsOf
    <3>2. Stored(files, declared, p)
      BY <1>2, <2>1, <3>1 DEF Stored, PairsIn
    <3>3. FirstTime(chain, p) <= declared[s].last
      BY <1>3, <1>4, <1>5, <3>1, <3>2, RowInFile DEF Matches
    <3>4. PICK l \in Nat : l = declared[s].last BY <1>3 DEF IsManifest
    <3>5. PICK t \in Nat : t = FirstTime(chain, p)
      BY <1>4, <3>1, FirstActive
    <3>6. t <= l /\ l <= e BY <1>15, <3>3, <3>4, <3>5
    <3>7. QED BY <3>1, <3>5, <3>6
  <2>2. CASE r \in N
    <3>1. PICK j \in J : r = queue[j] BY <1>8, <2>2
    <3>2. j \in 1 .. n /\ j \in 1 .. Len(queue) BY <1>10, <3>1
    <3>3. DOMAIN queue = 1 .. Len(queue) BY <1>3, LenProperties
    <3>4. CASE j = n BY <1>14, <3>1, <3>4
    <3>5. CASE j # n
      <4>1. j < n BY <3>2, <3>5
      <4>2. queue[j][2] <= queue[n][2] BY <1>4, <1>10, <3>2, <3>3, <4>1
      <4>3. QED BY <1>14, <3>1, <4>2
    <3>6. QED BY <3>4, <3>5
  <2>3. QED BY <2>1, <2>2
<1> HIDE DEF J, F
<1>18. ChunkRecorded(declared, s, i, done, more, next)
  <2>1. declared[s].last <= done.end BY <1>14, <1>15
  <2>2. QED BY <1>2, <1>3, <1>8, <2>1, RecordedManifest
<1>19. Appended(files[s][i], N, declared[s].chunks[i], done)
  BY <1>8, <1>12, <1>14, <1>16, <1>17 DEF Appended, F
<1>20. Matches(g, next)
  BY <1>2, <1>3, <1>4, <1>5, <1>8, <1>11, <1>18, <1>19, WriteMatches, SMTT(30)
<1>21. QED BY <1>6, <1>20 DEF g, next

(* Steps outside the flush leave files and manifest alone.                 *)
LEMMA QuietMatches ==
  ASSUME Matching, phase # "flush", phase' # "flush",
         UNCHANGED <<files, manifest>>
  PROVE  Matching'
BY DEF Matching, InMemory, LoadedManifest

LEMMA MatchingStep ==
  ASSUME "flush" \notin CrashPoints, "manifest" \notin Losable,
         "chunk" \notin Losable,
         SnapInv, Matching, [SnapshotNext]_allVars
  PROVE  Matching'
<1>1. CASE Assemble
  BY <1>1, QuietMatches DEF Assemble, ProcessEnds
<1>2. CASE StartWithoutMeta
  BY <1>2, QuietMatches DEF StartWithoutMeta, ProcessEnds, disk
<1>3. CASE ImportMeta
  BY <1>3, QuietMatches DEF ImportMeta, ProcessEnds, disk
<1>4. ASSUME NEW c \in Series \X ChunkIds, ImportChunk(c) PROVE Matching'
  BY <1>4, QuietMatches DEF ImportChunk, disk
<1>5. CASE Check \/ CloseRuntime
  BY <1>5, QuietMatches DEF Check, CloseRuntime, ProcessEnds, disk
<1>6. CASE BeginIndexing \/ IndexNetworks
  BY <1>6, QuietMatches DEF BeginIndexing, IndexNetworks, disk, process
<1>7. CASE EndIndexing
  <2>1. /\ phase = "index" /\ phase' = "flush"
        /\ UNCHANGED <<files, manifest, declared>>
    BY <1>7 DEF EndIndexing, disk
  <2>2. declared = LoadedManifest
    BY <2>1 DEF SnapInv, Process, Loading
  <2>3. QED BY <2>1, <2>2 DEF Matching, InMemory
<1>8. ASSUME NEW s \in Series, FlushSeries(s) PROVE Matching'
  BY <1>8, FlushSeriesMatches
<1>9. CASE FlushChunk BY <1>9, FlushChunkMatches
<1>10. CASE SaveManifest
  <2>1. /\ phase = "flush" /\ phase' = "sync" /\ UNCHANGED files
        /\ LoadedManifest' = declared
    BY <1>10, SaveManifestKeeps DEF SaveManifest
  <2>2. QED BY <2>1 DEF Matching, InMemory
<1>11. CASE EnsureMeta \/ SyncMeta
  BY <1>11, QuietMatches DEF EnsureMeta, SyncMeta, ProcessEnds, process
<1>12. CASE ProcessDies
  BY <1>12, QuietMatches DEF ProcessDies, ProcessEnds, disk
<1>13. CASE LoseRuntime
  BY <1>13, QuietMatches DEF LoseRuntime, process
<1>14. ASSUME NEW part \in Losable, NEW c \in Series \X ChunkIds,
              LosePart(part, c)
       PROVE  Matching'
  BY <1>14, QuietMatches DEF LosePart, process
<1>15. CASE UNCHANGED allVars
  BY <1>15 DEF allVars, disk, process, Matching, InMemory, LoadedManifest
<1>16. QED
  BY <1>1, <1>2, <1>3, <1>4, <1>5, <1>6, <1>7, <1>8, <1>9, <1>10, <1>11,
     <1>12, <1>13, <1>14, <1>15
     DEF SnapshotNext, ProcessStep, Environment

(* Unless a process dies in the middle of the flush or a file is lost, the *)
(* chunk files are as the manifest says, row counts and last times         *)
(* included, and validateManifestChunks of the next run accepts them: the  *)
(* rows inserted are counted once although a chunk is opened, filled over  *)
(* several runs and followed by another.                                   *)
THEOREM SnapshotIsValid ==
  ASSUME Orderly, "flush" \notin CrashPoints, "chunk" \notin Losable
  PROVE  SnapshotSpec => []SnapshotValid
<1>1. SnapshotInit => Matching
  <2> SUFFICES ASSUME SnapshotInit PROVE Matching OBVIOUS
  <2>1. InMemory = EmptyManifest
    BY DEF SnapshotInit, InMemory, LoadedManifest
  <2>2. \A s \in Series, i \in ChunkIds : files[s][i] = None
    BY DEF SnapshotInit
  <2>3. QED BY <2>1, <2>2, EmptyMatches DEF Matching
<1>2. SnapInv /\ Matching /\ [SnapshotNext]_allVars => Matching'
  BY MatchingStep DEF Orderly
<1>3. SnapInv /\ Matching => SnapshotValid
  <2> SUFFICES ASSUME SnapInv, Matching, phase = "down"
               PROVE  ChunksValid(LoadedManifest)
    BY DEF SnapshotValid
  <2>1. IsManifest(LoadedManifest) BY DEF SnapInv, Disk, DiskOK
  <2>2. Valid(files, LoadedManifest) BY DEF Matching, InMemory, Matches
  <2>3. QED BY <2>1, <2>2, ValidChunks
<1>4. QED BY <1>1, <1>2, <1>3, SnapshotInvariant, PTL DEF SnapshotSpec

-----------------------------------------------------------------------------
(* What the snapshot publishes implements UserIndex.                       *)

PresentOnDisk == Present(files, LoadedManifest)

(* The cursors of the runtime database are never behind those of           *)
(* meta.sqlite, so syncMetaFromRuntime moves none of them back.            *)
AheadOf(pub, cur) ==
  \A n \in Networks :
    pub[n] # None => cur[n] # None /\ pub[n] <= cur[n]

Ahead == runtime /\ phase # "import" => AheadOf(PublishedCursor, cursor)

LEMMA PublishedCursorType ==
  SnapInv => PublishedCursor \in [Networks -> Blocks \cup {None}]
<1> SUFFICES ASSUME SnapInv
             PROVE  PublishedCursor \in [Networks -> Blocks \cup {None}]
  OBVIOUS
<1>1. EmptyMeta.cursor \in [Networks -> Blocks \cup {None}]
  BY DEF EmptyMeta
<1>2. meta # None => meta.cursor \in [Networks -> Blocks \cup {None}]
  BY DEF SnapInv, Disk, DiskOK, MetaOK, MetaType
<1>3. QED BY <1>1, <1>2 DEF PublishedCursor

LEMMA BlocksNumbers == Blocks \subseteq Nat /\ None \notin Nat
BY IndexerAssumption DEF Blocks

LEMMA AheadRefl ==
  ASSUME NEW cur \in [Networks -> Blocks \cup {None}]
  PROVE  AheadOf(cur, cur)
<1> SUFFICES ASSUME NEW n \in Networks, cur[n] # None
             PROVE  cur[n] <= cur[n]
  BY DEF AheadOf
<1>1. cur[n] \in Nat BY BlocksNumbers
<1>2. QED BY <1>1

LEMMA NothingPublished ==
  ASSUME NEW cur PROVE AheadOf(EmptyMeta.cursor, cur)
BY DEF AheadOf, EmptyMeta

(* Indexing moves no cursor back.                                          *)
LEMMA IndexingAhead ==
  ASSUME SnapInv, AheadOf(PublishedCursor, cursor), phase = "index",
         NEW n \in Networks, IndexStep(n)
  PROVE  AheadOf(PublishedCursor, cursor')
<1>1. TypeOK /\ Inductive BY DEF SnapInv, Tables, Process, Working
<1>2. PublishedCursor \in [Networks -> Blocks \cup {None}]
  BY PublishedCursorType
<1>3. CASE CommitCursor(n)
  <2>1. /\ pc[n] = "commit" /\ cursor' = [cursor EXCEPT ![n] = to[n]]
        /\ Position(n)
    BY <1>1, <1>3 DEF CommitCursor, Inductive
  <2>2. to[n] \in Nat /\ to[n] # None BY <1>1, BlocksNumbers DEF TypeOK
  <2>3. \A k \in Networks :
          cursor'[k] = IF k = n THEN to[n] ELSE cursor[k]
    BY <1>1, <2>1 DEF TypeOK
  <2>4. ASSUME cursor[n] # None PROVE cursor[n] <= to[n]
    <3>1. PICK c \in Nat : c = cursor[n] BY <1>1, <2>4, BlocksNumbers DEF TypeOK
    <3>2. c + 1 <= to[n]
      BY <2>1, <2>4, <3>1 DEF Position, Active, StartFrom
    <3>3. QED BY <2>2, <3>1, <3>2
  <2>5. ASSUME NEW k \in Networks, PublishedCursor[k] # None
        PROVE  cursor'[k] # None /\ PublishedCursor[k] <= cursor'[k]
    <3>1. cursor[k] # None /\ PublishedCursor[k] <= cursor[k]
      BY <2>5 DEF AheadOf
    <3>2. CASE k # n BY <2>3, <3>1, <3>2
    <3>3. CASE k = n
      <4>1. PICK a \in Nat : a = PublishedCursor[n]
        BY <1>2, <2>5, <3>3, BlocksNumbers
      <4>2. PICK c \in Nat : c = cursor[n]
        BY <1>1, <3>1, <3>3, BlocksNumbers DEF TypeOK
      <4>3. PICK b \in Nat : b = to[n] BY <2>2
      <4>4. a <= c /\ c <= b BY <2>4, <3>1, <3>3, <4>1, <4>2, <4>3
      <4>5. a <= b BY <4>4
      <4>6. QED BY <2>2, <2>3, <3>3, <4>1, <4>3, <4>5
    <3>4. QED BY <3>2, <3>3
  <2>6. QED BY <2>5 DEF AheadOf
<1>4. CASE ~CommitCursor(n)
  <2>1. UNCHANGED cursor
    BY <1>4 DEF IndexStep, Begin, Discover, DiscoverFails, ScanBatch, Skip, db
  <2>2. QED BY <2>1
<1>5. QED BY <1>3, <1>4

(* Steps that leave the cursors of both databases alone.                   *)
LEMMA QuietAhead ==
  ASSUME Ahead, phase # "import",
         UNCHANGED <<runtime, cursor, meta>>
  PROVE  Ahead'
BY DEF Ahead, PublishedCursor

LEMMA AheadStep ==
  ASSUME Losable \subseteq {"runtime"}, "import" \notin CrashPoints,
         SnapInv, Ahead, [SnapshotNext]_allVars
  PROVE  Ahead'
<1>1. CASE Assemble
  <2>1. /\ phase = "down" /\ UNCHANGED <<cursor, meta>>
        /\ phase' # "import" /\ runtime' => runtime
    BY <1>1 DEF Assemble, ProcessEnds, vars, db
  <2>2. QED BY <2>1 DEF Ahead, PublishedCursor
<1>2. CASE StartWithoutMeta
  <2>1. PublishedCursor' = EmptyMeta.cursor
    BY <1>2 DEF StartWithoutMeta, disk, PublishedCursor
  <2>2. QED BY <2>1, NothingPublished DEF Ahead
<1>3. CASE ImportMeta
  <2>1. cursor' = meta.cursor /\ meta # None /\ meta' = meta
    BY <1>3 DEF ImportMeta, disk
  <2>2. PublishedCursor' = PublishedCursor /\ cursor' = PublishedCursor
    BY <2>1 DEF PublishedCursor
  <2>3. QED BY <2>2, PublishedCursorType, AheadRefl DEF Ahead
<1>4. ASSUME NEW c \in Series \X ChunkIds, ImportChunk(c) PROVE Ahead'
  BY <1>4, QuietAhead DEF ImportChunk, disk
<1>5. CASE Check \/ CloseRuntime
  BY <1>5, QuietAhead DEF Check, CloseRuntime, disk, vars, db
<1>6. CASE BeginIndexing \/ EndIndexing
  BY <1>6, QuietAhead
     DEF BeginIndexing, EndIndexing, StartRun, FinishRun, disk, db
<1>7. CASE IndexNetworks
  <2>1. PICK n \in Networks : IndexStep(n) BY <1>7 DEF IndexNetworks
  <2>2. /\ phase = "index" /\ UNCHANGED <<runtime, meta, phase>>
        /\ AheadOf(PublishedCursor, cursor)
    BY <1>7 DEF IndexNetworks, disk, process, Ahead, SnapInv, Process, Started
  <2>3. PublishedCursor' = PublishedCursor BY <2>2 DEF PublishedCursor
  <2>4. AheadOf(PublishedCursor, cursor') BY <2>1, <2>2, IndexingAhead
  <2>5. QED BY <2>3, <2>4 DEF Ahead
<1>8. CASE (\E s \in Series : FlushSeries(s)) \/ FlushChunk \/ SaveManifest
  BY <1>8, QuietAhead DEF FlushSeries, FlushChunk, SaveManifest, vars, db
<1>9. CASE EnsureMeta
  <2>1. meta' = EmptyMeta BY <1>9 DEF EnsureMeta
  <2>2. PublishedCursor' = EmptyMeta.cursor BY <2>1 DEF PublishedCursor
  <2>3. QED BY <2>2, NothingPublished DEF Ahead
<1>10. CASE SyncMeta
  <2>1. /\ meta' = [markets |-> markets, cursor |-> cursor]
        /\ cursor' = cursor
    BY <1>10 DEF SyncMeta, vars, db
  <2>2. PublishedCursor' = cursor \/ PublishedCursor' = EmptyMeta.cursor
    BY <2>1 DEF PublishedCursor
  <2>3. cursor \in [Networks -> Blocks \cup {None}]
    BY DEF SnapInv, Tables, TypeOK
  <2>4. QED BY <2>1, <2>2, <2>3, AheadRefl, NothingPublished DEF Ahead
<1>11. CASE ProcessDies
  BY <1>11, QuietAhead DEF ProcessDies, disk, db
<1>12. CASE LoseRuntime BY <1>12 DEF LoseRuntime, Ahead
<1>13. ASSUME NEW part \in Losable, NEW c \in Series \X ChunkIds,
              LosePart(part, c)
       PROVE  Ahead'
  BY <1>13 DEF LosePart
<1>14. CASE UNCHANGED allVars
  BY <1>14 DEF allVars, vars, db, disk, process, Ahead, PublishedCursor
<1>15. QED
  BY <1>1, <1>2, <1>3, <1>4, <1>5, <1>6, <1>7, <1>8, <1>9, <1>10, <1>11,
     <1>12, <1>13, <1>14
     DEF SnapshotNext, ProcessStep, Environment

(* Only the flush writes files and the manifest, and it leaves the process *)
(* running.                                                                *)
LEMMA PresentStep ==
  ASSUME Orderly, Losable \subseteq {"runtime"},
         SnapInv, PresentOnDisk, [SnapshotNext]_allVars
  PROVE  PresentOnDisk'
<1>1. SnapInv' BY SnapInvStep
<1>2. phase' # "down" => PresentOnDisk'
  BY <1>1 DEF SnapInv, Process, Started, PresentOnDisk
<1>3. UNCHANGED <<files, manifest>> => PresentOnDisk'
  BY DEF PresentOnDisk, LoadedManifest
<1>4. CASE (\E s \in Series : FlushSeries(s)) \/ FlushChunk \/ SaveManifest
  BY <1>2, <1>4 DEF FlushSeries, FlushChunk, SaveManifest
<1>5. CASE \/ Assemble \/ StartWithoutMeta \/ ImportMeta
           \/ \E c \in Series \X ChunkIds : ImportChunk(c)
           \/ Check \/ CloseRuntime
  BY <1>3, <1>5
     DEF Assemble, StartWithoutMeta, ImportMeta, ImportChunk, Check,
         CloseRuntime, disk
<1>6. CASE \/ BeginIndexing \/ IndexNetworks \/ EndIndexing
           \/ EnsureMeta \/ SyncMeta
  BY <1>3, <1>6
     DEF BeginIndexing, IndexNetworks, EndIndexing, EnsureMeta, SyncMeta,
         disk
<1>7. CASE ProcessDies \/ LoseRuntime
  BY <1>3, <1>7 DEF ProcessDies, LoseRuntime, disk
<1>8. ASSUME NEW part \in Losable, NEW c \in Series \X ChunkIds,
             LosePart(part, c)
      PROVE  PresentOnDisk'
  BY <1>8 DEF LosePart
<1>9. CASE UNCHANGED allVars BY <1>3, <1>9 DEF allVars, disk
<1>10. QED
  BY <1>4, <1>5, <1>6, <1>7, <1>8, <1>9
     DEF SnapshotNext, ProcessStep, Environment

PublishedVars == <<chain.active, PublishedUsers, PublishedCursor>>

IndexMoves == PublishedIndex!Next \/ UNCHANGED PublishedVars

(* PublishedRow of all users, in a form that can be primed.                *)
LEMMA PublishedTable ==
  SnapInv /\ PresentOnDisk =>
    \A p \in Pairs :
      /\ Stored(files, LoadedManifest, p) =>
           /\ chain.active[p] # {}
           /\ PublishedUsers[p] = FirstTime(chain, p)
           /\ PublishedUsers[p] # None
      /\ ~Stored(files, LoadedManifest, p) => PublishedUsers[p] = None
BY PublishedRow
   DEF SnapInv, Tables, TypeOK, Disk, DiskOK, PresentOnDisk

(* Users that the next assemble finds in addition are learnt.              *)
LEMMA FlushLearns ==
  ASSUME SnapInv, PresentOnDisk, SnapInv', PresentOnDisk',
         UNCHANGED <<chain, meta>>,
         \A p \in Pairs : Stored(files, LoadedManifest, p)
                            => Stored(files', LoadedManifest', p)
  PROVE  PublishedIndex!Next
<1> DEFINE S == {p \in Pairs : Stored(files', LoadedManifest', p)}
<1>1. \A p \in Pairs :
        /\ Stored(files', LoadedManifest', p) =>
             /\ chain.active[p] # {}
             /\ PublishedUsers'[p] = FirstTime(chain, p)
             /\ PublishedUsers'[p] # None
        /\ ~Stored(files', LoadedManifest', p) => PublishedUsers'[p] = None
  <2>1. (\A p \in Pairs :
           /\ Stored(files, LoadedManifest, p) =>
                /\ chain.active[p] # {}
                /\ PublishedUsers[p] = FirstTime(chain, p)
                /\ PublishedUsers[p] # None
           /\ ~Stored(files, LoadedManifest, p)
                => PublishedUsers[p] = None)'
    BY PublishedTable, PTL
  <2>2. QED BY <2>1
<1>2. \A p \in Pairs : p \notin S => PublishedUsers[p] = None
  BY PublishedTable
<1>3. \A p \in Pairs : PublishedIndex!FirstSeen(p) = FirstTime(chain, p)
  BY DEF PublishedIndex!FirstSeen, FirstTime, TimeAt, Min, PublishedIndex!Min
<1>4. PublishedUsers' = [p \in Pairs |-> PublishedUsers'[p]]
  BY DEF PublishedUsers
<1>5. PublishedUsers' =
        [p \in Pairs |-> IF p \in S THEN PublishedIndex!FirstSeen(p)
                                    ELSE PublishedUsers[p]]
  BY <1>1, <1>2, <1>3, <1>4
<1>6. \A p \in S : chain.active[p] # {} BY <1>1
<1>7. PublishedCursor' = PublishedCursor BY DEF PublishedCursor
<1>8. PublishedIndex!Learn(S)
  BY <1>5, <1>6, <1>7 DEF PublishedIndex!Learn
<1>9. S \in SUBSET Pairs OBVIOUS
<1>10. QED BY <1>8, <1>9 DEF PublishedIndex!Next

(* syncMetaFromRuntime publishes cursors whose users are in the files.     *)
LEMMA SyncAdvances ==
  ASSUME SnapInv, PresentOnDisk, Ahead, SyncMeta
  PROVE  PublishedIndex!Next
<1>1. /\ phase = "sync" /\ UNCHANGED <<chain, files, manifest, cursor>>
      /\ meta' = [markets |-> markets, cursor |-> cursor]
  BY DEF SyncMeta, vars, db
<1>2. /\ TypeOK /\ Inductive
      /\ \A p \in Pairs : users[p] # None => Stored(files, LoadedManifest, p)
      /\ AheadOf(PublishedCursor, cursor)
  BY <1>1 DEF SnapInv, Tables, Process, Working, Syncing, Started, Ahead
<1>3. PublishedCursor' = cursor
  <2>1. meta' \in MetaType BY <1>1, <1>2 DEF MetaType, TypeOK
  <2>2. meta' # None BY <2>1, SnapshotAssumption DEF MetaType
  <2>3. QED BY <1>1, <2>2 DEF PublishedCursor
<1>4. /\ cursor \in [Networks -> Blocks \cup {None}]
      /\ PublishedCursor \in [Networks -> Blocks \cup {None}]
  BY <1>2, PublishedCursorType DEF TypeOK
<1>5. PublishedUsers' = PublishedUsers
  BY <1>1 DEF PublishedUsers, Published, LoadedManifest, FileOf
<1>6. ASSUME NEW n \in Networks, cursor[n] # PublishedCursor[n]
      PROVE  /\ cursor[n] # None
             /\ PublishedCursor[n] # None => PublishedCursor[n] < cursor[n]
  <2>1. CASE PublishedCursor[n] = None BY <1>6, <2>1
  <2>2. CASE PublishedCursor[n] # None
    <3>1. cursor[n] # None /\ PublishedCursor[n] <= cursor[n]
      BY <1>2, <2>2 DEF AheadOf
    <3>2. PICK a \in Nat : a = PublishedCursor[n]
      BY <1>4, <2>2, BlocksNumbers
    <3>3. PICK c \in Nat : c = cursor[n] BY <1>4, <3>1, BlocksNumbers
    <3>4. a < c BY <1>6, <3>1, <3>2, <3>3
    <3>5. QED BY <3>1, <3>2, <3>3, <3>4
  <2>3. QED BY <2>1, <2>2
<1>7. ASSUME NEW n \in Networks, cursor[n] # PublishedCursor[n],
             NEW p \in Pairs, NetworkOf[p[1]] = n,
             NEW x \in chain.active[p], x <= cursor[n]
      PROVE  PublishedUsers[p] # None
  <2>1. cursor[n] # None BY <1>6, <1>7
  <2>2. p \in PairsOf(n) BY <1>7 DEF PairsOf
  <2>3. users[p] # None
    BY <1>2, <1>7, <2>1, <2>2, InductiveComplete DEF IndexComplete
  <2>4. QED BY <1>2, <2>3, PublishedTable
<1>8. PublishedIndex!Advance(cursor)
  BY <1>1, <1>3, <1>5, <1>6, <1>7 DEF PublishedIndex!Advance
<1>9. QED BY <1>4, <1>8 DEF PublishedIndex!Next

LEMMA QuietIndex ==
  ASSUME UNCHANGED <<chain, files, manifest, meta>> PROVE IndexMoves
<1>1. PublishedUsers' = PublishedUsers
  BY DEF PublishedUsers, Published, LoadedManifest, FileOf
<1>2. PublishedCursor' = PublishedCursor BY DEF PublishedCursor
<1>3. QED BY <1>1, <1>2 DEF IndexMoves, PublishedVars

LEMMA PublishedStep ==
  ASSUME Orderly, Losable \subseteq {"runtime"},
         SnapInv, PresentOnDisk, Ahead, [SnapshotNext]_allVars
  PROVE  IndexMoves
<1>1. SnapInv' /\ PresentOnDisk' BY SnapInvStep, PresentStep
<1>2. /\ IsManifest(LoadedManifest) /\ Present(files, LoadedManifest)
      /\ \A s \in Series : Len(LoadedManifest[s].chunks)
                             <= Len(LoadedManifest[s].chunks)
  BY SameLengths DEF SnapInv, Disk, DiskOK, PresentOnDisk
<1>3. CASE \/ Assemble \/ StartWithoutMeta \/ ImportMeta
           \/ \E c \in Series \X ChunkIds : ImportChunk(c)
           \/ Check \/ CloseRuntime
  BY <1>3, QuietIndex
     DEF Assemble, StartWithoutMeta, ImportMeta, ImportChunk, Check,
         CloseRuntime, disk, vars
<1>4. CASE BeginIndexing \/ IndexNetworks \/ EndIndexing
  <2>1. UNCHANGED <<files, manifest, meta>>
    BY <1>4 DEF BeginIndexing, IndexNetworks, EndIndexing, disk
  <2>2. UNCHANGED chain
    BY <1>4
       DEF BeginIndexing, IndexNetworks, EndIndexing, StartRun, FinishRun,
           IndexStep, Begin, Discover, DiscoverFails, ScanBatch,
           CommitCursor, Skip
  <2>3. QED BY <2>1, <2>2, QuietIndex
<1>5. CASE (\E s \in Series : FlushSeries(s)) \/ FlushChunk
  <2>1. /\ Grows(files, files')
        /\ UNCHANGED <<chain, manifest, meta>>
    BY <1>5, FlushSeriesKeeps, FlushChunkKeeps
       DEF FlushSeries, FlushChunk, vars
  <2>2. LoadedManifest' = LoadedManifest BY <2>1 DEF LoadedManifest
  <2>3. \A p \in Pairs : Stored(files, LoadedManifest, p)
                           => Stored(files', LoadedManifest', p)
    BY <1>2, <2>1, <2>2, StoredGrows
  <2>4. QED BY <1>1, <2>1, <2>3, FlushLearns DEF IndexMoves
<1>6. CASE SaveManifest
  <2>1. /\ LoadedManifest' = declared /\ UNCHANGED <<chain, files, meta>>
        /\ \A p \in Pairs : Stored(files, LoadedManifest, p)
                              => Stored(files, declared, p)
    BY <1>6, SaveManifestKeeps DEF SaveManifest, vars
  <2>2. \A p \in Pairs : Stored(files, LoadedManifest, p)
                           => Stored(files', LoadedManifest', p)
    BY <2>1
  <2>3. QED BY <1>1, <2>1, <2>2, FlushLearns DEF IndexMoves
<1>7. CASE EnsureMeta
  <2>1. /\ meta = None /\ meta' = EmptyMeta
        /\ UNCHANGED <<chain, files, manifest>>
    BY <1>7 DEF EnsureMeta, vars
  <2>2. PublishedUsers' = PublishedUsers
    BY <2>1 DEF PublishedUsers, Published, LoadedManifest, FileOf
  <2>3. PublishedCursor' = PublishedCursor BY <2>1 DEF PublishedCursor
  <2>4. QED BY <2>1, <2>2, <2>3 DEF IndexMoves, PublishedVars
<1>8. CASE SyncMeta BY <1>8, SyncAdvances DEF IndexMoves
<1>9. CASE ProcessDies \/ LoseRuntime
  BY <1>9, QuietIndex DEF ProcessDies, LoseRuntime, disk
<1>10. ASSUME NEW part \in Losable, NEW c \in Series \X ChunkIds,
              LosePart(part, c)
       PROVE  IndexMoves
  BY <1>10 DEF LosePart
<1>11. CASE UNCHANGED allVars
  BY <1>11, QuietIndex DEF allVars, vars, disk
<1>12. QED
  BY <1>3, <1>4, <1>5, <1>6, <1>7, <1>8, <1>9, <1>10, <1>11
     DEF SnapshotNext, ProcessStep, Environment

(* Chunk files, manifest and meta.sqlite together implement the abstract   *)
(* index as the runtime database does: rows appear with the time of the    *)
(* first activity and are never taken back, cursors only move forward and  *)
(* only over complete blocks, in every state between two commits, although *)
(* the three are written one after the other and by processes that may die *)
(* while they index or flush and lose the runtime database.                *)
THEOREM PublishedRefines ==
  ASSUME Orderly, Losable \subseteq {"runtime"}, "import" \notin CrashPoints
  PROVE  SnapshotSpec => SnapshotImplementsIndex
<1>1. SnapshotInit => PresentOnDisk /\ Ahead /\ PublishedIndex!Init
  <2> SUFFICES ASSUME SnapshotInit
               PROVE  PresentOnDisk /\ Ahead /\ PublishedIndex!Init
    OBVIOUS
  <2>1. LoadedManifest = EmptyManifest /\ PublishedCursor = EmptyMeta.cursor
    BY DEF SnapshotInit, LoadedManifest, PublishedCursor
  <2>2. PresentOnDisk BY <2>1, EmptyIsManifest DEF PresentOnDisk, Present
  <2>3. Ahead BY DEF SnapshotInit, Ahead
  <2>4. SnapInv BY SnapInvInit DEF Orderly
  <2>5. \A p \in Pairs : ~Stored(files, LoadedManifest, p)
    BY <2>1, EmptyIsManifest, SeriesOfPair DEF Stored
  <2>6. \A p \in Pairs : PublishedUsers[p] = None
    BY <2>2, <2>4, <2>5, PublishedTable
  <2>7. PublishedUsers = [p \in Pairs |-> PublishedUsers[p]]
    BY DEF PublishedUsers
  <2>8. PublishedUsers = [p \in Pairs |-> None] BY <2>6, <2>7
  <2>9. PublishedCursor = [n \in Networks |-> None]
    BY <2>1 DEF EmptyMeta
  <2>10. chain \in Chains BY DEF SnapshotInit, Init
  <2>11. PublishedIndex!Init
    BY <2>8, <2>9, <2>10 DEF PublishedIndex!Init
  <2>12. QED BY <2>2, <2>3, <2>11
<1>2. SnapInv /\ PresentOnDisk /\ Ahead /\ [SnapshotNext]_allVars
        => (PresentOnDisk /\ Ahead)'
  BY PresentStep, AheadStep
<1>3. SnapInv /\ PresentOnDisk /\ Ahead /\ [SnapshotNext]_allVars
        => [PublishedIndex!Next]_<<chain.active, PublishedUsers,
                                   PublishedCursor>>
  BY PublishedStep DEF IndexMoves, PublishedVars
<1>4. QED
  BY <1>1, <1>2, <1>3, SnapshotInvariant, PTL
     DEF SnapshotSpec, SnapshotImplementsIndex, PublishedIndex!Spec
=============================================================================
