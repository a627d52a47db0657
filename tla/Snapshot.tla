------------------------------ MODULE Snapshot ------------------------------
(***************************************************************************)
(* RuntimeDbService, ChunksService and ManifestsService around the indexer *)
(* of module Indexer.  The snapshot kept in the repository is three things *)
(* on disk: chunk files with user rows, one series of files per network    *)
(* and version; manifest.json, which declares them; meta.sqlite with the   *)
(* markets and the cursors.  A process assembles the runtime database      *)
(* from the snapshot if there is none, checks it, indexes into it, and     *)
(* flushes the new rows back: chunk files first, then the manifest, then   *)
(* meta.                                                                   *)
(*                                                                         *)
(* The process may die between any two commits; the runtime database stays *)
(* (a developer's machine) or is lost (a fresh CI runner); a checkout of   *)
(* the snapshot may arrive without one of its parts.                       *)
(*                                                                         *)
(* Abstractions: a chunk file is its set of rows <<pair, created_at>>, and *)
(* files are numbered from 1.  Rows of another series in a file and names  *)
(* that leave the directory cannot come from this program and are not      *)
(* modelled; neither is the check in the flush for decreasing times, which *)
(* its ORDER BY keeps from ever failing.                                   *)
(***************************************************************************)
EXTENDS Indexer, Sequences

CONSTANTS
  ChunkRows,        (* chunkRows of the manifest                           *)
  MaxChunks,        (* bound on the files of a series                      *)
  ColdStartAllowed, (* ALLOW_COLD_START=1                                  *)
  Losable,          (* what may be missing on disk when a process starts   *)
  CrashPoints       (* phases in which the process may die                 *)

Series == {<<NetworkOf[m], VersionOf[m]>> : m \in Markets}

ASSUME SnapshotAssumption ==
  /\ ChunkRows \in Nat \ {0} /\ MaxChunks \in Nat \ {0}
  /\ ColdStartAllowed \in BOOLEAN
  /\ Losable \subseteq {"runtime", "meta", "manifest", "chunk"}
  /\ IsFiniteSet(Users)
  /\ None \notin Series
  /\ \A rows \in SUBSET (Pairs \X {Timestamp[n][b] : n \in Networks,
                                                 b \in Blocks}) :
       rows # None
  /\ None \notin [Series -> [last : Nat,
                             chunks : Seq([rows : Nat, end : Nat])]]
  /\ None \notin [markets : [Markets -> Blocks \cup {None}],
                  cursor  : [Networks -> Blocks \cup {None}]]

VARIABLES
  runtime,      (* the runtime database file exists; its tables are users, *)
                (* markets and cursor of Indexer                           *)
  files,        (* files[s][i]: rows of chunk file i of series s, or None  *)
  manifest,     (* manifest.json, or None                                  *)
  meta,         (* tables of meta.sqlite, or None                          *)
  phase,        (* what the process is doing, "down" if there is none      *)
  declared,     (* the manifest in memory                                  *)
  pending,      (* chunk files still to import                             *)
  left,         (* series still to flush                                   *)
  open,         (* series being flushed, or None                           *)
  queue         (* its rows still to insert                                *)

disk    == <<runtime, files, manifest, meta>>
process == <<phase, declared, pending, left, open, queue>>
allVars == <<vars, disk, process>>

Phases == {"down", "import", "users", "check", "ready", "index", "flush",
           "sync"}

ChunkIds == 1 .. MaxChunks
SeriesOf(p) == <<NetworkOf[p[1]], VersionOf[p[1]]>>

EmptyManifest == [s \in Series |-> [last |-> 0, chunks |-> <<>>]]
EmptyMeta == [markets |-> [m \in Markets |-> None],
              cursor  |-> [n \in Networks |-> None]]

Times(rows) == {r[2] : r \in rows}
PairsIn(rows) == {r[1] : r \in rows}

(* Chunks <<series, number>> that a manifest declares.                     *)
DeclaredIn(man) ==
  {c \in Series \X ChunkIds : c[2] \in DOMAIN man[c[1]].chunks}

FileOf(c) == files[c[1]][c[2]]

SnapshotInit ==
  /\ Init
  /\ runtime = FALSE
  /\ files = [s \in Series |-> [i \in ChunkIds |-> None]]
  /\ manifest = None
  /\ meta = None
  /\ phase = "down"
  /\ declared = EmptyManifest
  /\ pending = {}
  /\ left = {}
  /\ open = None
  /\ queue = <<>>

ProcessEnds ==
  /\ phase' = "down"
  /\ declared' = EmptyManifest
  /\ pending' = {}
  /\ left' = {}
  /\ open' = None
  /\ queue' = <<>>

-----------------------------------------------------------------------------
(* Assembling the runtime database.                                        *)

LoadedManifest == IF manifest = None THEN EmptyManifest ELSE manifest

(* validateManifestChunks: every declared file is there and has the rows   *)
(* and the last time the manifest says.                                    *)
ChunksValid(man) ==
  \A c \in DeclaredIn(man) :
    LET info == man[c[1]].chunks[c[2]] IN
    /\ FileOf(c) # None
    /\ Cardinality(FileOf(c)) = info.rows
    /\ info.rows > 0 => Max(Times(FileOf(c))) = info.end

(* assemble(): load, validate, and reuse the runtime database or create    *)
(* an empty one.                                                           *)
Assemble ==
  /\ phase = "down"
  /\ IF ChunksValid(LoadedManifest)
     THEN /\ declared' = LoadedManifest
          /\ runtime' = TRUE
          /\ phase' = IF runtime THEN "check" ELSE "import"
          /\ UNCHANGED <<pending, left, open, queue>>
     ELSE /\ ProcessEnds
          /\ UNCHANGED runtime
  /\ UNCHANGED <<vars, files, manifest, meta>>

HasChunks ==
  \/ DeclaredIn(declared) # {}
  \/ \E c \in Series \X ChunkIds : FileOf(c) # None

(* assembleRuntime without meta.sqlite: refused, unless there is nothing   *)
(* at all and a cold start was asked for.                                  *)
StartWithoutMeta ==
  /\ phase = "import"
  /\ meta = None
  /\ IF ~HasChunks /\ ColdStartAllowed
     THEN /\ phase' = "check"
          /\ UNCHANGED <<declared, pending, left, open, queue>>
     ELSE ProcessEnds
  /\ UNCHANGED <<vars, disk>>

(* assembleRuntime with meta.sqlite: its tables are copied in one          *)
(* transaction; without any cursor the process ends after that.            *)
ImportMeta ==
  /\ phase = "import"
  /\ meta # None
  /\ markets' = meta.markets
  /\ cursor' = meta.cursor
  /\ IF \A n \in Networks : meta.cursor[n] = None
     THEN ProcessEnds
     ELSE /\ pending' = {c \in DeclaredIn(declared) : FileOf(c) # None}
          /\ phase' = IF pending' = {} THEN "check" ELSE "users"
          /\ UNCHANGED <<declared, left, open, queue>>
  /\ UNCHANGED <<chain, users, local, disk>>

(* One declared chunk is imported; rows already there stay.                *)
ImportChunk(c) ==
  /\ phase = "users"
  /\ c \in pending
  /\ \A d \in pending : d[1] = c[1] => c[2] <= d[2]
  /\ users' =
       [p \in Pairs |->
          IF users[p] = None /\ p \in PairsIn(FileOf(c))
          THEN (CHOOSE r \in FileOf(c) : r[1] = p)[2] ELSE users[p]]
  /\ pending' = pending \ {c}
  /\ phase' = IF pending' = {} THEN "check" ELSE "users"
  /\ UNCHANGED <<chain, markets, cursor, local, disk, declared, left, open, queue>>

(* Mutant of Check: a runtime database is taken as it is.                  *)
CheckNothing ==
  /\ phase = "check"
  /\ phase' = "ready"
  /\ UNCHANGED <<vars, disk, declared, pending, left, open, queue>>

(* assertRuntimeContainsManifestUsers.                                     *)
Check ==
  /\ phase = "check"
  /\ IF \A c \in DeclaredIn(declared) :
          \A p \in PairsIn(FileOf(c)) : users[p] # None
     THEN /\ phase' = "ready"
          /\ UNCHANGED <<declared, pending, left, open, queue>>
     ELSE ProcessEnds
  /\ UNCHANGED <<vars, disk>>

(* The owes and rewards commands only read, then closeRuntime().           *)
CloseRuntime ==
  /\ phase = "ready"
  /\ ProcessEnds
  /\ UNCHANGED <<vars, disk>>

-----------------------------------------------------------------------------
(* IndexerService.run between assemble() and flush().                      *)

(* The index command starts its workers.                                   *)
BeginIndexing ==
  /\ phase = "ready"
  /\ StartRun
  /\ phase' = "index"
  /\ UNCHANGED <<disk, declared, pending, left, open, queue>>

(* A worker moves its network one step.                                    *)
IndexNetworks ==
  /\ phase = "index"
  /\ \E n \in Networks : IndexStep(n)
  /\ UNCHANGED <<disk, process>>

(* Mutant of EndIndexing: the workers are not awaited.                     *)
EndWithoutAwait ==
  /\ phase = "index"
  /\ phase' = "flush"
  /\ left' = {s \in Series : \E p \in Pairs : SeriesOf(p) = s /\ users[p] # None}
  /\ UNCHANGED <<vars, disk, declared, pending, open, queue>>

(* Mutant of EndIndexing: meta is written before the chunks.               *)
EndWithoutFlush ==
  /\ phase = "index"
  /\ FinishRun
  /\ phase' = "sync"
  /\ UNCHANGED <<disk, declared, pending, left, open, queue>>

(* All workers have ended; the series with users are to be flushed.        *)
EndIndexing ==
  /\ phase = "index"
  /\ FinishRun
  /\ phase' = "flush"
  /\ left' = {s \in Series : \E p \in Pairs : SeriesOf(p) = s /\ users[p] # None}
  /\ UNCHANGED <<disk, declared, pending, open, queue>>

-----------------------------------------------------------------------------
(* Flushing.                                                               *)

(* Mutant of NewRows: the row right after the watermark is skipped.        *)
NewRowsSkipOne(s) ==
  {<<p, users[p]>> : p \in {q \in Pairs : /\ SeriesOf(q) = s
                                          /\ users[q] # None
                                          /\ users[q] > declared[s].last + 1}}

(* Rows of a series later than its watermark.                              *)
NewRows(s) ==
  {<<p, users[p]>> : p \in {q \in Pairs : /\ SeriesOf(q) = s
                                          /\ users[q] # None
                                          /\ users[q] > declared[s].last}}

(* Mutant of InOrder: the rows come in the opposite order.                 *)
InOrderDescending(rows) ==
  CHOOSE q \in [1 .. Cardinality(rows) -> rows] :
    \A i, j \in DOMAIN q : i < j => q[i] # q[j] /\ q[i][2] >= q[j][2]

(* ORDER BY created_at; ties in any fixed order.                           *)
InOrder(rows) ==
  CHOOSE q \in [1 .. Cardinality(rows) -> rows] :
    \A i, j \in DOMAIN q : i < j => q[i] # q[j] /\ q[i][2] <= q[j][2]

(* openChunkDb creates the file if it is not there.                        *)
Opened(s, i) == [files EXCEPT ![s][i] = IF @ = None THEN {} ELSE @]

(* The rows to flush are read and the active chunk is opened.              *)
FlushSeries(s) ==
  /\ phase = "flush"
  /\ open = None
  /\ s \in left
  /\ IF NewRows(s) = {}
     THEN /\ left' = left \ {s}
          /\ UNCHANGED <<files, declared, open, queue>>
     ELSE LET chunks == declared[s].chunks
              active == IF chunks = <<>> THEN <<[rows |-> 0, end |-> 0]>>
                                         ELSE chunks IN
          /\ declared' = [declared EXCEPT ![s].chunks = active]
          /\ files' = Opened(s, Len(active))
          /\ open' = s
          /\ queue' = InOrder(NewRows(s))
          /\ UNCHANGED left
  /\ UNCHANGED <<vars, runtime, manifest, meta, phase, pending>>

(* Rows are inserted, unless the file has them, until the chunk is full or *)
(* no row is left; then they are committed.  A full chunk is followed by a *)
(* new one at once.  The manifest in memory counts the rows inserted.      *)
(* (MaxChunks bounds the files: the code has no such limit.)               *)
FlushChunk ==
  /\ phase = "flush"
  /\ open # None
  /\ LET s     == open
         i     == Len(declared[s].chunks)
         info  == declared[s].chunks[i]
         file  == files[s][i]
         new(k) == {queue[j] : j \in {x \in 1 .. k :
                                        queue[x][1] \notin PairsIn(file)}}
         full  == {k \in 1 .. Len(queue) :
                     info.rows + Cardinality(new(k)) >= ChunkRows}
         k     == IF full = {} THEN Len(queue) ELSE Min(full)
         last  == queue[k][2]
         done  == [rows |-> info.rows + Cardinality(new(k)), end |-> last]
         rest  == SubSeq(queue, k + 1, Len(queue))
         chunks == [declared[s].chunks EXCEPT ![i] = done]
         written == [files EXCEPT ![s][i] = @ \cup new(k)] IN
     /\ full # {} => i < MaxChunks
     /\ declared' = [declared EXCEPT ![s] =
          [last   |-> last,
           chunks |-> IF full = {} THEN chunks
                      ELSE Append(chunks, [rows |-> 0, end |-> last])]]
     /\ files' = IF full = {} THEN written
                 ELSE [written EXCEPT ![s][i + 1] = IF @ = None THEN {} ELSE @]
     /\ queue' = rest
     /\ open' = IF rest = <<>> THEN None ELSE s
     /\ left' = IF rest = <<>> THEN left \ {s} ELSE left
  /\ UNCHANGED <<vars, runtime, manifest, meta, phase, pending>>

(* ManifestsService.save: a temporary file and a rename.                   *)
SaveManifest ==
  /\ phase = "flush"
  /\ left = {}
  /\ manifest' = declared
  /\ phase' = "sync"
  /\ UNCHANGED <<vars, runtime, files, meta, declared, pending, left, open, queue>>

(* ensureMetaSchema: the file with empty tables, if there is none.         *)
EnsureMeta ==
  /\ phase = "sync"
  /\ meta = None
  /\ meta' = EmptyMeta
  /\ UNCHANGED <<vars, runtime, files, manifest, process>>

(* syncMetaFromRuntime replaces both tables in one transaction; flush()    *)
(* closes the runtime database and the command ends.                       *)
SyncMeta ==
  /\ phase = "sync"
  /\ meta # None
  /\ meta' = [markets |-> markets, cursor |-> cursor]
  /\ ProcessEnds
  /\ UNCHANGED <<vars, runtime, files, manifest>>

-----------------------------------------------------------------------------
(* The environment.                                                        *)

(* The process is killed: what was committed stays.                        *)
ProcessDies ==
  /\ phase \in CrashPoints \ {"down"}
  /\ ProcessEnds
  /\ RunVariablesReset
  /\ UNCHANGED <<chain, db, disk>>

(* The next process finds no runtime database.                             *)
LoseRuntime ==
  /\ "runtime" \in Losable /\ phase = "down" /\ runtime
  /\ runtime' = FALSE
  /\ users' = [p \in Pairs |-> None]
  /\ markets' = [m \in Markets |-> None]
  /\ cursor' = [n \in Networks |-> None]
  /\ UNCHANGED <<chain, local, files, manifest, meta, process>>

(* The checkout of the snapshot arrives without one of its parts; c is the *)
(* chunk if it is a chunk.                                                 *)
LosePart(part, c) ==
  /\ part \in Losable \ {"runtime"} /\ phase = "down"
  /\ meta' = IF part = "meta" THEN None ELSE meta
  /\ manifest' = IF part = "manifest" THEN None ELSE manifest
  /\ files' = IF part = "chunk" THEN [files EXCEPT ![c[1]][c[2]] = None]
                                ELSE files
  /\ UNCHANGED <<vars, runtime, process>>

-----------------------------------------------------------------------------

ProcessStep ==
  \/ Assemble \/ StartWithoutMeta \/ ImportMeta
  \/ \E c \in Series \X ChunkIds : ImportChunk(c)
  \/ Check
  \/ BeginIndexing \/ IndexNetworks \/ EndIndexing
  \/ \E s \in Series : FlushSeries(s)
  \/ FlushChunk \/ SaveManifest \/ EnsureMeta \/ SyncMeta

Environment ==
  \/ ProcessDies \/ LoseRuntime
  \/ \E part \in Losable, c \in Series \X ChunkIds : LosePart(part, c)

SnapshotNext == ProcessStep \/ CloseRuntime \/ Environment

SnapshotSpec == SnapshotInit /\ [][SnapshotNext]_allVars

-----------------------------------------------------------------------------

(* Types of the variables.                                                 *)
SnapshotTypeOK ==
  /\ TypeOK
  /\ runtime \in BOOLEAN
  /\ \A s \in Series, i \in ChunkIds :
       files[s][i] = None \/ files[s][i] \subseteq Pairs \X Nat
  /\ phase \in Phases
  /\ pending \subseteq Series \X ChunkIds
  /\ left \subseteq Series
  /\ open \in Series \cup {None}
  /\ phase # "index" => Idle

Published == DeclaredIn(LoadedManifest)

(* Rows of the snapshot as the next assemble would import them.            *)
PublishedUsers ==
  [p \in Pairs |->
     LET rows == {r \in UNION {FileOf(c) : c \in {d \in Published :
                                                   FileOf(d) # None}} :
                    r[1] = p} IN
     IF rows = {} THEN None ELSE Min(Times(rows))]

PublishedCursor == IF meta = None THEN EmptyMeta.cursor ELSE meta.cursor

(* The cursors of meta.sqlite vouch for the chunk files: a user active up  *)
(* to the published cursor is in a declared chunk, so nobody is lost when  *)
(* the runtime database is thrown away, unless a declared file is missing, *)
(* which assemble notices.                                                 *)
SnapshotComplete ==
  (\A c \in Published : FileOf(c) # None) =>
    \A n \in Networks, p \in Pairs :
      p \in PairsOf(n) /\ PublishedCursor[n] # None
        /\ (\E b \in chain.active[p] : b <= PublishedCursor[n])
      => PublishedUsers[p] # None

(* A runtime database that passed the checks is complete behind its        *)
(* cursors, however often it was lost, rebuilt or half rebuilt before.     *)
RuntimeComplete ==
  phase \in {"ready", "index", "flush", "sync"} => IndexComplete

(* The declared chunks match the manifest whenever no process runs: the    *)
(* next assemble will not reject the snapshot.                             *)
SnapshotValid == phase = "down" => ChunksValid(LoadedManifest)

(* What the snapshot publishes implements the abstract index too.          *)
PublishedIndex == INSTANCE UserIndex WITH
                    activity <- chain.active,
                    Activity <- {c.active : c \in Chains},
                    users <- PublishedUsers,
                    cursor <- PublishedCursor

SnapshotImplementsIndex == PublishedIndex!Spec
=============================================================================
