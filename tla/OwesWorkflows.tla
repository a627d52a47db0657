---------------------------- MODULE OwesWorkflows ----------------------------
(***************************************************************************)
(* The scheduled workflow update-owes.yml and the manual ones              *)
(* run-owes-v3.yml and run-indexing.yml.  Each has a concurrency group of  *)
(* its own: runs of different workflows overlap, and a new run of one      *)
(* cancels its old run, wherever that is.                                  *)
(*                                                                         *)
(* A run works on a checkout of two repositories: the org repository has   *)
(* ranges.json and owes-v3.json, the artifacts repository the storage of   *)
(* the index.  The outputs go back in two pushes, first to the org         *)
(* repository, where a conflict fails the run, then to the artifacts       *)
(* repository, where what is there already wins.                           *)
(*                                                                         *)
(* The index is abstracted to its cursors: Indexer shows that all users up *)
(* to a cursor are known.  Owes are abstracted to the block they are of    *)
(* and the cursor of the index they were made from; two that differ in     *)
(* either are taken to differ in content.  A storage is merged as one      *)
(* file.  Nobody edits ranges.json by hand.                                *)
(***************************************************************************)
EXTENDS Ranges

CONSTANTS
  StartFile,   (* the entries of ranges.json at the start                  *)
  LastBlock,   (* bound on the heads of the chains                         *)
  MayBeEmpty   (* the storage may fail to arrive                           *)

Workflows == {"update", "owes", "index"}

(* The cursor of a network without an index.                               *)
NoCursor == -1
NoIndex  == [n \in Networks |-> NoCursor]

ASSUME WorkflowsAssumption ==
  /\ StartFile \in [Networks -> Entry]
  /\ \A n \in Networks : ValidEntry(3, StartFile[n])
  /\ LastBlock \in Nat
  /\ MayBeEmpty \in BOOLEAN

VARIABLES
  head,      (* heads of the chains                                        *)
  org,       (* ranges.json and owes-v3.json of the org repository         *)
  artifacts, (* cursors in the storage of the artifacts repository         *)
  job,       (* the last run of each workflow                              *)
  faulty,    (* history: networks at fault in the last run of update that  *)
             (* pushed: skipped, or cut short by a lagging node            *)
  unsettled, (* history: update has pushed the ranges, and the storage     *)
             (* that goes with them is not, or not yet, in place           *)
  excused,   (* history: networks at fault when the published owes were    *)
             (* made                                                       *)
  between    (* history: the published owes were made from a storage that  *)
             (* run-owes-v3 had fetched while it was unsettled             *)

history == <<faulty, unsettled, excused, between>>
vars == <<head, org, artifacts, job, history>>

OwesOf(file, cursors) ==
  [n \in Networks |-> [block |-> file[n].end, cursor |-> cursors[n]]]

(* A run after the checkout of the org repository: its working copies,     *)
(* what they were then, whether the index command left a runtime database, *)
(* and history.                                                            *)
Run(step, repository) ==
  [step |-> step, base |-> repository,
   file |-> repository.ranges, owes |-> repository.owes,
   fetched |-> NoIndex, storage |-> NoIndex, runtime |-> FALSE,
   excuse |-> {}, early |-> FALSE]

(* Nothing is left of a run that has ended.                                *)
Ended == Run("ended", [ranges |-> StartFile, owes |-> OwesOf(StartFile, NoIndex)])

Init ==
  /\ head = [n \in Networks |-> StartFile[n].end + ReorgWindow[n]]
  /\ artifacts = [n \in Networks |-> StartFile[n].end]
  /\ org = [ranges |-> StartFile, owes |-> OwesOf(StartFile, artifacts)]
  /\ job = [w \in Workflows |-> Ended]
  /\ faulty = {} /\ unsettled = FALSE
  /\ excused = {} /\ between = FALSE

(* What the nodes may answer when they are asked for the heads.            *)
Answers ==
  {a \in [Networks -> (0 .. LastBlock) \cup {Unanswered}] :
     \A n \in Networks : a[n] = Unanswered \/ a[n] <= head[n]}

Mine(n) ==
  /\ head[n] < LastBlock
  /\ head' = [head EXCEPT ![n] = @ + 1]
  /\ UNCHANGED <<org, artifacts, job, history>>

-----------------------------------------------------------------------------

(* A run starts, and ends the one before it.                               *)
Checkout(w) ==
  /\ job' = [job EXCEPT ![w] = Run("fetch", org)]
  /\ UNCHANGED <<head, org, artifacts, history>>

(* Mutant of After: the ranges are refreshed after the index.              *)
AfterSwapped(w, step) ==
  CASE w = "update" /\ step = "fetch"    -> "index"
    [] w = "update" /\ step = "index"    -> "refresh"
    [] w = "update" /\ step = "refresh"  -> "generate"
    [] w = "update" /\ step = "push"     -> "push storage"
    [] w = "owes"   /\ step = "fetch"    -> "generate"
    [] w = "index"  /\ step = "fetch"    -> "index"
    [] w = "index"  /\ step = "index"    -> "push storage"
    [] step = "generate"                 -> "push"

(* The step that follows each step of the workflow files.                  *)
After(w, step) ==
  CASE w = "update" /\ step = "fetch"    -> "refresh"
    [] w = "update" /\ step = "refresh"  -> "index"
    [] w = "update" /\ step = "index"    -> "generate"
    [] w = "update" /\ step = "push"     -> "push storage"
    [] w = "owes"   /\ step = "fetch"    -> "generate"
    [] w = "index"  /\ step = "fetch"    -> "index"
    [] w = "index"  /\ step = "index"    -> "push storage"
    [] step = "generate"                 -> "push"

(* The storage is overlaid; it may have come back empty.                   *)
Fetch(w) ==
  /\ job[w].step = "fetch"
  /\ \E s \in {artifacts} \cup (IF MayBeEmpty THEN {NoIndex} ELSE {}) :
       job' = [job EXCEPT ![w] = [@ EXCEPT !.step = After(w, "fetch"), !.fetched = s,
                                           !.storage = s, !.excuse = faulty,
                                           !.early = unsettled]]
  /\ UNCHANGED <<head, org, artifacts, history>>

Refresh(w) ==
  /\ job[w].step = "refresh"
  /\ \E answers \in Answers :
       /\ CanUpdate(job[w].file, answers, FALSE)
       /\ job' = [job EXCEPT ![w] =
                     [@ EXCEPT !.step = After(w, "refresh"),
                               !.file = Updated(job[w].file, answers, FALSE)]]
  /\ UNCHANGED <<head, org, artifacts, history>>

(* The index command goes to the finalized heads and exits with 0 whatever *)
(* happens: a network that fails is skipped somewhere on the way, a node   *)
(* that lags ends it early, a missing snapshot is refused and an empty     *)
(* runtime database left behind.                                           *)
Target(n, cursor) ==
  IF Finalized(n, head[n]) > cursor THEN Finalized(n, head[n]) ELSE cursor

Indexed(had, skipped, has) ==
  IF had = NoIndex
  THEN has = NoIndex /\ skipped = Networks
  ELSE \A n \in Networks :
         has[n] \in (IF n \in skipped THEN had[n] ELSE Target(n, had[n]))
                     .. Target(n, had[n])

Index(w) ==
  /\ job[w].step = "index"
  /\ \E skipped \in SUBSET Networks, has \in [Networks -> NoCursor .. LastBlock] :
       /\ Indexed(job[w].storage, skipped, has)
       /\ job' = [job EXCEPT ![w] = [@ EXCEPT !.step = After(w, "index"), !.storage = has,
                                              !.runtime = TRUE, !.excuse = skipped,
                                              !.early = FALSE]]
  /\ UNCHANGED <<head, org, artifacts, history>>

(* owes:generate-v3 loads the ranges, and puts the runtime database        *)
(* together unless there is one; it does not look at the cursors.          *)
Generate(w) ==
  /\ job[w].step = "generate"
  /\ job[w].runtime \/ job[w].storage # NoIndex
  /\ \E answers \in Answers : Loads(3, job[w].file, answers)
  /\ job' = [job EXCEPT ![w] = [@ EXCEPT !.step = After(w, "generate"),
                                         !.owes = OwesOf(job[w].file, job[w].storage)]]
  /\ UNCHANGED <<head, org, artifacts, history>>

(* Mutant of NoConflict: the later push wins.                              *)
NeverConflict(base, mine, theirs) == TRUE

(* git pull --rebase of one file.                                          *)
NoConflict(base, mine, theirs) == mine = base \/ theirs = base \/ mine = theirs
Merged(base, mine, theirs) == IF mine = base THEN theirs ELSE mine

(* Commit & Push org outputs; run-owes-v3 adds owes-v3.json alone.         *)
Push(w) ==
  LET run == job[w] IN
  /\ run.step = "push"
  /\ NoConflict(run.base.ranges, run.file, org.ranges)
  /\ NoConflict(run.base.owes, run.owes, org.owes)
  /\ org' = [ranges |-> Merged(run.base.ranges, run.file, org.ranges),
             owes   |-> Merged(run.base.owes, run.owes, org.owes)]
  /\ excused' = IF run.owes = run.base.owes THEN excused ELSE run.excuse
  /\ between' = IF run.owes = run.base.owes THEN between ELSE run.early
  /\ IF w = "update" THEN faulty' = run.excuse /\ unsettled' = TRUE
                     ELSE UNCHANGED <<faulty, unsettled>>
  /\ job' = [job EXCEPT ![w] = IF w = "update"
                               THEN [run EXCEPT !.step = After(w, "push")]
                               ELSE Ended]
  /\ UNCHANGED <<head, artifacts>>

(* git rebase -X ours: the storage that is in the repository is kept.      *)
Kept(fetched, mine, theirs) == IF theirs = fetched THEN mine ELSE theirs

PushStorage(w) ==
  LET run  == job[w]
      kept == Kept(run.fetched, run.storage, artifacts) IN
  /\ run.step = "push storage"
  /\ artifacts' = IF run.storage = run.fetched THEN artifacts ELSE kept
  /\ unsettled' = IF w = "update" THEN artifacts' # run.storage ELSE unsettled
  /\ job' = [job EXCEPT ![w] = Ended]
  /\ UNCHANGED <<head, org, faulty, excused, between>>

(* A command or a push fails, or the runner dies.                          *)
Stop(w) ==
  /\ job[w] # Ended
  /\ job' = [job EXCEPT ![w] = Ended]
  /\ UNCHANGED <<head, org, artifacts, history>>

Next ==
  \/ \E n \in Networks : Mine(n)
  \/ \E w \in Workflows :
       \/ Checkout(w) \/ Fetch(w) \/ Refresh(w) \/ Index(w) \/ Generate(w)
       \/ Push(w) \/ PushStorage(w) \/ Stop(w)

Spec == Init /\ [][Next]_vars

-----------------------------------------------------------------------------

(* Owes are published for a block that the index they were made from had   *)
(* covered, whatever the order of the runs and wherever they are cancelled,*)
(* unless a network was skipped or a node lagged, and unless run-owes-v3   *)
(* had fetched the storage after update pushed the ranges and before the   *)
(* storage that goes with them was in place.  What update makes is never   *)
(* excused by the latter: it refreshes the ranges before it indexes.       *)
OwesCovered ==
  ~between => \A n \in Networks \ excused : org.owes[n].block <= org.owes[n].cursor

(* What the comment on the refresh of the ranges asks of the block that    *)
(* owes are read at, the faults of the index apart: that block has to be   *)
(* one the indexer has already covered.  run-owes-v3, in a concurrency     *)
(* group of its own, does not keep to it between update's two pushes.      *)
CoveredUnlessFaulty ==
  \A n \in Networks \ excused : org.owes[n].block <= org.owes[n].cursor

(* The published owes are of the published ranges, whichever run pushed    *)
(* which file last.                                                        *)
OwesOfRanges ==
  \A n \in Networks : org.owes[n].block = org.ranges[n].end

(* No push moves a published range or a cursor of the storage back,        *)
(* however old the checkout it was made from.                              *)
NeverBack ==
  [][\A n \in Networks : /\ org.ranges[n].end <= org'.ranges[n].end
                         /\ artifacts[n] <= artifacts'[n]]_vars

(* What the comment on COLD_START_ENV says: a run whose snapshot failed to *)
(* download fails instead of publishing.                                   *)
EmptyStorageStops ==
  \A n \in Networks : org.owes[n].cursor # NoCursor
=============================================================================
