------------------------- MODULE OwesWorkflowsProofs -------------------------
(***************************************************************************)
(* Proofs about OwesWorkflows, for every set of networks, every ranges     *)
(* file and every bound.  None of the three properties is inductive: a     *)
(* push publishes what a run worked out from a checkout that may be old.   *)
(* The invariant therefore says of every run what its working copies have  *)
(* to do with its checkout and with the repository as it is now; two facts *)
(* carry it: ends of ranges only grow, and nobody but the scheduled        *)
(* workflow moves them, so that it still finds the ones it checked out.    *)
(***************************************************************************)
EXTENDS OwesWorkflows, TLAPS

Cursors == [Networks -> Int]
RangeFiles == [Networks -> Entry]
OwesFiles == [Networks -> [block : Int, cursor : Int]]
Repositories == [ranges : RangeFiles, owes : OwesFiles]

AllSteps == {"fetch", "refresh", "index", "generate", "push", "push storage", "ended"}

Runs ==
  [step : AllSteps, base : Repositories, file : RangeFiles, owes : OwesFiles,
   fetched : Cursors, storage : Cursors, runtime : BOOLEAN,
   excuse : SUBSET Networks, early : BOOLEAN]

StepsOf(w) ==
  CASE w = "update" -> AllSteps
    [] w = "owes"   -> {"fetch", "generate", "push", "ended"}
    [] w = "index"  -> {"fetch", "index", "push storage", "ended"}

Types ==
  /\ head \in Cursors
  /\ org \in Repositories
  /\ artifacts \in Cursors
  /\ job \in [Workflows -> Runs]
  /\ faulty \subseteq Networks /\ excused \subseteq Networks
  /\ unsettled \in BOOLEAN /\ between \in BOOLEAN

(* Owes are of the ranges they lie next to.                                *)
Agree(repository) ==
  \A n \in Networks : repository.owes[n].block = repository.ranges[n].end

(* The ends of a later file are not before those of an earlier one.        *)
Grown(earlier, later) == \A n \in Networks : earlier[n].end <= later[n].end

(* A file as ranges:update-v3 makes it of another.                         *)
Refreshed(base, file) ==
  /\ \A n \in Networks : file[n] = [base[n] EXCEPT !.end = file[n].end]
  /\ Grown(base, file)

CoversFile(run) ==
  \A n \in Networks \ run.excuse : run.file[n].end <= run.storage[n]

(* What is true of a run of w, given the published ranges and the heads.   *)
RunOK(w, run, ranges, heads) ==
  /\ run.step \in StepsOf(w)
  /\ Agree(run.base)
  /\ Grown(run.base.ranges, ranges)
  /\ Refreshed(run.base.ranges, run.file)
  /\ \A n \in Networks : run.fetched[n] <= run.storage[n]
  /\ w # "update" => run.file = run.base.ranges
  /\ w = "owes" => ~run.runtime
  /\ w = "update" /\ run.step \notin {"push storage", "ended"} => ranges = run.base.ranges
  /\ w = "update" /\ run.step = "push storage" => ranges = run.file
  /\ w = "update" /\ run.step = "index" =>
       \A n \in Networks : run.file[n].end <= Finalized(n, heads[n])
  /\ run.step = "generate" => 
       \/ CoversFile(run)
       \/ w = "owes" /\ (run.early \/ run.storage = NoIndex)
  /\ w = "update" /\ run.step \in {"push", "push storage"} => CoversFile(run)
  /\ run.step = "push" =>
       /\ \A n \in Networks : run.owes[n].block = run.file[n].end
       /\ ~run.early =>
            \A n \in Networks \ run.excuse : run.owes[n].block <= run.owes[n].cursor

SettledCovered ==
  ~unsettled => \A n \in Networks \ faulty : org.ranges[n].end <= artifacts[n]

(* Between its pushes update is the run whose faults were recorded.        *)
PushedFaults ==
  job["update"].step = "push storage" => faulty = job["update"].excuse

IInv ==
  /\ Types
  /\ Grown(StartFile, org.ranges)
  /\ \A w \in Workflows : RunOK(w, job[w], org.ranges, head)
  /\ SettledCovered
  /\ PushedFaults
  /\ OwesCovered
  /\ OwesOfRanges

-----------------------------------------------------------------------------

(* Grown is reflexive and transitive.                                      *)
LEMMA GrownItself ==
  ASSUME NEW file \in RangeFiles PROVE Grown(file, file)
  BY DEF RangeFiles, Entry, Grown

LEMMA GrownTwice ==
  ASSUME NEW a \in RangeFiles, NEW b \in RangeFiles, NEW c \in RangeFiles,
         Grown(a, b), Grown(b, c)
  PROVE  Grown(a, c)
<1> SUFFICES ASSUME NEW n \in Networks PROVE a[n].end <= c[n].end
  BY DEF Grown
<1>1. a[n].end \in Int /\ b[n].end \in Int /\ c[n].end \in Int
  BY DEF RangeFiles, Entry
<1> QED BY <1>1 DEF Grown

(* A file refreshed twice is refreshed.                                    *)
LEMMA RefreshedTwice ==
  ASSUME NEW a \in RangeFiles, NEW b \in RangeFiles, NEW c \in RangeFiles,
         Refreshed(a, b), Refreshed(b, c)
  PROVE  Refreshed(a, c)
<1>1. Grown(a, c)
  BY GrownTwice DEF Refreshed
<1>2. ASSUME NEW n \in Networks PROVE c[n] = [a[n] EXCEPT !.end = c[n].end]
  <2>1. a[n] \in Entry
    BY DEF RangeFiles
  <2>2. b[n] = [a[n] EXCEPT !.end = b[n].end] /\ c[n] = [b[n] EXCEPT !.end = c[n].end]
    BY DEF Refreshed
  <2> QED BY <2>1, <2>2 DEF Entry
<1> QED BY <1>1, <1>2 DEF Refreshed

(* Where the head of a chain grows, so does its finalized head.            *)
LEMMA FinalizedGrows ==
  ASSUME NEW n \in Networks, NEW a \in Int, NEW b \in Int, a <= b
  PROVE  /\ Finalized(n, a) \in Int
         /\ Finalized(n, a) <= Finalized(n, b)
  BY RangesAssumption DEF Finalized

(* Only the steps of the workflow files follow each other.                 *)
LEMMA AfterSteps ==
  /\ After("update", "fetch") = "refresh"
  /\ After("update", "refresh") = "index"
  /\ After("update", "index") = "generate"
  /\ After("update", "generate") = "push"
  /\ After("update", "push") = "push storage"
  /\ After("owes", "fetch") = "generate"
  /\ After("owes", "generate") = "push"
  /\ After("index", "fetch") = "index"
  /\ After("index", "index") = "push storage"
  BY DEF After

(* What the update of the ranges makes of a file.                          *)
LEMMA UpdatedIsRefreshed ==
  ASSUME NEW file \in RangeFiles, NEW answers \in Answers, head \in Cursors,
         CanUpdate(file, answers, FALSE)
  PROVE  /\ Updated(file, answers, FALSE) \in RangeFiles
         /\ Refreshed(file, Updated(file, answers, FALSE))
         /\ \A n \in Networks :
              Updated(file, answers, FALSE)[n].end <= Finalized(n, head[n])
<1> DEFINE new == Updated(file, answers, FALSE)
<1>1. ASSUME NEW n \in Networks
      PROVE  /\ answers[n] \in Int /\ answers[n] <= head[n] /\ head[n] \in Int
             /\ file[n].end <= Finalized(n, answers[n])
  BY <1>1, RangesAssumption, WorkflowsAssumption
     DEF Answers, CanUpdate, Accepts, NewEnd, Cursors
<1>2. ASSUME NEW n \in Networks
      PROVE  /\ new[n] = [file[n] EXCEPT !.end = Finalized(n, answers[n])]
             /\ file[n] \in Entry
  BY <1>2 DEF Updated, NewEnd, RangeFiles
<1>3. ASSUME NEW n \in Networks
      PROVE  /\ Finalized(n, answers[n]) \in Int
             /\ Finalized(n, answers[n]) <= Finalized(n, head[n])
  BY <1>1, <1>3, FinalizedGrows
<1>4. ASSUME NEW n \in Networks
      PROVE  /\ new[n] \in Entry
             /\ new[n].end = Finalized(n, answers[n])
             /\ new[n] = [file[n] EXCEPT !.end = new[n].end]
  BY <1>2, <1>3, <1>4, ZenonT(60) DEF Entry
<1>5. new \in RangeFiles
  BY <1>4 DEF Updated, RangeFiles
<1>6. Refreshed(file, new)
  BY <1>1, <1>4 DEF Refreshed, Grown
<1> QED BY <1>3, <1>4, <1>5, <1>6

(* A run stays right while heads grow and others push: ranges only grow,   *)
(* and what the scheduled workflow checked out stays.                      *)
LEMMA OthersStayOK ==
  ASSUME NEW w \in Workflows, NEW run \in Runs,
         NEW ranges \in RangeFiles, NEW later \in RangeFiles,
         NEW heads \in Cursors, NEW laterHeads \in Cursors,
         RunOK(w, run, ranges, heads),
         Grown(ranges, later),
         w = "update" => later = ranges,
         \A n \in Networks : heads[n] <= laterHeads[n]
  PROVE  RunOK(w, run, later, laterHeads)
<1>1. Grown(run.base.ranges, later)
  BY GrownTwice DEF RunOK, Runs, Repositories
<1>2. ASSUME w = "update", run.step = "index", NEW n \in Networks
      PROVE  run.file[n].end <= Finalized(n, laterHeads[n])
  <2>1. run.file[n].end \in Int /\ heads[n] \in Int /\ laterHeads[n] \in Int
    BY DEF Runs, RangeFiles, Entry, Cursors
  <2>2. run.file[n].end <= Finalized(n, heads[n])
    BY <1>2 DEF RunOK
  <2>3. /\ Finalized(n, heads[n]) \in Int /\ Finalized(n, laterHeads[n]) \in Int
        /\ Finalized(n, heads[n]) <= Finalized(n, laterHeads[n])
    BY <2>1, FinalizedGrows
  <2> QED BY <2>1, <2>2, <2>3
<1>3. w = "update" => RunOK(w, run, later, heads)
  BY <1>1 DEF RunOK
<1>4. w # "update" => RunOK(w, run, later, heads)
  BY <1>1 DEF RunOK
<1> QED BY <1>1, <1>2, <1>3, <1>4 DEF RunOK

(* A step that changes nothing but one run keeps the invariant if it keeps *)
(* the run right.                                                          *)
LEMMA RunAlone ==
  ASSUME IInv, NEW w \in Workflows, NEW run \in Runs,
         RunOK(w, run, org.ranges, head),
         w = "update" => run.step # "push storage",
         job' = [job EXCEPT ![w] = run],
         UNCHANGED <<head, org, artifacts, history>>
  PROVE  IInv'
<1>0. UNCHANGED <<faulty, unsettled, excused, between>>
  BY DEF history
<1>1. Types'
  BY <1>0 DEF IInv, Types
<1>2. ASSUME NEW v \in Workflows PROVE RunOK(v, job'[v], org.ranges, head)
  BY <1>2 DEF IInv, Types
<1>3. \A v \in Workflows : RunOK(v, job[v], org.ranges, head)'
  BY <1>2 DEF RunOK
<1>4. SettledCovered' /\ OwesCovered' /\ OwesOfRanges' /\ Grown(StartFile, org'.ranges)
  BY <1>0 DEF IInv, SettledCovered, OwesCovered, OwesOfRanges
<1>5. PushedFaults'
  BY <1>0 DEF IInv, Types, PushedFaults, Workflows
<1> QED BY <1>1, <1>3, <1>4, <1>5 DEF IInv

(* The record of a run that has just begun.                                *)
LEMMA FreshRun ==
  ASSUME NEW step \in AllSteps, NEW repository \in Repositories
  PROVE  /\ Run(step, repository) \in Runs
         /\ Run(step, repository).step = step
         /\ Run(step, repository).base = repository
         /\ Run(step, repository).file = repository.ranges
         /\ Run(step, repository).runtime = FALSE
         /\ Run(step, repository).fetched = NoIndex
         /\ Run(step, repository).storage = NoIndex
<1>1. NoIndex \in Cursors
  BY DEF NoIndex, NoCursor, Cursors
<1> QED BY <1>1 DEF Run, Runs, Repositories

(* A run with its checkout and nothing done yet.                           *)
LEMMA FreshRunOK ==
  ASSUME NEW w \in Workflows, NEW step \in {"fetch", "ended"},
         NEW repository \in Repositories, NEW ranges \in RangeFiles, NEW heads,
         Agree(repository), Grown(repository.ranges, ranges),
         w = "update" /\ step = "fetch" => ranges = repository.ranges
  PROVE  RunOK(w, Run(step, repository), ranges, heads)
<1> DEFINE run == Run(step, repository)
<1>0. step \in AllSteps
  BY DEF AllSteps
<1>1. /\ run.step = step /\ run.base = repository /\ run.file = repository.ranges
      /\ run.runtime = FALSE /\ run.fetched = NoIndex /\ run.storage = NoIndex
  BY <1>0, FreshRun, ZenonT(60)
<1>2. run.step \in StepsOf(w)
  BY <1>1 DEF StepsOf, AllSteps, Workflows
<1>3. Refreshed(run.base.ranges, run.file)
  BY <1>1 DEF Refreshed, Grown, Repositories, RangeFiles, Entry
<1>4. \A n \in Networks : run.fetched[n] <= run.storage[n]
  <2>1. \A n \in Networks : NoIndex[n] <= NoIndex[n]
    BY DEF NoIndex, NoCursor
  <2> QED BY <1>1, <2>1
<1>5. RunOK(w, run, ranges, heads)
  <2> HIDE DEF run
  <2> QED BY <1>1, <1>2, <1>3, <1>4 DEF RunOK
<1> QED BY <1>5

(* What is left of a run that has ended is right.                          *)
LEMMA EndedOK ==
  ASSUME NEW w \in Workflows, NEW ranges \in RangeFiles, NEW heads,
         Grown(StartFile, ranges)
  PROVE  Ended \in Runs /\ RunOK(w, Ended, ranges, heads)
<1> DEFINE repository == [ranges |-> StartFile, owes |-> OwesOf(StartFile, NoIndex)]
<1>1. StartFile \in RangeFiles /\ \A n \in Networks : StartFile[n].end \in Int
  BY WorkflowsAssumption DEF RangeFiles, Entry
<1>2. repository \in Repositories /\ Agree(repository)
  BY <1>1 DEF OwesOf, NoIndex, NoCursor, Repositories, OwesFiles, Agree
<1>3. Ended = Run("ended", repository)
  BY DEF Ended
<1>4. Run("ended", repository) \in Runs
  BY <1>2, FreshRun DEF AllSteps
<1>5. RunOK(w, Run("ended", repository), ranges, heads)
  BY <1>2, FreshRunOK
<1> QED BY <1>3, <1>4, <1>5

(* Types of the published entries, and of those of a run.                  *)
LEMMA EntryTypes ==
  ASSUME Types
  PROVE  /\ \A n \in Networks :
              /\ org.ranges[n] \in Entry /\ org.ranges[n].end \in Int
              /\ org.owes[n].block \in Int /\ org.owes[n].cursor \in Int
              /\ artifacts[n] \in Int /\ head[n] \in Int
         /\ \A w \in Workflows :
              /\ job[w] \in Runs /\ job[w].base \in Repositories
              /\ job[w].base.ranges \in RangeFiles /\ job[w].base.owes \in OwesFiles
              /\ \A n \in Networks :
                   /\ job[w].file[n] \in Entry /\ job[w].file[n].end \in Int
                   /\ job[w].base.ranges[n] \in Entry
                   /\ job[w].base.ranges[n].end \in Int
                   /\ job[w].fetched[n] \in Int /\ job[w].storage[n] \in Int
                   /\ job[w].owes[n].block \in Int /\ job[w].owes[n].cursor \in Int
  BY DEF Types, Runs, Repositories, RangeFiles, OwesFiles, Cursors, Entry

LEMMA InitInvariant == Init => IInv
<1> SUFFICES ASSUME Init PROVE IInv
  OBVIOUS
<1>1. StartFile \in RangeFiles /\ \A n \in Networks : StartFile[n].end \in Int
  BY WorkflowsAssumption DEF RangeFiles, Entry
<1>2. NoIndex \in Cursors
  BY DEF NoIndex, NoCursor, Cursors
<1>3. ASSUME NEW cursors \in Cursors
      PROVE  [ranges |-> StartFile, owes |-> OwesOf(StartFile, cursors)] \in Repositories
  BY <1>1, <1>3 DEF OwesOf, Repositories, OwesFiles, Cursors
<1>4. artifacts \in Cursors /\ head \in Cursors
  BY <1>1, RangesAssumption DEF Init, Cursors
<1>5. org \in Repositories
  BY <1>3, <1>4 DEF Init
<1>6. Grown(StartFile, org.ranges) /\ org.ranges \in RangeFiles
  BY <1>1, GrownItself DEF Init
<1>7. ASSUME NEW w \in Workflows PROVE Ended \in Runs /\ RunOK(w, Ended, org.ranges, head)
  BY <1>6, EndedOK
<1>8. Types
  BY <1>4, <1>5, <1>7 DEF Init, Types, Workflows
<1>9. ASSUME NEW w \in Workflows PROVE RunOK(w, job[w], org.ranges, head)
  BY <1>7 DEF Init
<1>10. SettledCovered /\ OwesCovered /\ OwesOfRanges
  BY <1>1 DEF Init, SettledCovered, OwesCovered, OwesOfRanges, OwesOf
<1>11. PushedFaults
  BY DEF Init, PushedFaults, Ended, Run, Workflows
<1> QED BY <1>6, <1>8, <1>9, <1>10, <1>11 DEF IInv

-----------------------------------------------------------------------------

LEMMA MineKeeps ==
  ASSUME IInv, NEW m \in Networks, Mine(m) PROVE IInv'
<1>1. Types
  BY DEF IInv
<1>2. head' \in Cursors /\ \A n \in Networks : head[n] <= head'[n]
  BY <1>1 DEF Mine, Types, Cursors
<1>3. Types'
  BY <1>1, <1>2 DEF Mine, Types, history
<1>4. ASSUME NEW w \in Workflows PROVE RunOK(w, job[w], org.ranges, head')
  <2>1. job[w] \in Runs /\ org.ranges \in RangeFiles /\ head \in Cursors
    BY <1>1 DEF Types, Repositories
  <2>2. Grown(org.ranges, org.ranges)
    BY <2>1, GrownItself
  <2>3. RunOK(w, job[w], org.ranges, head)
    BY DEF IInv
  <2> QED BY <1>2, <2>1, <2>2, <2>3, OthersStayOK
<1>5. \A w \in Workflows : RunOK(w, job'[w], org'.ranges, head')
  BY <1>4 DEF Mine
<1>6. SettledCovered' /\ OwesCovered' /\ OwesOfRanges' /\ Grown(StartFile, org'.ranges)
  BY DEF Mine, history, IInv, SettledCovered, OwesCovered, OwesOfRanges
<1>7. PushedFaults'
  BY DEF Mine, history, IInv, PushedFaults
<1> QED BY <1>3, <1>5, <1>6, <1>7 DEF IInv

LEMMA CheckoutKeeps ==
  ASSUME IInv, NEW w \in Workflows, Checkout(w) PROVE IInv'
<1>1. org \in Repositories /\ org.ranges \in RangeFiles /\ Agree(org)
  BY DEF IInv, Types, OwesOfRanges, Agree, Repositories
<1>2. Grown(org.ranges, org.ranges)
  BY <1>1, GrownItself
<1>3. RunOK(w, Run("fetch", org), org.ranges, head)
  BY <1>1, <1>2, FreshRunOK
<1>4. Run("fetch", org) \in Runs
  BY <1>1, FreshRun DEF AllSteps
<1>5. Run("fetch", org).step # "push storage"
  BY DEF Run
<1> QED BY <1>3, <1>4, <1>5, RunAlone DEF Checkout

LEMMA StopKeeps ==
  ASSUME IInv, NEW w \in Workflows, Stop(w) PROVE IInv'
<1>1. org.ranges \in RangeFiles /\ Grown(StartFile, org.ranges)
  BY DEF IInv, Types, Repositories
<1>2. Ended \in Runs /\ RunOK(w, Ended, org.ranges, head)
  BY <1>1, EndedOK
<1>3. Ended.step # "push storage"
  BY DEF Ended, Run
<1> QED BY <1>2, <1>3, RunAlone DEF Stop

LEMMA FetchKeeps ==
  ASSUME IInv, NEW w \in Workflows, Fetch(w) PROVE IInv'
<1>1. /\ job[w] \in Runs /\ artifacts \in Cursors /\ NoIndex \in Cursors
      /\ faulty \subseteq Networks /\ unsettled \in BOOLEAN
  BY DEF IInv, Types, NoIndex, NoCursor, Cursors
<1>2. PICK s \in {artifacts, NoIndex} :
        job' = [job EXCEPT ![w] = [@ EXCEPT !.step = After(w, "fetch"), !.fetched = s,
                                            !.storage = s, !.excuse = faulty,
                                            !.early = unsettled]]
  BY DEF Fetch
<1> DEFINE run == [job[w] EXCEPT !.step = After(w, "fetch"), !.fetched = s,
                                 !.storage = s, !.excuse = faulty,
                                 !.early = unsettled]
<1>3. RunOK(w, job[w], org.ranges, head) /\ job[w].step = "fetch"
  BY DEF IInv, Fetch
<1>4. After(w, "fetch") \in StepsOf(w) /\ After(w, "fetch") \in AllSteps
  BY AfterSteps DEF Workflows, StepsOf, AllSteps
<1>5. run \in Runs
  BY <1>1, <1>4 DEF Runs
<1>6. /\ run.step = After(w, "fetch") /\ run.base = job[w].base /\ run.file = job[w].file
      /\ run.fetched = s /\ run.storage = s /\ run.excuse = faulty /\ run.early = unsettled
      /\ run.runtime = job[w].runtime
  BY <1>1 DEF Runs
<1>7. \A n \in Networks : s[n] <= s[n]
  BY <1>1 DEF Cursors
<1>8. w = "owes" => CoversFile(run) \/ run.early \/ run.storage = NoIndex
  <2> SUFFICES ASSUME w = "owes", s = artifacts, ~unsettled PROVE CoversFile(run)
    BY <1>6
  <2> SUFFICES ASSUME NEW n \in Networks \ faulty
               PROVE  job[w].file[n].end <= artifacts[n]
    BY <1>6 DEF CoversFile
  <2>1. job[w].file[n].end <= org.ranges[n].end
    BY <1>3 DEF RunOK, Grown
  <2>2. org.ranges[n].end <= artifacts[n]
    BY DEF IInv, SettledCovered
  <2> QED BY <2>1, <2>2, EntryTypes DEF IInv
<1>9. RunOK(w, run, org.ranges, head)
  <2> HIDE DEF run
  <2>1. CASE w = "update"
    BY <1>3, <1>4, <1>6, <1>7, <2>1, AfterSteps DEF RunOK
  <2>2. CASE w = "owes"
    BY <1>3, <1>4, <1>6, <1>7, <1>8, <2>2, AfterSteps DEF RunOK
  <2>3. CASE w = "index"
    BY <1>3, <1>4, <1>6, <1>7, <2>3, AfterSteps DEF RunOK
  <2> QED BY <2>1, <2>2, <2>3 DEF Workflows
<1>10. w = "update" => run.step # "push storage"
  BY <1>6, AfterSteps
<1> QED BY <1>2, <1>5, <1>9, <1>10, RunAlone DEF Fetch

LEMMA RefreshKeeps ==
  ASSUME IInv, NEW w \in Workflows, Refresh(w) PROVE IInv'
<1>1. job[w] \in Runs /\ head \in Cursors /\ job[w].file \in RangeFiles
      /\ job[w].base.ranges \in RangeFiles
  BY DEF IInv, Types, Runs, Repositories
<1>2. RunOK(w, job[w], org.ranges, head) /\ job[w].step = "refresh"
  BY DEF IInv, Refresh
<1>3. w = "update"
  BY <1>2 DEF RunOK, StepsOf, Workflows
<1>4. PICK answers \in Answers :
        /\ CanUpdate(job[w].file, answers, FALSE)
        /\ job' = [job EXCEPT ![w] = [@ EXCEPT !.step = After(w, "refresh"),
                                 !.file = Updated(job[w].file, answers, FALSE)]]
  BY DEF Refresh
<1> DEFINE new == Updated(job[w].file, answers, FALSE)
           run == [job[w] EXCEPT !.step = "index", !.file = new]
<1>5. /\ new \in RangeFiles /\ Refreshed(job[w].file, new)
      /\ \A n \in Networks : new[n].end <= Finalized(n, head[n])
  BY <1>1, <1>4, UpdatedIsRefreshed
<1>6. Refreshed(job[w].base.ranges, new)
  BY <1>1, <1>2, <1>5, RefreshedTwice DEF RunOK
<1>7. run \in Runs
  BY <1>1, <1>5 DEF Runs, AllSteps
<1>8. /\ run.step = "index" /\ run.base = job[w].base /\ run.file = new
      /\ run.fetched = job[w].fetched /\ run.storage = job[w].storage
  BY <1>1 DEF Runs
<1>9. RunOK(w, run, org.ranges, head)
  <2> HIDE DEF run, new
  <2>1. "index" \in StepsOf(w)
    BY <1>3 DEF StepsOf, AllSteps
  <2> QED BY <1>2, <1>3, <1>5, <1>6, <1>8, <2>1 DEF RunOK
<1>10. job' = [job EXCEPT ![w] = run]
  BY <1>3, <1>4, AfterSteps
<1> QED BY <1>7, <1>8, <1>9, <1>10, RunAlone DEF Refresh

LEMMA IndexKeeps ==
  ASSUME IInv, NEW w \in Workflows, Index(w) PROVE IInv'
<1> DEFINE had == job[w].storage
<1>1. job[w] \in Runs
  BY DEF IInv, Types
<1>2. RunOK(w, job[w], org.ranges, head) /\ job[w].step = "index"
  BY DEF IInv, Index
<1>3. w \in {"update", "index"}
  BY <1>2 DEF RunOK, StepsOf, Workflows
<1>4. PICK skipped \in SUBSET Networks, s \in [Networks -> NoCursor .. LastBlock] :
        /\ Indexed(had, skipped, s)
        /\ job' = [job EXCEPT ![w] = [@ EXCEPT !.step = After(w, "index"), !.storage = s,
                                 !.runtime = TRUE, !.excuse = skipped,
                                 !.early = FALSE]]
  BY DEF Index
<1> DEFINE run == [job[w] EXCEPT !.step = After(w, "index"), !.storage = s,
                                 !.runtime = TRUE, !.excuse = skipped,
                                 !.early = FALSE]
<1>5. After(w, "index") \in StepsOf(w) /\ After(w, "index") \in AllSteps
  BY <1>3, AfterSteps DEF Workflows, StepsOf, AllSteps
<1>6. s \in Cursors /\ NoCursor \in Int
  BY WorkflowsAssumption DEF Cursors, NoCursor
<1>7. run \in Runs
  BY <1>1, <1>5, <1>6 DEF Runs
<1>8. /\ run.step = After(w, "index") /\ run.base = job[w].base /\ run.file = job[w].file
      /\ run.fetched = job[w].fetched /\ run.storage = s /\ run.excuse = skipped
  BY <1>1 DEF Runs
<1>9. ASSUME NEW n \in Networks
      PROVE  /\ had[n] <= s[n]
             /\ had # NoIndex /\ n \notin skipped => Finalized(n, head[n]) <= s[n]
  <2>1. had[n] \in Int /\ s[n] \in Int /\ head[n] \in Int
    BY <1>6, EntryTypes DEF IInv, Cursors
  <2>2. Finalized(n, head[n]) \in Int
    BY <2>1, FinalizedGrows
  <2>3. CASE had = NoIndex
    BY <1>4, <2>1, <2>3 DEF Indexed
  <2>4. CASE had # NoIndex
    <3>1. s[n] \in (IF n \in skipped THEN had[n] ELSE Target(n, had[n]))
                   .. Target(n, had[n])
      BY <1>4, <2>4 DEF Indexed
    <3> QED BY <2>1, <2>2, <3>1 DEF Target
  <2> QED BY <2>3, <2>4
<1>10. \A n \in Networks : run.fetched[n] <= run.storage[n]
  <2> SUFFICES ASSUME NEW n \in Networks PROVE job[w].fetched[n] <= s[n]
    BY <1>8
  <2>1. job[w].fetched[n] <= had[n]
    BY <1>2 DEF RunOK
  <2>2. job[w].fetched[n] \in Int /\ had[n] \in Int /\ s[n] \in Int
    BY <1>6, EntryTypes DEF IInv, Cursors
  <2> QED BY <1>9, <2>1, <2>2
<1>11. w = "update" => CoversFile(run)
  <2> SUFFICES ASSUME w = "update", NEW n \in Networks \ skipped
               PROVE  job[w].file[n].end <= s[n]
    BY <1>8 DEF CoversFile
  <2>1. had # NoIndex
    BY <1>4 DEF Indexed
  <2>2. job[w].file[n].end <= Finalized(n, head[n])
    BY <1>2 DEF RunOK
  <2>3. job[w].file[n].end \in Int /\ s[n] \in Int /\ head[n] \in Int
    BY <1>6, EntryTypes DEF IInv, Cursors
  <2>4. Finalized(n, head[n]) \in Int
    BY <2>3, FinalizedGrows
  <2> QED BY <1>9, <2>1, <2>2, <2>3, <2>4
<1>12. RunOK(w, run, org.ranges, head)
  <2> HIDE DEF run
  <2>1. CASE w = "update"
    BY <1>2, <1>5, <1>8, <1>10, <1>11, <2>1, AfterSteps DEF RunOK
  <2>2. CASE w = "index"
    BY <1>2, <1>5, <1>8, <1>10, <2>2, AfterSteps DEF RunOK
  <2> QED BY <1>3, <2>1, <2>2
<1>13. w = "update" => run.step # "push storage"
  BY <1>8, AfterSteps
<1> QED BY <1>4, <1>7, <1>12, <1>13, RunAlone DEF Index

LEMMA GenerateKeeps ==
  ASSUME IInv, NEW w \in Workflows, Generate(w) PROVE IInv'
<1> DEFINE made == OwesOf(job[w].file, job[w].storage)
           run  == [job[w] EXCEPT !.step = "push", !.owes = made]
<1>1. job[w] \in Runs
  BY DEF IInv, Types
<1>2. RunOK(w, job[w], org.ranges, head) /\ job[w].step = "generate"
  BY DEF IInv, Generate
<1>3. w \in {"update", "owes"}
  BY <1>2 DEF RunOK, StepsOf, Workflows
<1>4. After(w, "generate") = "push" /\ "push" \in StepsOf(w)
  BY <1>3, AfterSteps DEF StepsOf, AllSteps
<1>5. job' = [job EXCEPT ![w] = run]
  BY <1>4 DEF Generate
<1>6. made \in OwesFiles
  BY EntryTypes DEF IInv, OwesOf, OwesFiles
<1>7. run \in Runs
  BY <1>1, <1>6 DEF Runs, AllSteps
<1>8. /\ run.step = "push" /\ run.base = job[w].base /\ run.file = job[w].file
      /\ run.fetched = job[w].fetched /\ run.storage = job[w].storage
      /\ run.excuse = job[w].excuse /\ run.runtime = job[w].runtime /\ run.owes = made
      /\ run.early = job[w].early
  BY <1>1 DEF Runs
<1>9. CoversFile(job[w]) \/ (w = "owes" /\ job[w].early)
  <2>1. w = "owes" => job[w].storage # NoIndex
    BY <1>2 DEF RunOK, Generate
  <2> QED BY <1>2, <2>1 DEF RunOK
<1>10. CoversFile(run) \/ (w = "owes" /\ run.early)
  BY <1>8, <1>9 DEF CoversFile
<1>11. ASSUME NEW n \in Networks
       PROVE  run.owes[n].block = run.file[n].end /\ run.owes[n].cursor = run.storage[n]
  BY <1>8 DEF OwesOf
<1>12. RunOK(w, run, org.ranges, head)
  <2> HIDE DEF run
  <2>1. ~run.early =>
          \A n \in Networks \ run.excuse : run.owes[n].block <= run.owes[n].cursor
    BY <1>10, <1>11 DEF CoversFile
  <2>2. CASE w = "update"
    BY <1>2, <1>4, <1>8, <1>10, <1>11, <2>1, <2>2 DEF RunOK
  <2>3. CASE w = "owes"
    BY <1>2, <1>4, <1>8, <1>10, <1>11, <2>1, <2>3 DEF RunOK
  <2> QED BY <1>3, <2>2, <2>3
<1> QED BY <1>5, <1>7, <1>8, <1>12, RunAlone DEF Generate

-----------------------------------------------------------------------------

(* What a push makes of the ranges: those of the run, or what was there.   *)
LEMMA PushedRanges ==
  ASSUME IInv, NEW w \in Workflows, Push(w)
  PROVE  /\ w \in {"update", "owes"}
         /\ w = "update" => /\ job[w].base.ranges = org.ranges
                            /\ org'.ranges = job[w].file
         /\ w = "owes" => org'.ranges = org.ranges
         /\ org'.ranges \in RangeFiles
         /\ Grown(org.ranges, org'.ranges)
<1>1. RunOK(w, job[w], org.ranges, head) /\ job[w].step = "push"
  BY DEF IInv, Push
<1>2. w \in {"update", "owes"}
  BY <1>1 DEF RunOK, StepsOf, Workflows
<1>3. /\ org.ranges \in RangeFiles /\ job[w].file \in RangeFiles
      /\ org'.ranges = Merged(job[w].base.ranges, job[w].file, org.ranges)
  BY DEF IInv, Types, Repositories, Runs, Push
<1>4. CASE w = "update"
  <2>1. org.ranges = job[w].base.ranges /\ Refreshed(job[w].base.ranges, job[w].file)
    BY <1>1, <1>4 DEF RunOK
  <2>2. org'.ranges = job[w].file
    BY <1>3, <2>1 DEF Merged
  <2> QED BY <1>3, <1>4, <2>1, <2>2 DEF Refreshed
<1>5. CASE w = "owes"
  <2>1. job[w].file = job[w].base.ranges
    BY <1>1, <1>5 DEF RunOK
  <2>2. org'.ranges = org.ranges
    BY <1>3, <2>1 DEF Merged
  <2> QED BY <1>3, <1>5, <2>2, GrownItself
<1> QED BY <1>2, <1>4, <1>5

(* The owes that a push leaves are of the ranges that it leaves.           *)
LEMMA PushedOwes ==
  ASSUME IInv, NEW w \in Workflows, Push(w)
  PROVE  OwesOfRanges'
<1> DEFINE run == job[w]
<1>1. /\ org'.owes = Merged(run.base.owes, run.owes, org.owes)
      /\ NoConflict(run.base.owes, run.owes, org.owes)
  BY DEF Push
<1>2. RunOK(w, run, org.ranges, head) /\ run.step = "push" /\ OwesOfRanges
  BY DEF IInv, Push
<1> SUFFICES ASSUME NEW n \in Networks PROVE org'.owes[n].block = org'.ranges[n].end
  BY DEF OwesOfRanges
<1>3. /\ run.owes[n].block = run.file[n].end
      /\ run.base.owes[n].block = run.base.ranges[n].end
      /\ org.owes[n].block = org.ranges[n].end
  BY <1>2 DEF RunOK, Agree, OwesOfRanges
<1>4. CASE w = "update"
  <2>1. run.base.ranges = org.ranges /\ org'.ranges = run.file
    BY <1>4, PushedRanges
  <2> QED BY <1>1, <1>3, <2>1 DEF Merged
<1>5. CASE w = "owes"
  <2>1. run.file = run.base.ranges /\ org'.ranges = org.ranges
    BY <1>2, <1>5, PushedRanges DEF RunOK
  <2> QED BY <1>1, <1>3, <2>1 DEF Merged, NoConflict
<1> QED BY <1>4, <1>5, PushedRanges

LEMMA PushKeeps ==
  ASSUME IInv, NEW w \in Workflows, Push(w) PROVE IInv'
<1> DEFINE run   == job[w]
           later == [run EXCEPT !.step = "push storage"]
           after == IF w = "update" THEN later ELSE Ended
<1>1. RunOK(w, run, org.ranges, head) /\ run.step = "push" /\ run \in Runs /\ Types
  BY DEF IInv, Push, Types
<1>2. /\ org'.owes = Merged(run.base.owes, run.owes, org.owes)
      /\ org' = [ranges |-> org'.ranges, owes |-> org'.owes]
      /\ job' = [job EXCEPT ![w] = after]
      /\ head' = head /\ artifacts' = artifacts
      /\ w = "update" => unsettled' = TRUE /\ faulty' = run.excuse
      /\ w # "update" => unsettled' = unsettled /\ faulty' = faulty
      /\ excused' = IF run.owes = run.base.owes THEN excused ELSE run.excuse
      /\ between' = IF run.owes = run.base.owes THEN between ELSE run.early
  BY AfterSteps DEF Push
<1>3. /\ w \in {"update", "owes"}
      /\ w = "update" => org'.ranges = run.file
      /\ w = "owes" => org'.ranges = org.ranges
      /\ org'.ranges \in RangeFiles
      /\ Grown(org.ranges, org'.ranges)
  BY PushedRanges
<1>4. Grown(StartFile, org'.ranges)
  <2>1. StartFile \in RangeFiles /\ org.ranges \in RangeFiles
    BY <1>1, WorkflowsAssumption DEF Types, Repositories, RangeFiles
  <2> QED BY <1>3, <2>1, GrownTwice DEF IInv
<1>5. later \in Runs
      /\ later.step = "push storage" /\ later.base = run.base /\ later.file = run.file
      /\ later.fetched = run.fetched /\ later.storage = run.storage
      /\ later.excuse = run.excuse
  BY <1>1 DEF Runs, AllSteps
<1>6. w = "update" => RunOK(w, later, org'.ranges, head)
  <2> SUFFICES ASSUME w = "update" PROVE RunOK(w, later, run.file, head)
    BY <1>3
  <2>1. "push storage" \in StepsOf(w)
    BY DEF StepsOf, AllSteps
  <2>2. CoversFile(later)
    BY <1>1, <1>5 DEF RunOK, CoversFile
  <2>3. Grown(run.base.ranges, run.file)
    BY <1>1 DEF RunOK, Refreshed
  <2> HIDE DEF later
  <2> QED BY <1>1, <1>5, <2>1, <2>2, <2>3 DEF RunOK
<1>7. after \in Runs /\ RunOK(w, after, org'.ranges, head)
  BY <1>3, <1>4, <1>5, <1>6, EndedOK
<1>8. Types'
  <2>1. org'.owes \in OwesFiles
    BY <1>1, <1>2 DEF Merged, Types, Runs, Repositories
  <2>2. /\ faulty' \subseteq Networks /\ excused' \subseteq Networks
        /\ unsettled' \in BOOLEAN /\ between' \in BOOLEAN
    BY <1>1, <1>2 DEF Types, Runs
  <2>3. org' \in Repositories
    BY <1>2, <1>3, <2>1 DEF Repositories
  <2>4. job' \in [Workflows -> Runs]
    BY <1>1, <1>2, <1>7 DEF Types
  <2> QED BY <1>1, <1>2, <2>2, <2>3, <2>4 DEF Types
<1>9. ASSUME NEW v \in Workflows PROVE RunOK(v, job'[v], org'.ranges, head')
  <2>1. CASE v = w
    BY <1>1, <1>2, <1>7, <2>1 DEF Types
  <2>2. CASE v # w
    <3>1. v = "update" => org'.ranges = org.ranges
      BY <1>3, <2>2
    <3>2. /\ job[v] \in Runs /\ org.ranges \in RangeFiles /\ head \in Cursors
          /\ job'[v] = job[v] /\ head' = head
      BY <1>1, <1>2, <2>2 DEF Types, Repositories
    <3>3. RunOK(v, job[v], org.ranges, head)
      BY DEF IInv
    <3>4. ASSUME NEW n \in Networks PROVE head[n] <= head[n]
      <4>1. head[n] \in Int
        BY <3>2 DEF Cursors
      <4> QED BY <4>1
    <3> QED BY <1>3, <3>1, <3>2, <3>3, <3>4, OthersStayOK
  <2> QED BY <2>1, <2>2
<1>10. SettledCovered'
  <2>1. CASE w = "update"
    BY <1>2, <2>1 DEF SettledCovered
  <2>2. CASE w = "owes"
    BY <1>2, <1>3, <2>2 DEF IInv, SettledCovered
  <2> QED BY <1>3, <2>1, <2>2
<1>11. OwesCovered'
  <2>1. CASE run.owes = run.base.owes
    BY <1>2, <2>1 DEF IInv, OwesCovered, Merged
  <2>2. CASE run.owes # run.base.owes
    BY <1>1, <1>2, <2>2 DEF OwesCovered, Merged, RunOK
  <2> QED BY <2>1, <2>2
<1>12. PushedFaults'
  <2>1. CASE w = "update"
    <3>1. job'["update"] = later
      BY <1>1, <1>2, <2>1 DEF Types
    <3> QED BY <1>2, <1>5, <2>1, <3>1 DEF PushedFaults
  <2>2. CASE w # "update"
    <3>1. job'["update"] = job["update"]
      BY <1>1, <1>2, <2>2 DEF Types, Workflows
    <3> QED BY <1>2, <2>2, <3>1 DEF IInv, PushedFaults
  <2> QED BY <2>1, <2>2
<1> QED BY <1>4, <1>8, <1>9, <1>10, <1>11, <1>12, PushedOwes DEF IInv

(* The cursors of the storage only grow.                                   *)
LEMMA PushedStorage ==
  ASSUME IInv, NEW w \in Workflows, PushStorage(w)
  PROVE  /\ artifacts' \in Cursors
         /\ \A n \in Networks : artifacts[n] <= artifacts'[n]
<1>1. /\ \A n \in Networks : job[w].fetched[n] <= job[w].storage[n]
      /\ job[w].storage \in Cursors /\ artifacts \in Cursors
  BY DEF IInv, RunOK, Types, Runs
<1>2. \/ artifacts' = artifacts
      \/ artifacts' = job[w].storage /\ artifacts = job[w].fetched
  BY DEF PushStorage, Kept
<1>3. ASSUME NEW n \in Networks PROVE artifacts[n] <= artifacts[n]
  <2>1. artifacts[n] \in Int
    BY <1>1 DEF Cursors
  <2> QED BY <2>1
<1> QED BY <1>1, <1>2, <1>3

LEMMA PushStorageKeeps ==
  ASSUME IInv, NEW w \in Workflows, PushStorage(w) PROVE IInv'
<1>1. Types /\ org.ranges \in RangeFiles /\ Grown(StartFile, org.ranges)
  BY DEF IInv, Types, Repositories
<1>2. Ended \in Runs /\ RunOK(w, Ended, org.ranges, head)
  BY <1>1, EndedOK
<1>3. /\ job' = [job EXCEPT ![w] = Ended]
      /\ head' = head /\ org' = org
      /\ excused' = excused /\ between' = between /\ faulty' = faulty
      /\ unsettled' = IF w = "update" THEN artifacts' # job[w].storage ELSE unsettled
  BY DEF PushStorage
<1>4. Types'
  <2>1. unsettled' \in BOOLEAN
    BY <1>1, <1>3 DEF Types
  <2>2. artifacts' \in Cursors
    BY PushedStorage
  <2> QED BY <1>1, <1>2, <1>3, <2>1, <2>2 DEF Types
<1>5. ASSUME NEW v \in Workflows PROVE RunOK(v, job'[v], org'.ranges, head')
  BY <1>1, <1>2, <1>3 DEF IInv, Types
<1>6. SettledCovered'
  <2> SUFFICES ASSUME ~unsettled', NEW n \in Networks \ faulty
               PROVE  org.ranges[n].end <= artifacts'[n]
    BY <1>3 DEF SettledCovered
  <2>1. CASE w = "update"
    <3>1. artifacts' = job[w].storage /\ n \notin job[w].excuse
      BY <1>3, <2>1 DEF IInv, PushedFaults, PushStorage
    <3>2. org.ranges = job[w].file /\ CoversFile(job[w])
      BY <2>1 DEF IInv, RunOK, PushStorage
    <3> QED BY <3>1, <3>2 DEF CoversFile
  <2>2. CASE w # "update"
    <3>1. org.ranges[n].end <= artifacts[n]
      BY <1>3, <2>2 DEF IInv, SettledCovered
    <3>2. org.ranges[n].end \in Int /\ artifacts[n] \in Int /\ artifacts'[n] \in Int
      BY <1>1, EntryTypes, PushedStorage DEF Cursors
    <3> QED BY <3>1, <3>2, PushedStorage
  <2> QED BY <2>1, <2>2
<1>7. OwesCovered' /\ OwesOfRanges' /\ Grown(StartFile, org'.ranges)
  BY <1>3 DEF IInv, OwesCovered, OwesOfRanges
<1>8. PushedFaults'
  BY <1>1, <1>3 DEF IInv, Types, PushedFaults, Workflows, Ended, Run
<1> QED BY <1>4, <1>5, <1>6, <1>7, <1>8 DEF IInv

-----------------------------------------------------------------------------

LEMMA StepKeeps == IInv /\ [Next]_vars => IInv'
<1> SUFFICES ASSUME IInv, [Next]_vars PROVE IInv'
  OBVIOUS
<1>1. ASSUME NEW n \in Networks, Mine(n) PROVE IInv'
  BY <1>1, MineKeeps
<1>2. ASSUME NEW w \in Workflows,
             \/ Checkout(w) \/ Fetch(w) \/ Refresh(w) \/ Index(w) \/ Generate(w)
             \/ Push(w) \/ PushStorage(w) \/ Stop(w)
      PROVE  IInv'
  BY <1>2, CheckoutKeeps, FetchKeeps, RefreshKeeps, IndexKeeps, GenerateKeeps,
     PushKeeps, PushStorageKeeps, StopKeeps
<1>3. CASE UNCHANGED vars
  BY <1>3, ZenonT(60)
    DEF vars, history, IInv, Types, RunOK, SettledCovered, PushedFaults,
        OwesCovered, OwesOfRanges
<1> QED BY <1>1, <1>2, <1>3 DEF Next

(* A published range or a cursor of the storage never moves back.          *)
LEMMA StepGrows ==
  ASSUME IInv, [Next]_vars
  PROVE  \A n \in Networks : /\ org.ranges[n].end <= org'.ranges[n].end
                             /\ artifacts[n] <= artifacts'[n]
<1>1. /\ \A n \in Networks : org.ranges[n].end <= org.ranges[n].end
      /\ \A n \in Networks : artifacts[n] <= artifacts[n]
  BY EntryTypes DEF IInv
<1>2. ASSUME NEW w \in Workflows, Push(w)
      PROVE  Grown(org.ranges, org'.ranges) /\ artifacts' = artifacts
  BY <1>2, PushedRanges DEF Push
<1>3. ASSUME NEW w \in Workflows, PushStorage(w)
      PROVE  org' = org /\ \A n \in Networks : artifacts[n] <= artifacts'[n]
  BY <1>3, PushedStorage DEF PushStorage
<1>4. ASSUME ~ \E w \in Workflows : Push(w) \/ PushStorage(w)
      PROVE  org' = org /\ artifacts' = artifacts
  BY <1>4 DEF Next, vars, Mine, Checkout, Fetch, Refresh, Index, Generate, Stop
<1> QED BY <1>1, <1>2, <1>3, <1>4 DEF Grown

LEMMA InvariantHolds == Spec => []IInv
  BY InitInvariant, StepKeeps, PTL DEF Spec

(* Whatever the networks and however the runs overlap or end, owes are     *)
(* published for a block that the index had covered, for all networks but  *)
(* those the index failed for; the one exception are owes of run-owes-v3   *)
(* from a storage fetched after update pushed the ranges and before the    *)
(* storage that goes with them was in place.                               *)
THEOREM OwesAreCovered == Spec => []OwesCovered
<1>1. IInv => OwesCovered
  BY DEF IInv
<1> QED BY <1>1, InvariantHolds, PTL

(* The published owes are always of the published ranges.                  *)
THEOREM OwesMatchRanges == Spec => []OwesOfRanges
<1>1. IInv => OwesOfRanges
  BY DEF IInv
<1> QED BY <1>1, InvariantHolds, PTL

(* No push moves a published range or the cursor of a storage back.        *)
THEOREM NothingMovesBack == Spec => NeverBack
<1>1. IInv /\ [Next]_vars =>
        [\A n \in Networks : /\ org.ranges[n].end <= org'.ranges[n].end
                             /\ artifacts[n] <= artifacts'[n]]_vars
  BY StepGrows
<1> QED BY <1>1, InvariantHolds, PTL DEF Spec, NeverBack
=============================================================================
