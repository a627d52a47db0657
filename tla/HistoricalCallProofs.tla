------------------------ MODULE HistoricalCallProofs ------------------------
(***************************************************************************)
(* Proofs about HistoricalCall, in two layers.                             *)
(*                                                                         *)
(* Inv, for PermitsBalanced and LimitOnlyShrinks: the permits add up       *)
(* because no direct call is in flight or waiting twice, and that depends  *)
(* on the workers: a lane takes each call of a fan-out once, a fan-out     *)
(* ends only after all its calls, and the calls that a rejected fan-out    *)
(* left behind keep counting.  JobOK and Fits say so.                      *)
(*                                                                         *)
(* WorkInv, for ResultsInPlace and FailureConfirmed: the chunks of the     *)
(* workers lie apart (Apart); the answers of a chunk followed by the       *)
(* ranges still to ask make up the chunk in order (Work, GotOK); a call    *)
(* of a caller that has no outcome yet belongs to a worker's chunk or was  *)
(* not handed out (RunsOK); the first worker ends only when nothing is     *)
(* left to hand out; and how often a call was tried alone is known from    *)
(* where its chunk is (TriesOK, ResOK).                                    *)
(***************************************************************************)
EXTENDS HistoricalCall, FiniteSetTheorems, WellFoundedInduction, TLAPS

(* A worker as the actions need it.                                        *)
JobOK(j) ==
  /\ DOMAIN j = {"mode", "base", "todo", "got", "next", "lanes", "res", "redo"}
  /\ j.mode \in Modes
  /\ j.next \in Int /\ j.base \in Int
  /\ j.todo \in Seq(Int \X Int)
  /\ j.mode \in {"multi", "direct", "retry", "threw"} => j.todo # <<>>
  /\ j.mode = "direct" =>
       /\ First(j) <= j.next
       /\ DOMAIN j.res = First(j) .. Last(j)
       /\ \A i \in First(j) .. Last(j) : i >= j.next => j.res[i] = None
  /\ j.mode = "retry" => j.next > Last(j)

(* What a direct call in flight, or waiting, has to do with its worker.    *)
Fits(call, j) ==
  /\ call = <<call[1], call[2], call[3]>>
  /\ j.mode \in {"direct", "retry", "threw"}
  /\ j.mode = "direct" => /\ call[3] \in First(j) .. Last(j)
                          /\ call[3] < j.next /\ j.res[call[3]] = None
  /\ j.mode = "threw" /\ j.next <= Last(j) =>
       call[3] \in Int /\ call[3] < j.next
  /\ j.mode = "retry" => j.lanes = 0

Waiting  == {waiters[k] : k \in DOMAIN waiters}
InFlight == running \cup Waiting

JobsInv ==
  /\ job = [c \in Callers |-> [w \in Workers |-> job[c][w]]]
  /\ \A c \in Callers, w \in Workers : JobOK(job[c][w])

FlightsInv ==
  /\ \A call \in InFlight :
       /\ call[1] \in Callers /\ call[2] \in Workers
       /\ Fits(call, job[call[1]][call[2]])
  /\ \A a, b \in InFlight :
       a[1] = b[1] /\ a[2] = b[2] /\ job[a[1]][a[2]].mode = "retry" => a = b

PermitInv ==
  /\ IsFiniteSet(running) /\ active = Cardinality(running)
  /\ active <= DirectConcurrency
  /\ waiters # <<>> => active = DirectConcurrency
  /\ waiters \in Seq(Waiting)
  /\ \A k, l \in DOMAIN waiters : waiters[k] = waiters[l] => k = l
  /\ running \cap Waiting = {}

PhaseInv ==
  /\ phase = [c \in Callers |-> phase[c]]
  /\ \A c \in Callers : phase[c] \in {"idle", "probing"} =>
       \A w \in Workers : job[c][w].mode = "ended"
  /\ cut = [c \in Callers |-> cut[c]]
  /\ \A c \in Callers : cut[c] \in Int

LimitInv ==
  limit # None => limit \in Nat /\ 2 * limit > MinMulticallChunk

Inv == JobsInv /\ FlightsInv /\ PermitInv /\ PhaseInv /\ LimitInv

-----------------------------------------------------------------------------
(* The permits.                                                            *)

LEMMA SeqOver ==
  ASSUME NEW A, NEW B, NEW s \in Seq(A), \A k \in 1 .. Len(s) : s[k] \in B
  PROVE  s \in Seq(B)
  OBVIOUS

LEMMA AcquireKeeps ==
  ASSUME PermitInv, NEW call, call \notin InFlight, Acquire(call)
  PROVE  PermitInv' /\ InFlight' = InFlight \cup {call}
<1>1. CASE active < DirectConcurrency
  <2>1. /\ running' = running \cup {call} /\ waiters' = waiters
        /\ active' = active + 1
    BY <1>1 DEF Acquire
  <2>2. Waiting' = Waiting
    BY <2>1 DEF Waiting
  <2>3. call \notin running /\ IsFiniteSet(running')
        /\ Cardinality(running') = Cardinality(running) + 1
    BY <2>1, FS_AddElement DEF InFlight, PermitInv
  <2>4. active \in Nat
    BY FS_CardinalityType DEF PermitInv
  <2>5. PermitInv'
    BY <1>1, <2>1, <2>2, <2>3, <2>4, HistoricalAssumption
       DEF PermitInv, InFlight
  <2> QED BY <2>1, <2>2, <2>5 DEF InFlight
<1>2. CASE ~(active < DirectConcurrency)
  <2>1. /\ running' = running /\ waiters' = Append(waiters, call)
        /\ active' = active
    BY <1>2 DEF Acquire
  <2>2. active \in Nat /\ active = DirectConcurrency
    BY <1>2, FS_CardinalityType, HistoricalAssumption DEF PermitInv
  <2>3. waiters \in Seq(Waiting)
    BY DEF PermitInv
  <2>4. /\ DOMAIN waiters = 1 .. Len(waiters) /\ Len(waiters) \in Nat
        /\ DOMAIN waiters' = 1 .. Len(waiters) + 1
        /\ \A k \in 1 .. Len(waiters) : waiters'[k] = waiters[k]
        /\ waiters'[Len(waiters) + 1] = call
    BY <2>1, <2>3
  <2>5. Waiting' = Waiting \cup {call}
    BY <2>4 DEF Waiting
  <2>6. waiters' \in Seq(Waiting')
    BY <2>1, <2>3, <2>4, <2>5
  <2>7. call \notin Waiting /\ call \notin running
    BY DEF InFlight
  <2>8. \A k, l \in DOMAIN waiters' : waiters'[k] = waiters'[l] => k = l
    BY <2>4, <2>7 DEF Waiting, PermitInv
  <2>9. PermitInv'
    BY <2>1, <2>2, <2>5, <2>6, <2>7, <2>8 DEF PermitInv
  <2> QED BY <2>1, <2>5, <2>9 DEF InFlight
<1> QED BY <1>1, <1>2

LEMMA ReleaseKeeps ==
  ASSUME PermitInv, NEW call \in running, Release(call)
  PROVE  PermitInv' /\ InFlight' = InFlight \ {call}
<1>0. /\ IsFiniteSet(running \ {call})
      /\ Cardinality(running \ {call}) = Cardinality(running) - 1
      /\ active \in Nat
  BY FS_RemoveElement, FS_CardinalityType DEF PermitInv
<1>1. CASE waiters # <<>>
  <2>1. /\ running' = (running \ {call}) \cup {Head(waiters)}
        /\ waiters' = Tail(waiters) /\ active' = active
    BY <1>1 DEF Release
  <2>2. waiters \in Seq(Waiting) /\ Len(waiters) \in Nat \ {0}
    BY <1>1 DEF PermitInv
  <2>3. /\ Head(waiters) = waiters[1] /\ 1 \in DOMAIN waiters
        /\ DOMAIN waiters = 1 .. Len(waiters)
        /\ DOMAIN waiters' = 1 .. Len(waiters) - 1
        /\ \A k \in 1 .. Len(waiters) - 1 : waiters'[k] = waiters[k + 1]
    BY <2>1, <2>2
  <2>4. Head(waiters) \in Waiting /\ Head(waiters) \notin running
    BY <2>3 DEF Waiting, PermitInv
  <2>5. Waiting' = Waiting \ {Head(waiters)}
    <3>1. ASSUME NEW x \in Waiting' PROVE x \in Waiting \ {Head(waiters)}
      <4>1. PICK k \in 1 .. Len(waiters) - 1 : x = waiters[k + 1]
        BY <2>3 DEF Waiting
      <4>2. k + 1 \in DOMAIN waiters /\ k + 1 # 1
        BY <2>2, <2>3
      <4> QED BY <4>1, <4>2, <2>3 DEF Waiting, PermitInv
    <3>2. ASSUME NEW x \in Waiting \ {Head(waiters)} PROVE x \in Waiting'
      <4>1. PICK k \in DOMAIN waiters : x = waiters[k]
        BY DEF Waiting
      <4>2. k - 1 \in 1 .. Len(waiters) - 1 /\ (k - 1) + 1 = k
        BY <4>1, <2>2, <2>3
      <4>3. waiters'[k - 1] = x /\ k - 1 \in DOMAIN waiters'
        BY <4>1, <4>2, <2>3
      <4> QED BY <4>3 DEF Waiting
    <3> QED BY <3>1, <3>2
  <2>6. waiters' \in Seq(Waiting')
    <3>1. \A k \in 1 .. Len(waiters) - 1 : waiters'[k] \in Waiting'
      BY <2>3 DEF Waiting
    <3>2. waiters' \in Seq(Waiting)
      BY <2>1, <2>2
    <3>3. Len(waiters') = Len(waiters) - 1
      BY <2>1, <2>2
    <3> QED BY <3>1, <3>2, <3>3, SeqOver
  <2>7. \A k, l \in DOMAIN waiters' : waiters'[k] = waiters'[l] => k = l
    <3>1. TAKE k, l \in DOMAIN waiters'
    <3>2. k + 1 \in DOMAIN waiters /\ l + 1 \in DOMAIN waiters
      BY <2>2, <2>3
    <3>3. waiters'[k] = waiters'[l] => k + 1 = l + 1
      BY <2>3, <3>2 DEF PermitInv
    <3> QED BY <2>2, <2>3, <3>3
  <2>8. IsFiniteSet(running') /\ Cardinality(running') = Cardinality(running)
    <3> DEFINE rest == running \ {call}
    <3>1. Head(waiters) \notin rest
      BY <2>4
    <3>2. /\ IsFiniteSet(rest \cup {Head(waiters)})
          /\ Cardinality(rest \cup {Head(waiters)}) = Cardinality(rest) + 1
      BY <1>0, <3>1, FS_AddElement
    <3>3. Cardinality(running) \in Nat
      BY FS_CardinalityType DEF PermitInv
    <3>4. Cardinality(rest) = Cardinality(running) - 1
      BY <1>0
    <3> HIDE DEF rest
    <3>5. running' = rest \cup {Head(waiters)}
      BY <2>1 DEF rest
    <3> QED BY <3>2, <3>3, <3>4, <3>5
  <2>9. running' \cap Waiting' = {}
    BY <2>1, <2>5 DEF PermitInv
  <2>10. PermitInv'
    BY <1>1, <2>1, <2>6, <2>7, <2>8, <2>9 DEF PermitInv
  <2>11. call \notin Waiting
    BY DEF PermitInv
  <2> QED BY <2>1, <2>4, <2>5, <2>10, <2>11 DEF InFlight
<1>2. CASE waiters = <<>>
  <2>1. /\ running' = running \ {call} /\ waiters' = waiters
        /\ active' = active - 1
    BY <1>2 DEF Release
  <2>2. Waiting' = Waiting /\ Waiting = {}
    BY <1>2, <2>1 DEF Waiting
  <2>3. PermitInv'
    BY <1>0, <1>2, <2>1, <2>2, HistoricalAssumption DEF PermitInv
  <2> QED BY <2>1, <2>2, <2>3 DEF InFlight
<1> QED BY <1>1, <1>2

-----------------------------------------------------------------------------
(* The workers.                                                            *)

LEMMA MinOfTwo ==
  ASSUME NEW a \in Int, NEW b \in Int
  PROVE  Min({a, b}) \in {a, b}
<1>1. \E x \in {a, b} : \A y \in {a, b} : x <= y
  OBVIOUS
<1> QED BY <1>1 DEF Min

LEMMA TailOf ==
  ASSUME NEW A, NEW q \in Seq(A), q # <<>>
  PROVE  /\ Tail(q) \in Seq(A)
         /\ Len(q) # 1 => Tail(q) # <<>>
<1>1. Len(q) \in Nat \ {0} /\ Tail(q) \in Seq(A) /\ Len(Tail(q)) = Len(q) - 1
  OBVIOUS
<1>2. Len(<<>>) = 0
  OBVIOUS
<1>3. Len(q) # 1 => Len(Tail(q)) # 0
  BY <1>1
<1>4. Len(Tail(q)) # 0 => Tail(q) # <<>>
  BY <1>2, Zenon
<1> QED BY <1>1, <1>3, <1>4, Zenon

LEMMA HeadOf ==
  ASSUME NEW j, JobOK(j), j.todo # <<>>
  PROVE  /\ Head(j.todo) \in Int \X Int
         /\ First(j) \in Int /\ Last(j) \in Int
         /\ Tail(j.todo) \in Seq(Int \X Int)
         /\ Len(j.todo) # 1 => Tail(j.todo) # <<>>
<1>1. j.todo \in Seq(Int \X Int)
  BY DEF JobOK
<1>2. Head(j.todo) \in Int \X Int
  BY <1>1
<1>3. /\ Tail(j.todo) \in Seq(Int \X Int)
      /\ Len(j.todo) # 1 => Tail(j.todo) # <<>>
  BY <1>1, TailOf
<1>4. First(j) \in Int /\ Last(j) \in Int
  BY <1>2 DEF First, Last
<1> QED BY <1>2, <1>3, <1>4

LEMMA NewJobOK ==
  ASSUME NEW mode \in {"pick", "ended"}
  PROVE  JobOK(NewJob(mode)) /\ NewJob(mode).mode = mode
  BY DEF JobOK, NewJob, Modes

LEMMA ChunkOK ==
  ASSUME NEW base \in Int, NEW todo \in Seq(Int \X Int), todo # <<>>,
         NEW j, j = [NewJob("multi") EXCEPT !.base = base, !.todo = todo]
  PROVE  JobOK(j) /\ j.todo = todo /\ j.mode = "multi"
  BY DEF JobOK, NewJob, Modes

LEMMA FanoutOK ==
  ASSUME NEW j, JobOK(j), j.todo # <<>>
  PROVE  JobOK(Fanout(j)) /\ Fanout(j).mode = "direct"
<1> DEFINE f == Fanout(j)
<1>1. DOMAIN f = DOMAIN j
  BY DEF Fanout
<1>3. f.mode = "direct" /\ f.next = First(j) /\ f.todo = j.todo
      /\ f.res = [i \in First(j) .. Last(j) |-> None] /\ f.base = j.base
  BY DEF Fanout, JobOK
<1>2. First(f) = First(j) /\ Last(f) = Last(j)
  BY <1>3 DEF First, Last
<1>5. First(j) \in Int /\ Last(j) \in Int /\ j.base \in Int
      /\ j.todo \in Seq(Int \X Int)
  BY HeadOf DEF JobOK
<1> HIDE DEF f
<1>6. JobOK(f)
  BY <1>1, <1>2, <1>3, <1>5 DEF JobOK, Modes
<1> QED BY <1>3, <1>6 DEF f

LEMMA AnsweredOK ==
  ASSUME NEW j, JobOK(j), j.todo # <<>>, NEW results
  PROVE  JobOK(Answered(j, results))
<1> DEFINE f == Answered(j, results)
<1>1. f.mode = IF Len(j.todo) = 1 THEN "pick" ELSE "multi"
  BY DEF Answered, NewJob
<1>2. f.base = j.base /\ f.todo = Tail(j.todo) /\ f.next = 0
  BY DEF Answered, NewJob
<1>3. DOMAIN f = {"mode", "base", "todo", "got", "next", "lanes", "res", "redo"}
  BY DEF Answered, NewJob
<1>4. j.base \in Int
  BY DEF JobOK
<1> HIDE DEF f
<1>5. Tail(j.todo) \in Seq(Int \X Int)
      /\ (Len(j.todo) # 1 => Tail(j.todo) # <<>>)
  BY HeadOf
<1>6. f.mode \in {"pick", "multi"} /\ (f.mode = "multi" => f.todo # <<>>)
  BY <1>1, <1>2, <1>5
<1>7. f.next \in Int
  BY <1>2
<1>8. JobOK(f)
  BY <1>2, <1>3, <1>4, <1>5, <1>6, <1>7 DEF JobOK, Modes
<1> QED BY <1>8 DEF f

(* One worker changes.                                                     *)
Change(c, w, j) == job' = [job EXCEPT ![c][w] = j]

LEMMA SetJob ==
  ASSUME JobsInv, NEW c \in Callers, NEW w \in Workers, NEW j, JobOK(j),
         Change(c, w, j)
  PROVE  /\ JobsInv'
         /\ job'[c][w] = j
         /\ \A d \in Callers, x \in Workers :
              d # c \/ x # w => job'[d][x] = job[d][x]
<1>1. /\ job'[c][w] = j
      /\ \A d \in Callers, x \in Workers :
           d # c \/ x # w => job'[d][x] = job[d][x]
  BY DEF JobsInv, Change
<1>2. job' = [d \in Callers |-> [x \in Workers |-> job'[d][x]]]
  BY DEF JobsInv, Change
<1>3. \A d \in Callers, x \in Workers : JobOK(job'[d][x])
  BY <1>1 DEF JobsInv
<1> QED BY <1>1, <1>2, <1>3 DEF JobsInv

(* A step that changes one worker and the direct calls of that worker.     *)
LEMMA OneChanges ==
  ASSUME Inv, NEW c \in Callers, NEW w \in Workers, NEW j, JobOK(j),
         Change(c, w, j),
         job[c][w].mode # "ended",
         PermitInv',
         \A x \in InFlight' : x \in InFlight \/ (x[1] = c /\ x[2] = w),
         \A x \in InFlight' : x[1] = c /\ x[2] = w => Fits(x, j),
         \A x, y \in InFlight' :
           /\ x[1] = c /\ x[2] = w /\ y[1] = c /\ y[2] = w
           /\ j.mode = "retry"
           => x = y,
         phase' = phase \/ Rejected(c),
         PhaseInv => cut' = [d \in Callers |-> cut'[d]]
                       /\ \A d \in Callers : cut'[d] \in Int,
         LimitInv'
  PROVE  Inv'
<1>1. /\ JobsInv' /\ job'[c][w] = j
      /\ \A d \in Callers, x \in Workers :
           d # c \/ x # w => job'[d][x] = job[d][x]
  <2>1. JobsInv
    BY DEF Inv
  <2> QED BY <2>1, SetJob
<1>2. FlightsInv'
  <2>1. ASSUME NEW call \in InFlight'
        PROVE  /\ call[1] \in Callers /\ call[2] \in Workers
               /\ Fits(call, job'[call[1]][call[2]])
    <3>1. CASE call[1] = c /\ call[2] = w
      BY <1>1, <2>1, <3>1
    <3>2. CASE ~(call[1] = c /\ call[2] = w)
      BY <1>1, <2>1, <3>2 DEF Inv, FlightsInv
    <3> QED BY <3>1, <3>2
  <2>2. ASSUME NEW a \in InFlight', NEW b \in InFlight',
               a[1] = b[1], a[2] = b[2], job'[a[1]][a[2]].mode = "retry"
        PROVE  a = b
    <3>1. CASE a[1] = c /\ a[2] = w
      BY <1>1, <2>2, <3>1
    <3>2. CASE ~(a[1] = c /\ a[2] = w)
      <4>1. a \in InFlight /\ b \in InFlight
        BY <2>2, <3>2
      <4>2. a[1] \in Callers /\ a[2] \in Workers
        BY <2>1
      <4>3. job[a[1]][a[2]].mode = "retry"
        BY <1>1, <2>2, <3>2, <4>2
      <4> QED BY <2>2, <4>1, <4>3 DEF Inv, FlightsInv
    <3> QED BY <3>1, <3>2
  <2> QED BY <2>1, <2>2 DEF FlightsInv
<1>3. PhaseInv'
  <2>1. phase[c] \notin {"idle", "probing"}
    BY DEF Inv, PhaseInv
  <2>2. /\ phase' = [d \in Callers |-> phase'[d]]
        /\ \A d \in Callers : phase'[d] \in {"idle", "probing"} =>
             d # c /\ phase[d] \in {"idle", "probing"}
    BY <2>1 DEF Inv, PhaseInv, Rejected
  <2>3. \A d \in Callers : phase'[d] \in {"idle", "probing"} =>
          \A x \in Workers : job'[d][x].mode = "ended"
    BY <1>1, <2>2 DEF Inv, PhaseInv
  <2> QED BY <2>2, <2>3 DEF Inv, PhaseInv
<1> QED BY <1>1, <1>2, <1>3 DEF Inv

(* A step that changes one worker, which has no direct call in flight, and *)
(* leaves the permits alone.                                               *)
LEMMA WorkerKeeps ==
  ASSUME Inv, NEW c \in Callers, NEW w \in Workers, NEW j, JobOK(j),
         Change(c, w, j),
         job[c][w].mode # "ended",
         \A call \in InFlight : ~(call[1] = c /\ call[2] = w),
         UNCHANGED permits,
         phase' = phase \/ Rejected(c),
         PhaseInv => cut' = [d \in Callers |-> cut'[d]]
                       /\ \A d \in Callers : cut'[d] \in Int,
         LimitInv'
  PROVE  Inv'
<1>1. running' = running /\ waiters' = waiters /\ active' = active
  BY DEF permits
<1>2. PermitInv' /\ InFlight' = InFlight
  BY <1>1 DEF Inv, PermitInv, InFlight, Waiting
<1> QED BY <1>2, OneChanges

LEMMA SameCut ==
  ASSUME cut' = cut
  PROVE  PhaseInv => cut' = [d \in Callers |-> cut'[d]]
                       /\ \A d \in Callers : cut'[d] \in Int
  BY DEF PhaseInv

LEMMA SameLimit ==
  ASSUME Inv, limit' = limit
  PROVE  LimitInv'
  BY DEF Inv, LimitInv

LEMMA NotInFlight ==
  ASSUME FlightsInv, NEW c \in Callers, NEW w \in Workers,
         job[c][w].mode \notin {"direct", "retry", "threw"}
  PROVE  \A call \in InFlight : ~(call[1] = c /\ call[2] = w)
  BY DEF FlightsInv, Fits

LEMMA OneJob ==
  ASSUME Inv, NEW c \in Callers, NEW w \in Workers
  PROVE  JobOK(job[c][w])
  BY DEF Inv, JobsInv

LEMMA LenKind ==
  ASSUME NEW c \in Callers
  PROVE  Len(Kind[c]) \in Nat /\ ChunkSize[c] \in Nat
<1>1. Kind[c] \in Seq({"ok", "revert", "empty"})
  BY HistoricalAssumption
<1>2. Len(Kind[c]) \in Nat
  BY <1>1
<1> QED BY <1>2, HistoricalAssumption

LEMMA PickKeeps ==
  ASSUME Inv, NEW c \in Callers, NEW w \in Workers, Pick(c, w)
  PROVE  Inv'
<1>1. /\ \A call \in InFlight : ~(call[1] = c /\ call[2] = w)
      /\ job[c][w].mode # "ended" /\ UNCHANGED permits /\ phase' = phase
      /\ LimitInv'
  BY NotInFlight DEF Inv, Pick, LimitInv
<1>2. CASE cut[c] >= Len(Kind[c])
  <2>1. Change(c, w, NewJob("ended")) /\ cut' = cut
    BY <1>2 DEF Pick, Change
  <2>2. JobOK(NewJob("ended"))
    BY NewJobOK
  <2>3. PhaseInv => cut' = [d \in Callers |-> cut'[d]]
                      /\ \A d \in Callers : cut'[d] \in Int
    BY <2>1 DEF PhaseInv
  <2> QED BY <1>1, <2>1, <2>2, <2>3, WorkerKeeps
<1>3. CASE ~(cut[c] >= Len(Kind[c]))
  <2> DEFINE end == Min({cut[c] + ChunkSizeNow(c), Len(Kind[c])})
             todo == << <<cut[c] + 1, end>> >>
             j == [NewJob("multi") EXCEPT !.base = cut[c], !.todo = todo]
             k == IF version = "none" THEN Fanout(j) ELSE j
  <2>1. job' = [job EXCEPT ![c][w] = k] /\ cut' = [cut EXCEPT ![c] = end]
    BY <1>3 DEF Pick
  <2>2. ChunkSizeNow(c) \in Int
    <3>1. limit # None => limit \in Int
      BY DEF Inv, LimitInv
    <3>2. limit # None => Min({ChunkSize[c], limit}) \in {ChunkSize[c], limit}
      BY <3>1, LenKind, MinOfTwo
    <3> QED BY <3>1, <3>2, LenKind DEF ChunkSizeNow
  <2>3. cut[c] \in Int
    BY DEF Inv, PhaseInv
  <2>4. end \in Int
    <3>1. cut[c] + ChunkSizeNow(c) \in Int /\ Len(Kind[c]) \in Int
      BY <2>2, <2>3, LenKind
    <3> QED BY <3>1, MinOfTwo
  <2> HIDE DEF end
  <2>5. todo \in Seq(Int \X Int) /\ todo # <<>>
    BY <2>3, <2>4
  <2> HIDE DEF todo
  <2>6. JobOK(j) /\ j.todo # <<>>
    BY <2>3, <2>5, ChunkOK, ZenonT(60)
  <2> HIDE DEF j
  <2>7. JobOK(k)
    BY <2>6, FanoutOK
  <2>8. PhaseInv => cut' = [d \in Callers |-> cut'[d]]
                      /\ \A d \in Callers : cut'[d] \in Int
    BY <2>1, <2>4 DEF PhaseInv
  <2> HIDE DEF k
  <2>9. PICK new : JobOK(new) /\ Change(c, w, new)
    BY <2>1, <2>7 DEF Change
  <2> QED BY <1>1, <2>8, <2>9, WorkerKeeps
<1> QED BY <1>2, <1>3

LEMMA MultiAnswersKeeps ==
  ASSUME Inv, NEW c \in Callers, NEW w \in Workers, MultiAnswers(c, w)
  PROVE  Inv'
<1>1. job[c][w].mode = "multi" /\ UNCHANGED <<permits, phase, cut, limit>>
  BY DEF MultiAnswers
<1>2. \A call \in InFlight : ~(call[1] = c /\ call[2] = w)
  BY <1>1, NotInFlight DEF Inv
<1>3. PICK results :
        job' = [job EXCEPT ![c][w] = Answered(job[c][w], results)]
  BY DEF MultiAnswers, Becomes
<1>4. JobOK(job[c][w]) /\ job[c][w].todo # <<>>
  BY <1>1, OneJob DEF JobOK
<1>5. JobOK(Answered(job[c][w], results))
  BY <1>4, AnsweredOK
<1>6. PICK new : JobOK(new) /\ Change(c, w, new)
  BY <1>3, <1>5 DEF Change
<1> QED BY <1>1, <1>2, <1>6, SameCut, SameLimit, WorkerKeeps

LEMMA MultiFallsBackKeeps ==
  ASSUME Inv, NEW c \in Callers, NEW w \in Workers, MultiFallsBack(c, w)
  PROVE  Inv'
<1>1. job[c][w].mode = "multi" /\ UNCHANGED <<permits, phase, cut, limit>>
  BY DEF MultiFallsBack
<1>2. \A call \in InFlight : ~(call[1] = c /\ call[2] = w)
  BY <1>1, NotInFlight DEF Inv
<1>3. job' = [job EXCEPT ![c][w] = Fanout(job[c][w])]
  BY DEF MultiFallsBack, Inv, JobsInv
<1>4. JobOK(job[c][w]) /\ job[c][w].todo # <<>>
  BY <1>1, OneJob DEF JobOK
<1>5. JobOK(Fanout(job[c][w]))
  BY <1>4, FanoutOK
<1>6. PICK new : JobOK(new) /\ Change(c, w, new)
  BY <1>3, <1>5 DEF Change
<1> QED BY <1>1, <1>2, <1>6, SameCut, SameLimit, WorkerKeeps

LEMMA ThrewOK ==
  ASSUME NEW j, JobOK(j), j.todo # <<>>
  PROVE  JobOK([j EXCEPT !.mode = "threw"])
<1> DEFINE f == [j EXCEPT !.mode = "threw"]
<1>1. /\ DOMAIN f = DOMAIN j /\ f.mode = "threw" /\ f.next = j.next
      /\ f.base = j.base /\ f.todo = j.todo
  BY DEF JobOK
<1> HIDE DEF f
<1>2. JobOK(f)
  BY <1>1 DEF JobOK, Modes
<1> QED BY <1>2 DEF f

LEMMA MultiUnavailableKeeps ==
  ASSUME Inv, NEW c \in Callers, NEW w \in Workers, MultiUnavailable(c, w)
  PROVE  Inv'
<1>1. job[c][w].mode = "multi" /\ UNCHANGED <<permits, cut, limit>>
      /\ Rejected(c)
  BY DEF MultiUnavailable
<1>2. \A call \in InFlight : ~(call[1] = c /\ call[2] = w)
  BY <1>1, NotInFlight DEF Inv
<1>3. job' = [job EXCEPT ![c][w] = [job[c][w] EXCEPT !.mode = "threw"]]
  BY DEF MultiUnavailable, Inv, JobsInv
<1>4. JobOK(job[c][w]) /\ job[c][w].todo # <<>>
  BY <1>1, OneJob DEF JobOK
<1>5. JobOK([job[c][w] EXCEPT !.mode = "threw"])
  BY <1>4, ThrewOK
<1>6. PICK new : JobOK(new) /\ Change(c, w, new)
  BY <1>3, <1>5 DEF Change
<1> QED BY <1>1, <1>2, <1>6, SameCut, SameLimit, WorkerKeeps

(* Half of a range that is larger than the minimum is not below half of it.*)
LEMMA HalfBounds ==
  ASSUME NEW size \in Int, size > MinMulticallChunk
  PROVE  Ceil(size, 2) \in Nat /\ 2 * Ceil(size, 2) > MinMulticallChunk
  BY HistoricalAssumption DEF Ceil

LEMMA MultiSplitsLimit ==
  ASSUME Inv, NEW c \in Callers, NEW w \in Workers, MultiSplits(c, w)
  PROVE  /\ LimitInv' /\ limit' # None
         /\ limit # None => limit' <= limit
<1> DEFINE size == Size(Head(job[c][w].todo))
<1>1. Head(job[c][w].todo) \in Int \X Int
  BY OneJob, HeadOf DEF MultiSplits, JobOK
<1>2. size \in Int
  BY <1>1 DEF Size
<1>3. size > MinMulticallChunk /\ limit' = Remembered(Ceil(size, 2))
  BY DEF MultiSplits
<1> HIDE DEF size
<1>4. Ceil(size, 2) \in Nat /\ 2 * Ceil(size, 2) > MinMulticallChunk
  BY <1>2, <1>3, HalfBounds
<1>5. None \notin Nat
  BY HistoricalAssumption
<1>6. CASE limit = None
  BY <1>3, <1>4, <1>5, <1>6 DEF Remembered, LimitInv
<1>7. CASE limit # None
  <2>1. limit \in Nat /\ 2 * limit > MinMulticallChunk
    BY <1>7 DEF Inv, LimitInv
  <2>2. limit' \in {limit, Ceil(size, 2)} /\ limit' <= limit
    <3>1. \E x \in {limit, Ceil(size, 2)} :
            \A y \in {limit, Ceil(size, 2)} : x <= y
      BY <1>4, <2>1
    <3> QED BY <1>3, <1>7, <3>1 DEF Remembered, Min
  <2> QED BY <1>4, <1>5, <2>1, <2>2 DEF LimitInv
<1> QED BY <1>6, <1>7

LEMMA ConcatOf ==
  ASSUME NEW A, NEW p \in Seq(A), NEW q \in Seq(A)
  PROVE  p \o q \in Seq(A) /\ Len(p \o q) = Len(p) + Len(q)
  OBVIOUS

LEMMA HalvesOK ==
  ASSUME NEW j, JobOK(j), j.todo # <<>>, j.mode = "multi"
  PROVE  JobOK([j EXCEPT !.todo = Halves(Head(j.todo)) \o Tail(j.todo)])
<1> DEFINE halves == Halves(Head(j.todo))
           rest   == Tail(j.todo)
           both   == halves \o rest
           f      == [j EXCEPT !.todo = both]
<1>1. Head(j.todo) \in Int \X Int /\ rest \in Seq(Int \X Int)
  BY HeadOf
<1>2. halves \in Seq(Int \X Int) /\ Len(halves) = 2
  <2> DEFINE r      == Head(j.todo)
             middle == r[1] + Ceil(Size(r), 2) - 1
  <2>1. r[1] \in Int /\ r[2] \in Int
    BY <1>1
  <2>2. middle \in Int
    BY <2>1 DEF Ceil, Size
  <2>3. halves = << <<r[1], middle>>, <<middle + 1, r[2]>> >>
    BY DEF Halves
  <2> HIDE DEF middle, halves
  <2> QED BY <2>1, <2>2, <2>3
<1> HIDE DEF halves, rest
<1>3. both \in Seq(Int \X Int) /\ Len(both) = Len(halves) + Len(rest)
  BY <1>1, <1>2, ConcatOf
<1>4. both # <<>>
  <2>1. Len(rest) \in Nat /\ Len(<<>>) = 0
    BY <1>1
  <2>2. Len(both) # 0
    BY <1>2, <1>3, <2>1
  <2> HIDE DEF both
  <2> QED BY <2>1, <2>2, Zenon
<1> HIDE DEF both
<1>5. /\ DOMAIN f = DOMAIN j /\ f.mode = j.mode /\ f.next = j.next
      /\ f.base = j.base /\ f.todo = both
  BY DEF JobOK
<1> HIDE DEF f
<1>6. JobOK(f)
  BY <1>3, <1>4, <1>5 DEF JobOK
<1> QED BY <1>6 DEF f, both, halves, rest

LEMMA MultiSplitsKeeps ==
  ASSUME Inv, NEW c \in Callers, NEW w \in Workers, MultiSplits(c, w)
  PROVE  Inv'
<1> DEFINE j == job[c][w]
           f == [j EXCEPT !.todo = Halves(Head(j.todo)) \o Tail(j.todo)]
<1>1. job[c][w].mode = "multi" /\ UNCHANGED <<permits, cut, phase>>
  BY DEF MultiSplits
<1>2. \A call \in InFlight : ~(call[1] = c /\ call[2] = w)
  BY <1>1, NotInFlight DEF Inv
<1>3. job' = [job EXCEPT ![c][w] = f]
  BY DEF MultiSplits, Inv, JobsInv
<1>4. JobOK(j) /\ j.todo # <<>>
  BY <1>1, OneJob DEF JobOK
<1>5. JobOK(f)
  BY <1>1, <1>4, HalvesOK
<1> HIDE DEF f
<1>6. PICK new : JobOK(new) /\ Change(c, w, new)
  BY <1>3, <1>5 DEF Change
<1> QED BY <1>1, <1>2, <1>6, SameCut, MultiSplitsLimit, WorkerKeeps

-----------------------------------------------------------------------------
(* Fan-outs and their direct calls.                                        *)

(* A fan-out whose calls are all answered has none in flight, and its      *)
(* lanes have taken all calls.                                             *)
LEMMA FannedOutIsThrough ==
  ASSUME Inv, NEW c \in Callers, NEW w \in Workers, FannedOut(job[c][w])
  PROVE  /\ \A call \in InFlight : ~(call[1] = c /\ call[2] = w)
         /\ job[c][w].next > Last(job[c][w])
<1> DEFINE j == job[c][w]
<1>1. j.mode = "direct" /\ \A i \in First(j) .. Last(j) : j.res[i] # None
  BY DEF FannedOut
<1>2. JobOK(j) /\ j.todo # <<>>
  BY <1>1, OneJob DEF JobOK
<1>3. /\ First(j) \in Int /\ Last(j) \in Int
      /\ j.next \in Int /\ First(j) <= j.next
  BY <1>1, <1>2, HeadOf DEF JobOK
<1>4. \A call \in InFlight : call[1] = c /\ call[2] = w =>
        call[3] \in First(j) .. Last(j) /\ j.res[call[3]] = None
  BY <1>1 DEF Inv, FlightsInv, Fits
<1>5. \A i \in First(j) .. Last(j) : i >= j.next => j.res[i] = None
  BY <1>1, <1>2 DEF JobOK
<1>6. ~(j.next \in First(j) .. Last(j))
  BY <1>1, <1>3, <1>5
<1> HIDE DEF j
<1>7. j.next > Last(j)
  BY <1>3, <1>6
<1> QED BY <1>1, <1>4, <1>7 DEF j

LEMMA RetryOK ==
  ASSUME NEW j, JobOK(j), j.todo # <<>>, j.next > Last(j), NEW errors
  PROVE  JobOK([j EXCEPT !.mode = "retry", !.lanes = 1, !.redo = errors])
<1> DEFINE f == [j EXCEPT !.mode = "retry", !.lanes = 1, !.redo = errors]
<1>1. DOMAIN f = DOMAIN j
  OBVIOUS
<1>2. f.mode = "retry" /\ f.next = j.next /\ f.base = j.base /\ f.todo = j.todo
  BY DEF JobOK
<1>3. Last(f) = Last(j)
  BY <1>2 DEF Last
<1> HIDE DEF f
<1>4. JobOK(f)
  BY <1>1, <1>2, <1>3 DEF JobOK, Modes
<1> QED BY <1>4 DEF f

LEMMA FanoutEndsKeeps ==
  ASSUME Inv, NEW c \in Callers, NEW w \in Workers, FanoutEnds(c, w)
  PROVE  Inv'
<1> DEFINE j == job[c][w]
           r == [j EXCEPT !.mode = "retry", !.lanes = 1, !.redo = Errors(j)]
<1>1. FannedOut(j) /\ j.mode = "direct"
      /\ UNCHANGED <<permits, phase, cut, limit>>
  BY DEF FanoutEnds, FannedOut
<1>2. \A call \in InFlight : ~(call[1] = c /\ call[2] = w)
  BY <1>1, FannedOutIsThrough
<1>3. JobOK(j) /\ j.todo # <<>> /\ j.next > Last(j)
  BY <1>1, OneJob, FannedOutIsThrough DEF JobOK
<1>4. JobOK(Answered(j, Results(j))) /\ JobOK(r)
  BY <1>3, AnsweredOK, RetryOK
<1>5. \/ job' = [job EXCEPT ![c][w] = Answered(j, Results(j))]
      \/ job' = [job EXCEPT ![c][w] = r]
  BY DEF FanoutEnds, Becomes
<1>6. PICK new : JobOK(new) /\ Change(c, w, new)
  <2> HIDE DEF r
  <2> QED BY <1>4, <1>5 DEF Change
<1> QED BY <1>1, <1>2, <1>6, SameCut, SameLimit, WorkerKeeps

LEMMA RetryEndsKeeps ==
  ASSUME Inv, NEW c \in Callers, NEW w \in Workers, RetryEnds(c, w)
  PROVE  Inv'
<1> DEFINE j == job[c][w]
<1>1. j.mode = "retry" /\ j.lanes = 1
      /\ UNCHANGED <<permits, phase, cut, limit>>
  BY DEF RetryEnds
<1>2. \A call \in InFlight : ~(call[1] = c /\ call[2] = w)
  BY <1>1 DEF Inv, FlightsInv, Fits
<1>3. JobOK(j) /\ j.todo # <<>>
  BY <1>1, OneJob DEF JobOK
<1>4. JobOK(Answered(j, Results(j)))
  BY <1>3, AnsweredOK
<1>5. job' = [job EXCEPT ![c][w] = Answered(j, Results(j))]
  BY DEF RetryEnds, Becomes
<1>6. PICK new : JobOK(new) /\ Change(c, w, new)
  BY <1>4, <1>5 DEF Change
<1> QED BY <1>1, <1>2, <1>6, SameCut, SameLimit, WorkerKeeps

LEMMA TakenOK ==
  ASSUME NEW j, JobOK(j), j.mode \in {"direct", "threw"}, j.next <= Last(j),
         NEW f, f = [j EXCEPT !.next = j.next + 1, !.lanes = j.lanes - 1]
  PROVE  /\ JobOK(f) /\ f.mode = j.mode
         /\ \A call : Fits(call, j) => Fits(call, f)
         /\ \A c, w : Fits(<<c, w, j.next>>, f)
<1>1. /\ DOMAIN f = DOMAIN j
      /\ f.mode = j.mode /\ f.next = j.next + 1 /\ f.base = j.base
      /\ f.todo = j.todo /\ f.res = j.res
  BY DEF JobOK
<1>2. First(f) = First(j) /\ Last(f) = Last(j)
  BY <1>1 DEF First, Last
<1>3. First(j) \in Int /\ Last(j) \in Int /\ j.next \in Int
  BY HeadOf DEF JobOK
<1>4. JobOK(f)
  BY <1>1, <1>2, <1>3 DEF JobOK, Modes
<1>5. ASSUME NEW call, Fits(call, j) PROVE Fits(call, f)
  <2>1. f.mode = "direct" => /\ call[3] \in First(f) .. Last(f)
                             /\ call[3] < f.next /\ f.res[call[3]] = None
    BY <1>1, <1>2, <1>3, <1>5 DEF Fits
  <2>2. f.mode = "threw" /\ f.next <= Last(f) =>
          call[3] \in Int /\ call[3] < f.next
    BY <1>1, <1>2, <1>3, <1>5 DEF Fits
  <2>3. call = <<call[1], call[2], call[3]>>
    BY <1>5 DEF Fits
  <2> QED BY <1>1, <1>5, <2>1, <2>2, <2>3 DEF Fits
<1>6. ASSUME NEW c, NEW w, NEW call, call = <<c, w, j.next>> PROVE Fits(call, f)
  <2>1. f.mode = "direct" => /\ call[3] \in First(f) .. Last(f)
                             /\ call[3] < f.next /\ f.res[call[3]] = None
    BY <1>1, <1>2, <1>3, <1>6 DEF JobOK
  <2>2. call = <<call[1], call[2], call[3]>>
    BY <1>6
  <2>3. call[3] \in Int /\ call[3] < f.next
    BY <1>1, <1>3, <1>6
  <2> QED BY <1>1, <2>1, <2>2, <2>3 DEF Fits
<1> QED BY <1>1, <1>4, <1>5, <1>6

LEMMA LaneTakesKeeps ==
  ASSUME Inv, NEW c \in Callers, NEW w \in Workers, LaneTakes(c, w)
  PROVE  Inv'
<1> DEFINE j == job[c][w]
           call == <<c, w, j.next>>
           f == [j EXCEPT !.next = j.next + 1, !.lanes = j.lanes - 1]
<1>1. /\ j.mode \in {"direct", "threw"} /\ j.next <= Last(j)
      /\ Acquire(call) /\ UNCHANGED <<phase, cut, limit>>
  BY DEF LaneTakes, LaneFree
<1>2. JobOK(j) /\ j.next \in Int
  BY OneJob DEF JobOK
<1>3. call \notin InFlight
  <2>1. ASSUME NEW x \in InFlight, x[1] = c, x[2] = w PROVE x[3] # j.next
    <3>1. Fits(x, j)
      BY <2>1 DEF Inv, FlightsInv
    <3> QED BY <1>1, <1>2, <3>1 DEF Fits
  <2> QED BY <2>1
<1>4. PermitInv' /\ InFlight' = InFlight \cup {call}
  BY <1>1, <1>3, AcquireKeeps DEF Inv
<1>5. job' = [job EXCEPT ![c][w] = f]
  BY DEF LaneTakes, Inv, JobsInv
<1>6. /\ JobOK(f) /\ f.mode = j.mode
      /\ \A x : Fits(x, j) => Fits(x, f)
      /\ Fits(<<c, w, j.next>>, f)
  BY <1>1, <1>2, TakenOK, ZenonT(60)
<1> HIDE DEF f
<1>7. PICK new : new = f /\ Change(c, w, new)
  BY <1>5 DEF Change
<1>8. \A x \in InFlight' : x[1] = c /\ x[2] = w => Fits(x, new)
  BY <1>4, <1>6, <1>7 DEF Inv, FlightsInv
<1>9. \A x \in InFlight' : x \in InFlight \/ (x[1] = c /\ x[2] = w)
  BY <1>4
<1>10. JobOK(new) /\ new.mode # "retry" /\ j.mode # "ended"
  BY <1>1, <1>6, <1>7
<1> HIDE DEF call
<1> QED BY <1>1, <1>4, <1>7, <1>8, <1>9, <1>10, SameCut, SameLimit, OneChanges

LEMMA RedoneOK ==
  ASSUME NEW j, JobOK(j), j.mode = "retry", NEW redo,
         NEW f, f = [j EXCEPT !.redo = redo, !.lanes = 0]
  PROVE  JobOK(f) /\ f.mode = "retry" /\ f.lanes = 0
<1>1. /\ DOMAIN f = DOMAIN j
      /\ f.mode = j.mode /\ f.next = j.next /\ f.base = j.base
      /\ f.todo = j.todo /\ f.lanes = 0
  BY DEF JobOK
<1>2. Last(f) = Last(j)
  BY <1>1 DEF Last
<1>3. JobOK(f)
  BY <1>1, <1>2 DEF JobOK
<1> QED BY <1>1, <1>3

LEMMA RetryTakesKeeps ==
  ASSUME Inv, NEW c \in Callers, NEW w \in Workers, RetryTakes(c, w)
  PROVE  Inv'
<1> DEFINE j == job[c][w]
           call == <<c, w, Min(j.redo)>>
           f == [j EXCEPT !.redo = j.redo \ {Min(j.redo)}, !.lanes = 0]
<1>1. /\ j.mode = "retry" /\ j.lanes = 1
      /\ Acquire(call) /\ UNCHANGED <<phase, cut, limit>>
  BY DEF RetryTakes
<1>2. JobOK(j)
  BY OneJob
<1>3. \A x \in InFlight : ~(x[1] = c /\ x[2] = w)
  BY <1>1 DEF Inv, FlightsInv, Fits
<1>4. call \notin InFlight /\ call[1] = c /\ call[2] = w
      /\ call = <<call[1], call[2], call[3]>>
  BY <1>3
<1>5. job' = [job EXCEPT ![c][w] = f]
  BY DEF RetryTakes, Inv, JobsInv
<1>6. JobOK(f) /\ f.mode = "retry" /\ f.lanes = 0
  BY <1>1, <1>2, RedoneOK, ZenonT(60)
<1> HIDE DEF f, call
<1>7. PermitInv' /\ InFlight' = InFlight \cup {call}
  BY <1>1, <1>4, AcquireKeeps DEF Inv
<1>8. PICK new : new = f /\ Change(c, w, new)
  BY <1>5 DEF Change
<1>9. \A x \in InFlight' : x[1] = c /\ x[2] = w => x = call /\ Fits(x, new)
  BY <1>3, <1>4, <1>6, <1>7, <1>8 DEF Fits
<1>10. \A x \in InFlight' : x \in InFlight \/ (x[1] = c /\ x[2] = w)
  BY <1>4, <1>7
<1>11. JobOK(new) /\ j.mode # "ended"
  BY <1>1, <1>6, <1>8
<1> QED BY <1>1, <1>7, <1>8, <1>9, <1>10, <1>11, SameCut, SameLimit, OneChanges

Settled(j, i, r) == [j EXCEPT !.res[i] = r, !.lanes = j.lanes + 1]

LEMMA SettledOK ==
  ASSUME NEW j, JobOK(j), NEW call, Fits(call, j), NEW r,
         NEW f, f = Settled(j, call[3], r)
  PROVE  /\ JobOK(f) /\ f.mode = j.mode
         /\ \A x : /\ Fits(x, j) /\ x # call
                   /\ x[1] = call[1] /\ x[2] = call[2]
                   /\ j.mode # "retry"
                   => Fits(x, f)
<1>1. /\ DOMAIN f = DOMAIN j
      /\ f.mode = j.mode /\ f.next = j.next /\ f.base = j.base
      /\ f.todo = j.todo /\ f.res = [j.res EXCEPT ![call[3]] = r]
  BY DEF JobOK, Settled
<1>2. First(f) = First(j) /\ Last(f) = Last(j)
  BY <1>1 DEF First, Last
<1>3. j.mode = "direct" =>
        /\ DOMAIN f.res = First(j) .. Last(j)
        /\ \A i \in First(j) .. Last(j) : i # call[3] => f.res[i] = j.res[i]
        /\ call[3] \in First(j) .. Last(j) /\ call[3] < j.next
  BY <1>1 DEF JobOK, Fits
<1>4. JobOK(f)
  <2>1. f.mode = "direct" =>
          \A i \in First(f) .. Last(f) : i >= f.next => f.res[i] = None
    <3>1. SUFFICES ASSUME f.mode = "direct", NEW i \in First(j) .. Last(j),
                          i >= j.next
                   PROVE  f.res[i] = None
      BY <1>1, <1>2
    <3>2. First(j) \in Int /\ Last(j) \in Int /\ j.next \in Int
      BY <1>1, <3>1, HeadOf DEF JobOK
    <3>3. i # call[3]
      BY <1>1, <1>3, <3>1, <3>2
    <3> QED BY <1>1, <1>3, <3>1, <3>3 DEF JobOK
  <2> QED BY <1>1, <1>2, <1>3, <2>1 DEF JobOK
<1>5. ASSUME NEW x, Fits(x, j), x # call, x[1] = call[1], x[2] = call[2],
             j.mode # "retry"
      PROVE  Fits(x, f)
  <2>1. x = <<x[1], x[2], x[3]>> /\ call = <<call[1], call[2], call[3]>>
    BY <1>5 DEF Fits
  <2>2. x[3] # call[3]
    BY <1>5, <2>1
  <2>3. f.mode = "direct" => /\ x[3] \in First(f) .. Last(f)
                             /\ x[3] < f.next /\ f.res[x[3]] = None
    BY <1>1, <1>2, <1>3, <1>5, <2>2 DEF Fits
  <2>4. f.mode = "threw" /\ f.next <= Last(f) => x[3] \in Int /\ x[3] < f.next
    BY <1>1, <1>2, <1>5 DEF Fits
  <2>5. f.mode \in {"direct", "retry", "threw"} /\ f.mode # "retry"
    BY <1>1, <1>5 DEF Fits
  <2> QED BY <2>1, <2>3, <2>4, <2>5 DEF Fits
<1> QED BY <1>1, <1>4, <1>5

LEMMA CallSettlesKeeps ==
  ASSUME Inv, NEW call, NEW how, CallSettles(call, how)
  PROVE  Inv'
<1> DEFINE c == call[1]
           w == call[2]
           j == job[c][w]
           r == Result(call[3], how)
           f == Settled(j, call[3], r)
<1>1. /\ call \in running /\ Release(call)
      /\ UNCHANGED <<phase, cut, limit>>
  BY DEF CallSettles
<1>2. call \in InFlight
  BY <1>1 DEF InFlight
<1>3. c \in Callers /\ w \in Workers /\ Fits(call, j)
  BY <1>2 DEF Inv, FlightsInv
<1>4. JobOK(j) /\ j.mode # "ended"
  BY <1>3, OneJob DEF Fits
<1>5. PermitInv' /\ InFlight' = InFlight \ {call}
  BY <1>1, ReleaseKeeps DEF Inv
<1>6. job' = [job EXCEPT ![c][w] = f]
  BY <1>3 DEF CallSettles, Inv, JobsInv, JobOK, Settled
<1>7. /\ JobOK(f) /\ f.mode = j.mode
      /\ \A x : /\ Fits(x, j) /\ x # call
                /\ x[1] = call[1] /\ x[2] = call[2]
                /\ j.mode # "retry"
                => Fits(x, f)
  BY <1>3, <1>4, SettledOK
<1> HIDE DEF f, r
<1>8. PICK new : new = f /\ Change(c, w, new)
  BY <1>6 DEF Change
<1>9. ASSUME NEW x \in InFlight', x[1] = c, x[2] = w
      PROVE  j.mode # "retry" /\ Fits(x, new)
  <2>1. x \in InFlight /\ x # call /\ Fits(x, j)
    BY <1>5, <1>9 DEF Inv, FlightsInv
  <2>2. j.mode # "retry"
    BY <1>2, <1>9, <2>1 DEF Inv, FlightsInv
  <2> QED BY <1>7, <1>8, <1>9, <2>1, <2>2
<1>10. JobOK(new) /\ new.mode = j.mode
  BY <1>7, <1>8
<1>11. \A x \in InFlight' : x \in InFlight
  BY <1>5
<1> HIDE DEF c, w, j
<1> QED BY <1>1, <1>3, <1>4, <1>5, <1>8, <1>9, <1>10, <1>11, SameCut,
           SameLimit, OneChanges DEF j

LEMMA ThrownFits ==
  ASSUME NEW j, JobOK(j), NEW x, Fits(x, j),
         NEW f, f = [j EXCEPT !.mode = "threw"]
  PROVE  Fits(x, f)
<1>1. f.mode = "threw" /\ f.next = j.next /\ f.todo = j.todo
  BY DEF JobOK
<1>2. Last(f) = Last(j)
  BY <1>1 DEF Last
<1>3. First(j) \in Int /\ Last(j) \in Int /\ j.next \in Int
  BY HeadOf DEF JobOK, Fits
<1>4. j.next <= Last(j) => x[3] \in Int /\ x[3] < j.next
  <2>1. CASE j.mode = "direct"
    BY <1>3, <2>1 DEF Fits
  <2>2. CASE j.mode = "threw"
    BY <2>2 DEF Fits
  <2>3. CASE j.mode = "retry"
    <3>1. j.next > Last(j)
      BY <2>3 DEF JobOK
    <3> QED BY <1>3, <3>1
  <2> QED BY <2>1, <2>2, <2>3 DEF Fits
<1>5. x = <<x[1], x[2], x[3]>>
  BY DEF Fits
<1> QED BY <1>1, <1>2, <1>4, <1>5 DEF Fits

LEMMA CallUnavailableKeeps ==
  ASSUME Inv, NEW call, CallUnavailable(call)
  PROVE  Inv'
<1> DEFINE c == call[1]
           w == call[2]
           j == job[c][w]
           f == [j EXCEPT !.mode = "threw"]
<1>1. /\ call \in running /\ Release(call)
      /\ Rejected(c) /\ UNCHANGED <<cut, limit>>
  BY DEF CallUnavailable
<1>2. call \in InFlight
  BY <1>1 DEF InFlight
<1>3. c \in Callers /\ w \in Workers /\ Fits(call, j)
  BY <1>2 DEF Inv, FlightsInv
<1>4. JobOK(j) /\ j.mode # "ended" /\ j.todo # <<>>
  BY <1>3, OneJob DEF Fits, JobOK
<1>5. PermitInv' /\ InFlight' = InFlight \ {call}
  BY <1>1, ReleaseKeeps DEF Inv
<1>6. job' = [job EXCEPT ![c][w] = f]
  BY <1>3 DEF CallUnavailable, Inv, JobsInv
<1>7. JobOK(f) /\ f.mode = "threw"
  <2>1. JobOK(f)
    BY <1>4, ThrewOK
  <2> QED BY <1>4, <2>1 DEF JobOK
<1>8. \A x : Fits(x, j) => Fits(x, f)
  BY <1>4, ThrownFits
<1> HIDE DEF f
<1>9. PICK new : new = f /\ Change(c, w, new)
  BY <1>6 DEF Change
<1>10. \A x \in InFlight' : x \in InFlight
  BY <1>5
<1>11. \A x \in InFlight' : x[1] = c /\ x[2] = w => Fits(x, new)
  BY <1>8, <1>9, <1>10 DEF Inv, FlightsInv
<1>12. JobOK(new) /\ new.mode # "retry"
  BY <1>7, <1>9
<1> HIDE DEF c, w, j
<1> QED BY <1>1, <1>3, <1>4, <1>5, <1>9, <1>10, <1>11, <1>12, SameCut,
           SameLimit, OneChanges DEF j

-----------------------------------------------------------------------------
(* The callers, and all steps together.                                    *)

LEMMA StartedOK ==
  ASSUME NEW c \in Callers, NEW v, NEW w \in Workers
  PROVE  /\ JobOK(Started(c, v)[w])
         /\ Started(c, v)[w].mode \in {"pick", "ended"}
<1>1. Started(c, v)[w] \in {NewJob("pick"), NewJob("ended")}
  BY DEF Started
<1> QED BY <1>1, NewJobOK

(* A step in which callers of a set D get their workers, and nobody else   *)
(* changes.                                                                *)
StartAll(D, v) ==
  job' = [c \in Callers |-> IF c \in D THEN Started(c, v) ELSE job[c]]

LEMMA StartKeeps ==
  ASSUME Inv, NEW D \in SUBSET Callers, NEW v,
         \A d \in D : phase[d] \in {"idle", "probing"},
         StartAll(D, v),
         phase' = [c \in Callers |-> phase'[c]],
         \A c \in Callers : phase'[c] \in {"idle", "probing"} =>
           c \notin D /\ phase[c] \in {"idle", "probing"},
         UNCHANGED <<limit, cut, permits>>
  PROVE  Inv'
<1>1. UNCHANGED <<active, running, waiters>>
  BY DEF permits
<1>2. PermitInv' /\ InFlight' = InFlight /\ LimitInv'
  BY <1>1 DEF Inv, PermitInv, LimitInv, InFlight, Waiting
<1>3. \A c \in Callers, w \in Workers :
        job'[c][w] = IF c \in D THEN Started(c, v)[w] ELSE job[c][w]
  BY DEF StartAll
<1>4. JobsInv'
  <2>1. job' = [c \in Callers |-> [w \in Workers |-> job'[c][w]]]
    BY DEF Inv, JobsInv, Started, StartAll
  <2>2. \A c \in Callers, w \in Workers : JobOK(job'[c][w])
    BY <1>3, StartedOK, OneJob
  <2> QED BY <2>1, <2>2 DEF JobsInv
<1>5. \A d \in D, w \in Workers : job[d][w].mode = "ended"
  BY DEF Inv, PhaseInv
<1>6. ASSUME NEW call \in InFlight
      PROVE  /\ call[1] \in Callers /\ call[2] \in Workers
             /\ job'[call[1]][call[2]] = job[call[1]][call[2]]
             /\ Fits(call, job[call[1]][call[2]])
  <2>1. /\ call[1] \in Callers /\ call[2] \in Workers
        /\ Fits(call, job[call[1]][call[2]])
    BY DEF Inv, FlightsInv
  <2>2. call[1] \notin D
    BY <1>5, <2>1 DEF Fits
  <2> QED BY <1>3, <2>1, <2>2
<1>7. FlightsInv'
  <2>1. \A call \in InFlight' :
          /\ call[1] \in Callers /\ call[2] \in Workers
          /\ Fits(call, job'[call[1]][call[2]])
    BY <1>2, <1>6
  <2>2. ASSUME NEW a \in InFlight', NEW b \in InFlight',
               a[1] = b[1], a[2] = b[2], job'[a[1]][a[2]].mode = "retry"
        PROVE  a = b
    BY <1>2, <1>6, <2>2 DEF Inv, FlightsInv
  <2> QED BY <2>1, <2>2 DEF FlightsInv
<1>8. PhaseInv'
  <2>1. \A c \in Callers : phase'[c] \in {"idle", "probing"} =>
          \A w \in Workers : job'[c][w].mode = "ended"
    BY <1>3 DEF Inv, PhaseInv
  <2> QED BY <2>1 DEF Inv, PhaseInv
<1> QED BY <1>2, <1>4, <1>7, <1>8 DEF Inv

LEMMA CallKeeps ==
  ASSUME Inv, NEW c \in Callers, Call(c)
  PROVE  Inv'
<1>1. phase[c] = "idle" /\ UNCHANGED <<limit, cut, permits>>
  BY DEF Call
<1>2. CASE version \in Versions
  <2>1. phase' = [phase EXCEPT ![c] = "running"]
        /\ job' = [job EXCEPT ![c] = Started(c, version)]
    BY <1>2 DEF Call
  <2>2. job' = [d \in Callers |->
                  IF d \in {c} THEN Started(d, version) ELSE job[d]]
    BY <2>1 DEF Inv, JobsInv
  <2>3. PICK v : StartAll({c}, v)
    BY <2>2 DEF StartAll
  <2>4. /\ phase' = [d \in Callers |-> phase'[d]]
        /\ \A d \in Callers : phase'[d] \in {"idle", "probing"} =>
             d \notin {c} /\ phase[d] \in {"idle", "probing"}
    BY <2>1 DEF Inv, PhaseInv
  <2> QED BY <1>1, <2>3, <2>4, StartKeeps
<1>3. CASE version \notin Versions
  <2>1. phase' = [phase EXCEPT ![c] = "probing"] /\ job' = job
    BY <1>3 DEF Call
  <2>2. StartAll({}, None)
    BY <2>1 DEF Inv, JobsInv, StartAll
  <2>3. /\ phase' = [d \in Callers |-> phase'[d]]
        /\ \A d \in Callers : phase'[d] \in {"idle", "probing"} =>
             d \notin {} /\ phase[d] \in {"idle", "probing"}
    BY <1>1, <2>1 DEF Inv, PhaseInv
  <2> QED BY <1>1, <2>2, <2>3, StartKeeps
<1> QED BY <1>2, <1>3

LEMMA ProbeAnswersKeeps ==
  ASSUME Inv, NEW v \in Versions, ProbeAnswers(v)
  PROVE  Inv'
<1> DEFINE D == {c \in Callers : phase[c] = "probing"}
<1>1. /\ phase' = [c \in Callers |-> IF c \in D THEN "running" ELSE phase[c]]
      /\ job' = [c \in Callers |-> IF c \in D THEN Started(c, v) ELSE job[c]]
      /\ UNCHANGED <<limit, cut, permits>>
  BY DEF ProbeAnswers, Probing
<1>2. D \in SUBSET Callers /\ \A d \in D : phase[d] \in {"idle", "probing"}
  OBVIOUS
<1>3. PICK E \in SUBSET Callers : E = D
  BY <1>2
<1> HIDE DEF D
<1>4. StartAll(E, v)
  BY <1>1, <1>3 DEF StartAll
<1>5. /\ phase' = [c \in Callers |-> phase'[c]]
      /\ \A c \in Callers : phase'[c] \in {"idle", "probing"} =>
           c \notin E /\ phase[c] \in {"idle", "probing"}
  BY <1>1, <1>3
<1> QED BY <1>1, <1>2, <1>3, <1>4, <1>5, StartKeeps

(* A step that only changes the phase of callers.                          *)
LEMMA PhaseOnly ==
  ASSUME Inv, UNCHANGED <<job, limit, cut, permits>>,
         phase' = [c \in Callers |-> phase'[c]],
         \A c \in Callers : phase'[c] \in {"idle", "probing"} =>
           phase[c] \in {"idle", "probing"}
  PROVE  Inv'
<1>1. StartAll({}, None)
  BY DEF Inv, JobsInv, StartAll
<1> QED BY <1>1, StartKeeps

LEMMA InvStep ==
  ASSUME Inv, [Next]_vars
  PROVE  Inv'
<1>1. ASSUME NEW v \in Versions, ProbeAnswers(v) PROVE Inv'
  BY <1>1, ProbeAnswersKeeps
<1>2. CASE ProbeFails
  BY <1>2, PhaseOnly DEF ProbeFails
<1>3. ASSUME NEW c \in Callers, Return(c) PROVE Inv'
  <2>1. /\ UNCHANGED <<job, limit, cut, permits>>
        /\ phase' = [phase EXCEPT ![c] = "done"]
    BY <1>3 DEF Return
  <2>2. /\ phase' = [d \in Callers |-> phase'[d]]
        /\ \A d \in Callers : phase'[d] \in {"idle", "probing"} =>
             phase[d] \in {"idle", "probing"}
    BY <2>1 DEF Inv, PhaseInv
  <2> QED BY <2>1, <2>2, PhaseOnly
<1>4. ASSUME NEW c \in Callers, NEW w \in Workers, WorkerStep(c, w) PROVE Inv'
  BY <1>4, PickKeeps, MultiAnswersKeeps, MultiSplitsKeeps,
     MultiFallsBackKeeps, MultiUnavailableKeeps, LaneTakesKeeps,
     FanoutEndsKeeps, RetryTakesKeeps, RetryEndsKeeps DEF WorkerStep
<1>5. ASSUME NEW call \in running, CallEnds(call) PROVE Inv'
  BY <1>5, CallSettlesKeeps, CallUnavailableKeeps DEF CallEnds
<1>6. ASSUME NEW c \in Callers, Call(c) PROVE Inv'
  BY <1>6, CallKeeps
<1>7. CASE UNCHANGED vars
  <2>1. UNCHANGED <<job, limit, cut, permits>> /\ phase' = phase
    BY <1>7 DEF vars
  <2> QED BY <2>1, PhaseOnly DEF Inv, PhaseInv
<1> QED BY <1>1, <1>2, <1>3, <1>4, <1>5, <1>6, <1>7 DEF Next, Progress

LEMMA InvInit == Init => Inv
<1> SUFFICES ASSUME Init PROVE Inv
  OBVIOUS
<1>1. JobsInv
  <2>1. \A c \in Callers, w \in Workers : job[c][w] = NewJob("ended")
    BY DEF Init
  <2> QED BY <2>1, NewJobOK DEF Init, JobsInv
<1>2. InFlight = {} /\ Waiting = {}
  BY DEF Init, InFlight, Waiting
<1>3. PermitInv
  BY <1>2, FS_EmptySet, HistoricalAssumption DEF Init, PermitInv
<1>4. PhaseInv
  <2>1. \A c \in Callers, w \in Workers : job[c][w].mode = "ended"
    BY DEF Init, NewJob
  <2> QED BY <2>1 DEF Init, PhaseInv
<1> QED BY <1>1, <1>2, <1>3, <1>4 DEF Inv, FlightsInv, LimitInv, Init

LEMMA InvAlways == Spec => []Inv
  BY InvInit, InvStep, PTL DEF Spec

(* The permits add up in every state: as many are out as direct calls are  *)
(* in flight, and a call waits only when all are out.                      *)
THEOREM PermitsAlwaysBalanced == Spec => []PermitsBalanced
<1>1. Inv => PermitsBalanced
  BY DEF Inv, PermitInv, PermitsBalanced
<1> QED BY <1>1, InvAlways, PTL

(* A direct call is never in flight, or waiting, twice, and it belongs to  *)
(* a worker that is in a fan-out or was in one.                            *)
THEOREM FlightsAlwaysFit == Spec => []FlightsInv
<1>1. Inv => FlightsInv
  BY DEF Inv
<1> QED BY <1>1, InvAlways, PTL

(* The largest chunk that any caller asks for never grows again.           *)
THEOREM LimitNeverGrows == Spec => LimitOnlyShrinks
<1> DEFINE Shrinks == limit # None => /\ limit' # None /\ limit' <= limit
                                      /\ 2 * limit' > MinMulticallChunk
<1>1. ASSUME Inv, Next PROVE Shrinks
  <2>1. CASE limit' = limit
    BY <1>1, <2>1 DEF Inv, LimitInv
  <2>2. ASSUME NEW c \in Callers, NEW w \in Workers, MultiSplits(c, w)
        PROVE  Shrinks
    BY <1>1, <2>2, MultiSplitsLimit DEF LimitInv
  <2>3. ASSUME NEW c \in Callers, NEW w \in Workers, WorkerStep(c, w)
        PROVE  limit' = limit \/ MultiSplits(c, w)
    BY <2>3 DEF WorkerStep, Pick, MultiAnswers, MultiFallsBack,
       MultiUnavailable, LaneTakes, FanoutEnds, RetryTakes, RetryEnds
  <2>4. ASSUME NEW call \in running, CallEnds(call) PROVE limit' = limit
    BY <2>4 DEF CallEnds, CallSettles, CallUnavailable
  <2>5. ASSUME NEW c \in Callers, Call(c) \/ Return(c) PROVE limit' = limit
    BY <2>5 DEF Call, Return
  <2>6. ASSUME ProbeFails \/ \E v \in Versions : ProbeAnswers(v)
        PROVE  limit' = limit
    BY <2>6 DEF ProbeFails, ProbeAnswers
  <2> HIDE DEF Shrinks
  <2> QED BY <1>1, <2>1, <2>2, <2>3, <2>4, <2>5, <2>6 DEF Next, Progress
<1>2. Inv /\ [Next]_vars => [Shrinks]_vars
  BY <1>1
<1> QED BY <1>2, InvAlways, PTL DEF Spec, LimitOnlyShrinks

-----------------------------------------------------------------------------
(* What the workers have and make of their chunks.                         *)

(* What a result that stays has to say: it answers its call, and it calls  *)
(* a good call a failure only after two direct calls.                      *)
Outcome == [call : Nat, how : {"ok", "bad", "empty", "error"}]

Good(c, i, r, t) ==
  /\ r # None /\ r.call = i
  /\ Kind[c][i] = "ok" /\ r.how # "ok" => t[i] = 2

(* The chunk of a worker that has one.                                     *)
Busy(j)  == j.mode \in {"multi", "direct", "retry", "threw"}
End(j)   == j.todo[Len(j.todo)][2]
Chunk(j) == j.base + 1 .. End(j)

(* Answers and ranges still to answer make up the chunk without a gap.     *)
ShapeOK(j) ==
  /\ j.base \in Nat
  /\ j.todo \in Seq(Nat \X Nat) /\ j.todo # <<>>
  /\ \A k \in 1 .. Len(j.todo) :
       j.todo[k][1] <= j.todo[k][2] /\ j.todo[k][2] <= End(j)
  /\ \A k \in 1 .. Len(j.todo) - 1 : j.todo[k + 1][1] = j.todo[k][2] + 1
  /\ j.got \in Seq(Outcome)
  /\ First(j) = j.base + Len(j.got) + 1

GotOK(c, j, t) ==
  \A k \in 1 .. Len(j.got) : Good(c, j.base + k, j.got[k], t)

(* Which calls of the chunk were made directly, t[i] times.                *)
TriesOK(j, t) ==
  /\ j.next <= Last(j) + 1
  /\ \A i \in First(j) .. End(j) : i >= j.next => t[i] = 0
  /\ j.mode = "multi" => j.next = 0 /\ j.lanes = 0
  /\ j.mode = "direct" =>
       \A i \in First(j) .. Last(j) : i < j.next => t[i] = 1
  /\ j.mode = "threw" /\ j.lanes > 0 => First(j) <= j.next

ResOK(c, j, t) ==
  /\ j.mode = "direct" =>
       \A i \in First(j) .. Last(j) : j.res[i] # None =>
         /\ j.res[i] \in Outcome /\ j.res[i].call = i
         /\ Kind[c][i] = "ok" /\ j.res[i].how # "ok" => j.res[i].how = "error"
  /\ j.mode = "retry" =>
       /\ DOMAIN j.res = First(j) .. Last(j)
       /\ j.redo \subseteq First(j) .. Last(j)
       /\ \A i \in First(j) .. Last(j) :
            /\ j.res[i] \in Outcome /\ j.res[i].call = i
            /\ i \in j.redo => t[i] = 1
            /\ i \notin j.redo => Good(c, i, j.res[i], t)

Work(c, j, t) ==
  ShapeOK(j) /\ GotOK(c, j, t) /\ TriesOK(j, t) /\ ResOK(c, j, t)

-----------------------------------------------------------------------------

LEMMA EmptySeq ==
  ASSUME NEW A
  PROVE  <<>> \in Seq(A) /\ Len(<<>>) = 0
  OBVIOUS

LEMMA SeqOfLength ==
  ASSUME NEW A, NEW m \in Nat, NEW f \in [1 .. m -> A]
  PROVE  f \in Seq(A) /\ Len(f) = m
  OBVIOUS

LEMMA ShapeFacts ==
  ASSUME NEW j, ShapeOK(j)
  PROVE  /\ Len(j.todo) \in Nat \ {0} /\ Len(j.got) \in Nat
         /\ Head(j.todo) = j.todo[1] /\ Head(j.todo) \in Nat \X Nat
         /\ First(j) \in Nat /\ Last(j) \in Nat /\ End(j) \in Nat
         /\ j.base < First(j) /\ First(j) <= Last(j) /\ Last(j) <= End(j)
         /\ Size(Head(j.todo)) = Last(j) - First(j) + 1
         /\ First(j) .. End(j) \subseteq Chunk(j)
         /\ First(j) .. Last(j) \subseteq First(j) .. End(j)
<1>1. Len(j.todo) \in Nat \ {0}
  BY DEF ShapeOK
<1>2. Head(j.todo) = j.todo[1] /\ Head(j.todo) \in Nat \X Nat
  BY <1>1 DEF ShapeOK
<1>3. j.todo[Len(j.todo)] \in Nat \X Nat
  BY <1>1 DEF ShapeOK
<1>4. First(j) \in Nat /\ Last(j) \in Nat /\ End(j) \in Nat
  BY <1>2, <1>3 DEF First, Last, End
<1>5. First(j) <= Last(j) /\ Last(j) <= End(j)
  BY <1>1, <1>2 DEF ShapeOK, First, Last
<1>6. Len(j.got) \in Nat
  BY DEF ShapeOK
<1>7. j.base < First(j)
  BY <1>4, <1>6 DEF ShapeOK
<1>8. Size(Head(j.todo)) = Last(j) - First(j) + 1
  BY DEF Size, First, Last
<1>9. j.base \in Nat
  BY DEF ShapeOK
<1>10. /\ First(j) .. End(j) \subseteq Chunk(j)
       /\ First(j) .. Last(j) \subseteq First(j) .. End(j)
  BY <1>4, <1>5, <1>7, <1>9 DEF Chunk
<1> QED BY <1>1, <1>2, <1>4, <1>5, <1>6, <1>7, <1>8, <1>10

(* A worker that keeps its chunk, its answers and its ranges.              *)
Same(j, f) == f.base = j.base /\ f.todo = j.todo /\ f.got = j.got

LEMMA SameShape ==
  ASSUME NEW j, NEW f, ShapeOK(j), Same(j, f)
  PROVE  /\ ShapeOK(f) /\ First(f) = First(j) /\ Last(f) = Last(j)
         /\ End(f) = End(j) /\ Chunk(f) = Chunk(j)
<1>1. First(f) = First(j) /\ Last(f) = Last(j) /\ End(f) = End(j)
  BY DEF Same, First, Last, End
<1> QED BY <1>1 DEF Same, ShapeOK, Chunk

(* Direct calls only add up, and never to more than two.                   *)
Grows(c, t, u) ==
  \A i \in Calls(c) : u[i] \in 0 .. 2 /\ (t[i] = 2 => u[i] = 2)

LEMMA GoodStays ==
  ASSUME NEW c, NEW t, NEW u, Grows(c, t, u), NEW i \in Calls(c), NEW r,
         Good(c, i, r, t)
  PROVE  Good(c, i, r, u)
  BY DEF Grows, Good

LEMMA GotStays ==
  ASSUME NEW c, NEW t, NEW u, Grows(c, t, u), NEW j, NEW f, ShapeOK(j),
         GotOK(c, j, t), Same(j, f), Chunk(j) \subseteq Calls(c)
  PROVE  GotOK(c, f, u)
<1>1. SUFFICES ASSUME NEW k \in 1 .. Len(j.got)
               PROVE  Good(c, j.base + k, j.got[k], u)
  BY DEF GotOK, Same
<1>2. /\ First(j) = j.base + Len(j.got) + 1 /\ j.base \in Nat
      /\ Len(j.got) \in Nat /\ End(j) \in Nat /\ First(j) <= End(j)
  BY ShapeFacts, SMTT(30) DEF ShapeOK
<1>3. j.base + k \in Chunk(j)
  BY <1>2 DEF Chunk
<1>4. Good(c, j.base + k, j.got[k], t)
  BY DEF GotOK
<1> QED BY <1>3, <1>4, GoodStays

(* Direct calls of other workers do not matter.                            *)
LEMMA WorkStays ==
  ASSUME NEW c, NEW t, NEW u, Grows(c, t, u), NEW j, Work(c, j, t),
         Chunk(j) \subseteq Calls(c), \A i \in Chunk(j) : u[i] = t[i]
  PROVE  Work(c, j, u)
<1>1. ShapeOK(j) /\ GotOK(c, j, u)
  BY GotStays DEF Work, Same
<1>2. /\ First(j) .. End(j) \subseteq Chunk(j)
      /\ First(j) .. Last(j) \subseteq Chunk(j)
  BY <1>1, ShapeFacts
<1>3. TriesOK(j, u)
  BY <1>2 DEF Work, TriesOK
<1>4. ResOK(c, j, u)
  <2>1. \A i \in First(j) .. Last(j) :
          Good(c, i, j.res[i], t) => Good(c, i, j.res[i], u)
    BY <1>2, GoodStays
  <2> QED BY <1>2, <2>1 DEF Work, ResOK
<1> QED BY <1>1, <1>3, <1>4 DEF Work

-----------------------------------------------------------------------------
(* What each step makes of the worker that takes it.                       *)

NewChunk(base, end) ==
  [NewJob("multi") EXCEPT !.base = base, !.todo = << <<base + 1, end>> >>]

NotCalled(t, base, end) == \A i \in base + 1 .. end : t[i] = 0

LEMMA NewChunkWorks ==
  ASSUME NEW c, NEW t, NEW base \in Nat, NEW end \in Nat, base < end,
         NotCalled(t, base, end), NEW j, j = NewChunk(base, end)
  PROVE  /\ Work(c, j, t) /\ j.base = base /\ End(j) = end
         /\ j.mode = "multi" /\ JobOK(j)
<1>1. /\ j.mode = "multi" /\ j.base = base /\ j.got = <<>>
      /\ j.todo = << <<base + 1, end>> >> /\ j.next = 0 /\ j.lanes = 0
  BY DEF NewJob, NewChunk
<1>2. /\ j.todo \in Seq(Nat \X Nat) /\ Len(j.todo) = 1
      /\ j.todo[1] = <<base + 1, end>> /\ Head(j.todo) = <<base + 1, end>>
  BY <1>1
<1>3. First(j) = base + 1 /\ Last(j) = end /\ End(j) = end
  BY <1>2 DEF First, Last, End
<1>4. j.todo # <<>>
  <2>1. Len(<<>>) # 1
    OBVIOUS
  <2> QED BY <1>2, <2>1, Zenon
<1>5. j.got \in Seq(Outcome) /\ Len(j.got) = 0
  BY <1>1, EmptySeq
<1>6. ShapeOK(j)
  BY <1>1, <1>2, <1>3, <1>4, <1>5 DEF ShapeOK
<1>7. GotOK(c, j, t) /\ TriesOK(j, t) /\ ResOK(c, j, t)
  BY <1>1, <1>3, <1>5 DEF GotOK, TriesOK, ResOK, NotCalled
<1>8. JobOK(j)
  <2>1. DOMAIN j =
          {"mode", "base", "todo", "got", "next", "lanes", "res", "redo"}
    BY DEF NewChunk, NewJob
  <2>2. j.todo \in Seq(Int \X Int)
    BY <1>1
  <2> QED BY <1>1, <1>4, <2>1, <2>2 DEF JobOK, Modes
<1> QED BY <1>1, <1>3, <1>6, <1>7, <1>8 DEF Work

LEMMA FanoutWorks ==
  ASSUME NEW c, NEW t, NEW j, JobOK(j), Work(c, j, t), j.mode = "multi"
  PROVE  Work(c, Fanout(j), t) /\ Same(j, Fanout(j))
         /\ Fanout(j).mode = "direct"
<1> DEFINE f == Fanout(j)
<1>1. f.mode = "direct" /\ f.next = First(j) /\ f.todo = j.todo
      /\ f.res = [i \in First(j) .. Last(j) |-> None] /\ f.base = j.base
      /\ f.got = j.got
  BY DEF Fanout, JobOK
<1> HIDE DEF f
<1>2. Same(j, f)
  BY <1>1 DEF Same
<1>3. /\ ShapeOK(f) /\ First(f) = First(j) /\ Last(f) = Last(j)
      /\ End(f) = End(j)
  BY <1>2, SameShape DEF Work
<1>4. GotOK(c, f, t)
  BY <1>1 DEF Work, GotOK
<1>5. /\ First(j) \in Nat /\ Last(j) \in Nat /\ End(j) \in Nat
      /\ First(j) <= Last(j)
  BY ShapeFacts DEF Work
<1>6. TriesOK(f, t)
  BY <1>1, <1>3, <1>5 DEF Work, TriesOK
<1>7. ResOK(c, f, t)
  BY <1>1, <1>3 DEF ResOK
<1> QED BY <1>1, <1>2, <1>3, <1>4, <1>6, <1>7 DEF f, Work

LEMMA ThrownWorks ==
  ASSUME NEW c, NEW t, NEW j, JobOK(j), Work(c, j, t), Busy(j),
         NEW f, f = [j EXCEPT !.mode = "threw"]
  PROVE  Work(c, f, t) /\ Same(j, f) /\ f.mode = "threw"
<1>1. /\ f.mode = "threw" /\ f.next = j.next /\ f.todo = j.todo
      /\ f.base = j.base /\ f.got = j.got /\ f.lanes = j.lanes
  BY DEF JobOK
<1>2. Same(j, f)
  BY <1>1 DEF Same
<1>3. /\ ShapeOK(f) /\ First(f) = First(j) /\ Last(f) = Last(j)
      /\ End(f) = End(j)
  BY <1>2, SameShape DEF Work
<1>4. GotOK(c, f, t) /\ ResOK(c, f, t)
  BY <1>1 DEF Work, GotOK, ResOK
<1>5. /\ First(j) \in Nat /\ Last(j) \in Nat /\ First(j) <= Last(j)
      /\ j.next \in Int
  BY ShapeFacts DEF Work, JobOK
<1>6. j.lanes > 0 => First(j) <= j.next
  <2>1. CASE j.mode \in {"direct", "retry"}
    BY <1>5, <2>1 DEF JobOK
  <2>2. CASE j.mode = "multi"
    BY <2>2 DEF Work, TriesOK
  <2>3. CASE j.mode = "threw"
    BY <2>3 DEF Work, TriesOK
  <2> QED BY <2>1, <2>2, <2>3 DEF Busy
<1>7. TriesOK(f, t)
  BY <1>1, <1>3, <1>6 DEF Work, TriesOK
<1> QED BY <1>1, <1>2, <1>3, <1>4, <1>7 DEF Work

Taken(j) == [j EXCEPT !.next = j.next + 1, !.lanes = j.lanes - 1]

(* A lane takes call next, which nobody has made before.                   *)
LEMMA TakenWorks ==
  ASSUME NEW c, NEW t, NEW u, Grows(c, t, u), NEW j, JobOK(j), Work(c, j, t),
         LaneFree(j), Chunk(j) \subseteq Calls(c),
         u[j.next] = t[j.next] + 1,
         \A i \in Calls(c) : i # j.next => u[i] = t[i],
         NEW f, f = Taken(j)
  PROVE  /\ Work(c, f, u) /\ Same(j, f) /\ f.mode = j.mode
<1>1. /\ f.mode = j.mode /\ f.next = j.next + 1 /\ f.base = j.base
      /\ f.todo = j.todo /\ f.res = j.res /\ f.got = j.got
  BY DEF JobOK, Taken
<1>2. Same(j, f)
  BY <1>1 DEF Same
<1>3. /\ ShapeOK(f) /\ First(f) = First(j) /\ Last(f) = Last(j)
      /\ End(f) = End(j)
  BY <1>2, SameShape DEF Work
<1>4. GotOK(c, f, u)
  BY <1>2, GotStays DEF Work
<1>5. /\ First(j) \in Nat /\ Last(j) \in Nat /\ End(j) \in Nat
      /\ Last(j) <= End(j) /\ j.next \in Int
      /\ First(j) .. End(j) \subseteq Calls(c)
      /\ First(j) .. Last(j) \subseteq First(j) .. End(j)
  BY ShapeFacts DEF Work, JobOK
<1>6. /\ j.mode \in {"direct", "threw"} /\ j.lanes > 0
      /\ j.next <= Last(j) /\ First(j) <= j.next
  BY DEF LaneFree, Work, TriesOK, JobOK
<1>7. j.next \in First(j) .. End(j) /\ t[j.next] = 0 /\ u[j.next] = 1
  BY <1>5, <1>6 DEF Work, TriesOK
<1>8. \A i \in First(j) .. End(j) : i >= j.next + 1 => u[i] = 0
  BY <1>5 DEF Work, TriesOK
<1>9. j.mode = "direct" =>
        \A i \in First(j) .. Last(j) : i < j.next + 1 => u[i] = 1
  <2>1. j.mode = "direct" =>
          \A i \in First(j) .. Last(j) : i < j.next => t[i] = 1
    BY DEF Work, TriesOK
  <2> QED BY <1>5, <1>7, <2>1
<1>10. TriesOK(f, u)
  BY <1>1, <1>3, <1>5, <1>6, <1>8, <1>9 DEF TriesOK
<1>11. ResOK(c, f, u)
  BY <1>1, <1>3, <1>6 DEF Work, ResOK
<1> QED BY <1>1, <1>2, <1>3, <1>4, <1>10, <1>11 DEF Work

(* All calls of a fan-out are answered and some failed: these are to be    *)
(* repeated.                                                               *)
Retrying(j) == [j EXCEPT !.mode = "retry", !.lanes = 1, !.redo = Errors(j)]

LEMMA RetryWorks ==
  ASSUME NEW c, NEW t, NEW j, JobOK(j), Work(c, j, t), FannedOut(j),
         NEW f, f = Retrying(j)
  PROVE  /\ Work(c, f, t) /\ Same(j, f) /\ f.mode = "retry"
<1>1. /\ f.mode = "retry" /\ f.next = j.next /\ f.base = j.base
      /\ f.todo = j.todo /\ f.res = j.res /\ f.got = j.got
      /\ f.redo = Errors(j)
  BY DEF JobOK, Retrying
<1>2. Same(j, f)
  BY <1>1 DEF Same
<1>3. /\ ShapeOK(f) /\ First(f) = First(j) /\ Last(f) = Last(j)
      /\ End(f) = End(j)
  BY <1>2, SameShape DEF Work
<1>4. GotOK(c, f, t)
  BY <1>1 DEF Work, GotOK
<1>5. j.mode = "direct" /\ \A i \in First(j) .. Last(j) : j.res[i] # None
  BY DEF FannedOut
<1>6. TriesOK(f, t)
  BY <1>1, <1>3 DEF Work, TriesOK
<1>7. DOMAIN j.res = First(j) .. Last(j) /\ j.next \in Int
  BY <1>5 DEF JobOK
<1>8. ASSUME NEW i \in First(j) .. Last(j)
      PROVE  /\ j.res[i] \in Outcome /\ j.res[i].call = i
             /\ i \in Errors(j) => t[i] = 1
             /\ i \notin Errors(j) => Good(c, i, j.res[i], t)
  <2>1. i < j.next
    <3>1. ~(i >= j.next)
      BY <1>5 DEF JobOK
    <3>2. i \in Int
      BY ShapeFacts DEF Work
    <3> QED BY <1>7, <3>1, <3>2
  <2>2. t[i] = 1
    BY <1>5, <2>1 DEF Work, TriesOK
  <2>3. /\ j.res[i] # None /\ j.res[i] \in Outcome /\ j.res[i].call = i
        /\ Kind[c][i] = "ok" /\ j.res[i].how # "ok" => j.res[i].how = "error"
    BY <1>5 DEF Work, ResOK
  <2>4. i \notin Errors(j) => j.res[i].how # "error"
    BY DEF Errors
  <2> QED BY <2>2, <2>3, <2>4 DEF Good
<1>9. Errors(j) \subseteq First(j) .. Last(j)
  BY DEF Errors
<1>10. ResOK(c, f, t)
  BY <1>1, <1>3, <1>7, <1>8, <1>9 DEF ResOK
<1> QED BY <1>1, <1>2, <1>3, <1>4, <1>6, <1>10 DEF Work

Redone(j, one) == [j EXCEPT !.redo = j.redo \ {one}, !.lanes = 0]

(* One of the failed calls is repeated.                                    *)
LEMMA RedoneWorks ==
  ASSUME NEW c, NEW t, NEW u, Grows(c, t, u), NEW j, JobOK(j), Work(c, j, t),
         j.mode = "retry", NEW one \in j.redo, Chunk(j) \subseteq Calls(c),
         u[one] = t[one] + 1,
         \A i \in Calls(c) : i # one => u[i] = t[i],
         NEW f, f = Redone(j, one)
  PROVE  /\ Work(c, f, u) /\ Same(j, f) /\ f.mode = "retry"
         /\ one \in First(j) .. Last(j) /\ u[one] = 2
<1>1. /\ f.mode = "retry" /\ f.next = j.next /\ f.base = j.base
      /\ f.todo = j.todo /\ f.res = j.res /\ f.got = j.got
      /\ f.redo = j.redo \ {one}
  BY DEF JobOK, Redone
<1>2. Same(j, f)
  BY <1>1 DEF Same
<1>3. /\ ShapeOK(f) /\ First(f) = First(j) /\ Last(f) = Last(j)
      /\ End(f) = End(j)
  BY <1>2, SameShape DEF Work
<1>4. GotOK(c, f, u)
  BY <1>2, GotStays DEF Work
<1>5. /\ First(j) .. End(j) \subseteq Calls(c)
      /\ First(j) .. Last(j) \subseteq First(j) .. End(j)
      /\ First(j) \in Nat /\ Last(j) \in Nat /\ j.next \in Int
      /\ j.next > Last(j)
  BY ShapeFacts DEF Work, JobOK
<1>6. one \in First(j) .. Last(j) /\ t[one] = 1 /\ u[one] = 2
  BY DEF Work, ResOK
<1>7. TriesOK(f, u)
  <2>1. \A i \in First(j) .. End(j) : i >= j.next => i # one
    BY <1>5, <1>6
  <2>2. \A i \in First(j) .. End(j) : i >= j.next => u[i] = 0
    BY <1>5, <2>1 DEF Work, TriesOK
  <2> QED BY <1>1, <1>3, <2>2 DEF Work, TriesOK
<1>8. ASSUME NEW i \in First(j) .. Last(j)
      PROVE  /\ j.res[i] \in Outcome /\ j.res[i].call = i
             /\ i \in f.redo => u[i] = 1
             /\ i \notin f.redo => Good(c, i, j.res[i], u)
  <2>1. /\ j.res[i] \in Outcome /\ j.res[i].call = i
        /\ i \in j.redo => t[i] = 1
        /\ i \notin j.redo => Good(c, i, j.res[i], t)
    BY DEF Work, ResOK
  <2>2. i \in Calls(c)
    BY <1>5
  <2>3. CASE i = one
    <3>1. j.res[i] # None
      BY <2>1, HistoricalAssumption DEF Outcome
    <3> QED BY <1>1, <1>6, <2>1, <2>3, <3>1 DEF Good
  <2>4. CASE i # one
    BY <1>1, <2>1, <2>2, <2>4, GoodStays
  <2> QED BY <2>3, <2>4
<1>9. DOMAIN j.res = First(j) .. Last(j) /\ j.redo \subseteq First(j) .. Last(j)
  BY DEF Work, ResOK
<1>10. ResOK(c, f, u)
  BY <1>1, <1>3, <1>8, <1>9 DEF ResOK
<1> QED BY <1>1, <1>2, <1>3, <1>4, <1>6, <1>7, <1>10 DEF Work

(* What a direct call in flight, or waiting, has to do with its worker,    *)
(* beyond Fits.                                                            *)
FitsWork(x, j, t) ==
  /\ x[3] \in Calls(x[1])
  /\ j.mode = "retry" =>
       x[3] \in First(j) .. Last(j) /\ x[3] \notin j.redo /\ t[x[3]] = 2
  /\ j.mode = "threw" => First(j) <= j.next

(* A direct call returns.                                                  *)
LEMMA SettledWorks ==
  ASSUME NEW t, NEW j, JobOK(j), NEW x, Fits(x, j), FitsWork(x, j, t),
         NEW c, c = x[1], Work(c, j, t),
         NEW how \in {"ok", "empty", "error"},
         Kind[c][x[3]] = "ok" /\ how # "ok" => how = "error",
         NEW f, f = Settled(j, x[3], Result(x[3], how))
  PROVE  Work(c, f, t) /\ Same(j, f) /\ f.mode = j.mode
<1> DEFINE i == x[3]
           r == Result(i, how)
<1>1. /\ f.mode = j.mode /\ f.next = j.next /\ f.base = j.base
      /\ f.todo = j.todo /\ f.res = [j.res EXCEPT ![i] = r]
      /\ f.got = j.got /\ f.redo = j.redo
  BY DEF JobOK, Settled
<1>2. Same(j, f)
  BY <1>1 DEF Same
<1>3. /\ ShapeOK(f) /\ First(f) = First(j) /\ Last(f) = Last(j)
      /\ End(f) = End(j)
  BY <1>2, SameShape DEF Work
<1>4. GotOK(c, f, t)
  BY <1>1 DEF Work, GotOK
<1>5. j.mode \in {"direct", "retry", "threw"}
  BY DEF Fits
<1>6. j.mode = "threw" => First(j) <= j.next
  BY DEF FitsWork
<1>7. TriesOK(f, t)
  BY <1>1, <1>3, <1>5, <1>6 DEF Work, TriesOK
<1>8. i \in Nat
  BY DEF FitsWork, Calls
<1>9. /\ r \in Outcome /\ r # None /\ r.call = i /\ r.how = how
  BY <1>8, HistoricalAssumption DEF Result, Outcome
<1> HIDE DEF r
<1>10. ResOK(c, f, t)
  <2>1. CASE j.mode = "direct"
    <3>1. DOMAIN j.res = First(j) .. Last(j) /\ i \in First(j) .. Last(j)
      BY <2>1 DEF JobOK, Fits
    <3>2. \A k \in First(j) .. Last(j) :
            f.res[k] = IF k = i THEN r ELSE j.res[k]
      BY <1>1, <3>1
    <3>3. \A k \in First(j) .. Last(j) : f.res[k] # None =>
            /\ f.res[k] \in Outcome /\ f.res[k].call = k
            /\ Kind[c][k] = "ok" /\ f.res[k].how # "ok" =>
                 f.res[k].how = "error"
      BY <1>9, <2>1, <3>2 DEF Work, ResOK
    <3> QED BY <1>1, <1>3, <2>1, <3>3 DEF ResOK
  <2>2. CASE j.mode = "retry"
    <3>1. DOMAIN j.res = First(j) .. Last(j) /\ i \in First(j) .. Last(j)
          /\ i \notin j.redo /\ t[i] = 2
      BY <2>2 DEF Work, ResOK, FitsWork
    <3>2. /\ DOMAIN f.res = First(j) .. Last(j)
          /\ \A k \in First(j) .. Last(j) :
               f.res[k] = IF k = i THEN r ELSE j.res[k]
      BY <1>1, <3>1
    <3>3. \A k \in First(j) .. Last(j) :
            /\ f.res[k] \in Outcome /\ f.res[k].call = k
            /\ k \in j.redo => t[k] = 1
            /\ k \notin j.redo => Good(c, k, f.res[k], t)
      BY <1>9, <2>2, <3>1, <3>2 DEF Work, ResOK, Good
    <3>4. j.redo \subseteq First(j) .. Last(j)
      BY <2>2 DEF Work, ResOK
    <3> QED BY <1>1, <1>3, <2>2, <3>2, <3>3, <3>4 DEF ResOK
  <2>3. CASE j.mode = "threw"
    BY <1>1, <2>3 DEF ResOK
  <2> QED BY <1>5, <2>1, <2>2, <2>3
<1> QED BY <1>1, <1>2, <1>3, <1>4, <1>7, <1>10 DEF Work

LEMMA TwoRanges ==
  ASSUME NEW A, NEW x \in A, NEW y \in A, NEW q \in Seq(A),
         NEW p, p = <<x, y>> \o q
  PROVE  /\ p \in Seq(A) /\ Len(p) = Len(q) + 2 /\ p # <<>>
         /\ p[1] = x /\ p[2] = y /\ Head(p) = x
         /\ \A k \in 1 .. Len(q) : p[k + 2] = q[k]
<1>1. p \in Seq(A) /\ Len(p) = Len(q) + 2 /\ Len(q) \in Nat
  OBVIOUS
<1>2. p[1] = x /\ p[2] = y /\ \A k \in 1 .. Len(q) : p[k + 2] = q[k]
  OBVIOUS
<1>3. Len(p) # 0 /\ Head(p) = p[1]
  BY <1>1
<1>4. p # <<>>
  BY <1>3, EmptySeq, Zenon
<1> QED BY <1>1, <1>2, <1>3, <1>4

LEMMA TailRanges ==
  ASSUME NEW A, NEW q \in Seq(A), Len(q) # 0
  PROVE  /\ Tail(q) \in Seq(A) /\ Len(Tail(q)) = Len(q) - 1
         /\ \A k \in 1 .. Len(q) - 1 : Tail(q)[k] = q[k + 1]
  OBVIOUS

(* The first range is halved.                                              *)
LEMMA HalfInside ==
  ASSUME NEW size \in Int, size > MinMulticallChunk
  PROVE  /\ Ceil(size, 2) \in Nat /\ 1 <= Ceil(size, 2)
         /\ Ceil(size, 2) < size
<1>1. size >= 2
  BY HistoricalAssumption
<1> QED BY <1>1 DEF Ceil

Halved(j) == [j EXCEPT !.todo = Halves(Head(j.todo)) \o Tail(j.todo)]

LEMMA HalvedWorks ==
  ASSUME NEW c, NEW t, NEW j, JobOK(j), Work(c, j, t), j.mode = "multi",
         Size(Head(j.todo)) > MinMulticallChunk,
         NEW f, f = Halved(j)
  PROVE  /\ Work(c, f, t) /\ f.mode = "multi" /\ f.base = j.base
         /\ End(f) = End(j)
<1> DEFINE n      == Len(j.todo)
           middle == First(j) + Ceil(Size(Head(j.todo)), 2) - 1
           x      == <<First(j), middle>>
           y      == <<middle + 1, Last(j)>>
           both   == <<x, y>> \o Tail(j.todo)
<1>1. /\ n \in Nat \ {0}
      /\ First(j) \in Nat /\ Last(j) \in Nat /\ End(j) \in Nat
      /\ Last(j) <= End(j) /\ Size(Head(j.todo)) = Last(j) - First(j) + 1
      /\ Head(j.todo) = j.todo[1]
  BY ShapeFacts DEF Work
<1>2. middle \in Nat /\ First(j) <= middle /\ middle < Last(j)
  <2> DEFINE size == Last(j) - First(j) + 1
  <2>1. size \in Int /\ size > MinMulticallChunk /\ Size(Head(j.todo)) = size
    BY <1>1
  <2> HIDE DEF size
  <2>2. /\ Ceil(size, 2) \in Nat /\ 1 <= Ceil(size, 2)
        /\ Ceil(size, 2) < size
    BY <2>1, HalfInside
  <2>3. middle = First(j) + Ceil(size, 2) - 1
    BY <2>1
  <2>4. Last(j) = First(j) + size - 1
    BY <1>1 DEF size
  <2> HIDE DEF middle
  <2> QED BY <1>1, <2>1, <2>2, <2>3, <2>4, SMTT(30)
<1>3. /\ f.mode = "multi" /\ f.todo = both /\ f.base = j.base
      /\ f.got = j.got /\ f.next = j.next /\ f.lanes = j.lanes
  BY DEF JobOK, Halved, Halves, First, Last
<1> HIDE DEF middle
<1>4. x \in Nat \X Nat /\ y \in Nat \X Nat
  BY <1>1, <1>2
<1>5. /\ Tail(j.todo) \in Seq(Nat \X Nat) /\ Len(Tail(j.todo)) = n - 1
      /\ \A k \in 1 .. n - 1 : Tail(j.todo)[k] = j.todo[k + 1]
  BY <1>1, TailRanges DEF Work, ShapeOK
<1> HIDE DEF n
<1>6. /\ both \in Seq(Nat \X Nat) /\ Len(both) = n + 1 /\ both # <<>>
      /\ both[1] = x /\ both[2] = y /\ Head(both) = x
      /\ \A k \in 1 .. n - 1 : both[k + 2] = j.todo[k + 1]
  <2> DEFINE q == Tail(j.todo)
  <2> HIDE DEF q, x, y
  <2>1. q \in Seq(Nat \X Nat) /\ Len(q) = n - 1
        /\ \A k \in 1 .. n - 1 : q[k] = j.todo[k + 1]
    BY <1>5 DEF q
  <2>2. PICK p : p = <<x, y>> \o q
    OBVIOUS
  <2> DEFINE A == Nat \X Nat
  <2>3. x \in A /\ y \in A /\ q \in Seq(A)
    BY <1>4, <2>1
  <2> HIDE DEF A
  <2>4. /\ p \in Seq(A) /\ Len(p) = Len(q) + 2 /\ p # <<>>
        /\ p[1] = x /\ p[2] = y /\ Head(p) = x
        /\ \A k \in 1 .. Len(q) : p[k + 2] = q[k]
    BY <2>2, <2>3, TwoRanges
  <2>5. /\ p \in Seq(Nat \X Nat) /\ Len(p) = Len(q) + 2 /\ p # <<>>
        /\ p[1] = x /\ p[2] = y /\ Head(p) = x
        /\ \A k \in 1 .. Len(q) : p[k + 2] = q[k]
    BY <2>4 DEF A
  <2>6. both = p
    BY <2>2 DEF q
  <2> HIDE DEF both
  <2>7. Len(both) = n + 1
    BY <1>1, <2>1, <2>5, <2>6
  <2>8. \A k \in 1 .. n - 1 : both[k + 2] = j.todo[k + 1]
    BY <2>1, <2>5, <2>6
  <2> QED BY <2>5, <2>6, <2>7, <2>8
<1> HIDE DEF both
<1>7. \A k \in 3 .. n + 1 : both[k] = j.todo[k - 1]
  <2>1. TAKE k \in 3 .. n + 1
  <2>2. k - 2 \in 1 .. n - 1 /\ (k - 2) + 2 = k /\ (k - 2) + 1 = k - 1
    BY <1>1
  <2> QED BY <1>6, <2>2
<1>8. both[n + 1][2] = j.todo[n][2]
  <2>1. CASE n = 1
    BY <1>1, <1>6, <2>1 DEF Last
  <2>2. CASE n # 1
    <3>1. n + 1 \in 3 .. n + 1 /\ (n + 1) - 1 = n
      BY <1>1, <2>2
    <3> QED BY <1>7, <3>1
  <2> QED BY <2>1, <2>2
<1>9. First(f) = First(j) /\ Last(f) = middle /\ End(f) = End(j)
  <2>1. x[1] = First(j) /\ x[2] = middle
    OBVIOUS
  <2>2. First(f) = First(j) /\ Last(f) = middle
    BY <1>3, <1>6, <2>1 DEF First, Last
  <2>3. End(j) = j.todo[n][2]
    BY DEF End, n
  <2>4. End(f) = both[n + 1][2]
    BY <1>3, <1>6 DEF End
  <2> QED BY <1>8, <2>2, <2>3, <2>4
<1>10. ShapeOK(f)
  <2>1. /\ \A k \in 1 .. n :
             j.todo[k][1] <= j.todo[k][2] /\ j.todo[k][2] <= End(j)
        /\ \A k \in 1 .. n - 1 : j.todo[k + 1][1] = j.todo[k][2] + 1
    BY DEF Work, ShapeOK, n
  <2>2. \A k \in 1 .. n + 1 :
          both[k][1] <= both[k][2] /\ both[k][2] <= End(j)
    <3>1. ASSUME NEW k \in 3 .. n + 1
          PROVE  both[k][1] <= both[k][2] /\ both[k][2] <= End(j)
      <4>1. k - 1 \in 1 .. n
        BY <1>1
      <4> QED BY <1>7, <2>1, <4>1
    <3>2. both[1][1] <= both[1][2] /\ both[1][2] <= End(j)
      BY <1>1, <1>2, <1>6
    <3>3. both[2][1] <= both[2][2] /\ both[2][2] <= End(j)
      BY <1>1, <1>2, <1>6
    <3>4. \A k \in 1 .. n + 1 : k = 1 \/ k = 2 \/ k \in 3 .. n + 1
      BY <1>1
    <3> QED BY <3>1, <3>2, <3>3, <3>4
  <2>3. \A k \in 1 .. n : both[k + 1][1] = both[k][2] + 1
    <3>1. ASSUME NEW k \in 3 .. n PROVE both[k + 1][1] = both[k][2] + 1
      <4>1. /\ k + 1 \in 3 .. n + 1 /\ k \in 3 .. n + 1
            /\ k - 1 \in 1 .. n - 1 /\ (k + 1) - 1 = (k - 1) + 1
        BY <1>1
      <4>2. both[k + 1] = j.todo[(k - 1) + 1] /\ both[k] = j.todo[k - 1]
        BY <1>7, <4>1
      <4> QED BY <2>1, <4>1, <4>2
    <3>2. both[1 + 1][1] = both[1][2] + 1
      BY <1>6
    <3>3. n >= 2 => both[2 + 1][1] = both[2][2] + 1
      <4>1. n >= 2 => 3 \in 3 .. n + 1 /\ 1 \in 1 .. n - 1
        BY <1>1
      <4>2. n >= 2 => both[3] = j.todo[2] /\ j.todo[2][1] = j.todo[1][2] + 1
        BY <1>7, <2>1, <4>1
      <4> QED BY <1>1, <1>6, <4>2 DEF Last
    <3>4. \A k \in 1 .. n : k = 1 \/ (k = 2 /\ n >= 2) \/ k \in 3 .. n
      BY <1>1
    <3> QED BY <3>1, <3>2, <3>3, <3>4
  <2>4. (n + 1) - 1 = n
    BY <1>1
  <2> QED BY <1>3, <1>6, <1>9, <2>2, <2>3, <2>4 DEF Work, ShapeOK
<1>11. GotOK(c, f, t) /\ ResOK(c, f, t)
  BY <1>3 DEF Work, GotOK, ResOK
<1>12. TriesOK(f, t)
  <2>1. /\ \A i \in First(j) .. End(j) : i >= j.next => t[i] = 0
        /\ j.next = 0 /\ j.lanes = 0
    BY DEF Work, TriesOK
  <2>2. f.next <= Last(f) + 1
    BY <1>2, <1>3, <1>9, <2>1
  <2>3. f.mode \notin {"direct", "threw"}
    BY <1>3
  <2> QED BY <1>3, <1>9, <2>1, <2>2, <2>3 DEF TriesOK
<1> QED BY <1>3, <1>9, <1>10, <1>11, <1>12 DEF Work

(* Results that answer the first range of a worker.                        *)
AnswersFirst(c, j, t, results) ==
  /\ results \in Seq(Outcome)
  /\ Len(results) = Last(j) - First(j) + 1
  /\ \A k \in 1 .. Len(results) : Good(c, First(j) + k - 1, results[k], t)

LEMMA ConcatAt ==
  ASSUME NEW A, NEW p \in Seq(A), NEW q \in Seq(A)
  PROVE  /\ p \o q \in Seq(A) /\ Len(p \o q) = Len(p) + Len(q)
         /\ \A k \in 1 .. Len(p) : (p \o q)[k] = p[k]
         /\ \A k \in Len(p) + 1 .. Len(p) + Len(q) : (p \o q)[k] = q[k - Len(p)]
  OBVIOUS

LEMMA AnsweredWorks ==
  ASSUME NEW c, NEW t, NEW j, JobOK(j), Work(c, j, t),
         NEW results, AnswersFirst(c, j, t, results),
         NEW f, f = Answered(j, results)
  PROVE  /\ f.base = j.base /\ f.mode \in {"pick", "multi"}
         /\ f.mode = "multi" => Work(c, f, t) /\ End(f) = End(j)
         /\ f.mode = "pick" => Len(f.got) = End(j) - j.base
         /\ Len(f.got) \in Nat /\ GotOK(c, f, t)
<1> DEFINE n    == Len(j.todo)
           both == j.got \o results
<1>1. /\ n \in Nat \ {0} /\ Len(j.got) \in Nat
      /\ First(j) \in Nat /\ Last(j) \in Nat /\ End(j) \in Nat
      /\ First(j) <= Last(j) /\ Last(j) <= End(j)
      /\ Head(j.todo) = j.todo[1] /\ j.next \in Int
  BY ShapeFacts DEF Work, JobOK
<1>2. /\ j.got \in Seq(Outcome) /\ j.base \in Nat
      /\ First(j) = j.base + Len(j.got) + 1
      /\ j.todo \in Seq(Nat \X Nat)
      /\ \A k \in 1 .. n :
           j.todo[k][1] <= j.todo[k][2] /\ j.todo[k][2] <= End(j)
      /\ \A k \in 1 .. n - 1 : j.todo[k + 1][1] = j.todo[k][2] + 1
      /\ End(j) = j.todo[n][2]
  BY DEF Work, ShapeOK, End
<1>3. /\ f.mode = IF n = 1 THEN "pick" ELSE "multi"
      /\ f.base = j.base /\ f.todo = Tail(j.todo) /\ f.got = both
      /\ f.next = 0 /\ f.lanes = 0
  BY DEF Answered, NewJob
<1>4. /\ both \in Seq(Outcome) /\ Len(both) = Len(j.got) + Len(results)
      /\ \A k \in 1 .. Len(j.got) : both[k] = j.got[k]
      /\ \A k \in Len(j.got) + 1 .. Len(j.got) + Len(results) :
           both[k] = results[k - Len(j.got)]
  <2>1. results \in Seq(Outcome) /\ j.got \in Seq(Outcome)
    BY <1>2 DEF AnswersFirst
  <2> QED BY <2>1, ConcatAt
<1> HIDE DEF both, n
<1>5. /\ Len(results) = Last(j) - First(j) + 1
      /\ \A k \in 1 .. Len(results) : Good(c, First(j) + k - 1, results[k], t)
  BY DEF AnswersFirst
<1>6. Len(both) \in Nat /\ j.base + Len(both) = Last(j)
  <2>1. /\ First(j) \in Nat /\ Last(j) \in Nat /\ First(j) <= Last(j)
        /\ j.base \in Nat /\ Len(j.got) \in Nat
        /\ First(j) = j.base + Len(j.got) + 1
    BY <1>1, <1>2
  <2>2. /\ Len(both) = Len(j.got) + Len(results)
        /\ Len(results) = Last(j) - First(j) + 1
    BY <1>4, <1>5
  <2>3. PICK base, got, first, last, new, sum :
          /\ base = j.base /\ got = Len(j.got) /\ first = First(j)
          /\ last = Last(j) /\ new = Len(results) /\ sum = Len(both)
    OBVIOUS
  <2>4. /\ first \in Nat /\ last \in Nat /\ first <= last
        /\ base \in Nat /\ got \in Nat /\ first = base + got + 1
    BY <2>1, <2>3
  <2>5. sum = got + new /\ new = last - first + 1
    BY <2>2, <2>3
  <2>6. sum \in Nat /\ base + sum = last
    BY <2>4, <2>5
  <2> QED BY <2>3, <2>6
<1>7. GotOK(c, f, t)
  <2>1. SUFFICES ASSUME NEW k \in 1 .. Len(both)
                 PROVE  Good(c, j.base + k, both[k], t)
    BY <1>3 DEF GotOK
  <2>2. CASE k <= Len(j.got)
    <3>1. k \in 1 .. Len(j.got)
      BY <1>1, <1>6, <2>2
    <3> QED BY <1>4, <3>1 DEF Work, GotOK
  <2>3. CASE ~(k <= Len(j.got))
    <3>1. /\ k \in Len(j.got) + 1 .. Len(j.got) + Len(results)
          /\ k - Len(j.got) \in 1 .. Len(results)
          /\ First(j) + (k - Len(j.got)) - 1 = j.base + k
      <4>1. /\ First(j) = j.base + Len(j.got) + 1
            /\ j.base \in Nat /\ Len(j.got) \in Nat
        BY <1>1, <1>2
      <4>2. /\ Len(both) = Len(j.got) + Len(results) /\ Len(both) \in Nat
        BY <1>4, <1>6
      <4>3. Len(results) \in Int
        BY <1>1, <1>5
      <4> QED BY <2>3, <4>1, <4>2, <4>3
    <3> QED BY <1>4, <1>5, <3>1
  <2> QED BY <2>2, <2>3
<1>8. CASE n = 1
  <2>1. Last(j) = End(j)
    BY <1>1, <1>2, <1>8 DEF Last
  <2>2. f.mode = "pick"
    BY <1>3, <1>8
  <2>3. Len(both) = End(j) - j.base
    BY <1>1, <1>2, <1>6, <2>1, SMTT(30)
  <2> QED BY <1>3, <1>6, <1>7, <2>2, <2>3
<1>9. CASE n # 1
  <2>1. f.mode = "multi"
    BY <1>3, <1>9
  <2>2. /\ Tail(j.todo) \in Seq(Nat \X Nat) /\ Len(Tail(j.todo)) = n - 1
        /\ \A k \in 1 .. n - 1 : Tail(j.todo)[k] = j.todo[k + 1]
    <3> DEFINE A == Nat \X Nat
    <3>1. j.todo \in Seq(A) /\ Len(j.todo) # 0
      BY <1>1, <1>2 DEF n
    <3> HIDE DEF A
    <3>2. /\ Tail(j.todo) \in Seq(A) /\ Len(Tail(j.todo)) = Len(j.todo) - 1
          /\ \A k \in 1 .. Len(j.todo) - 1 : Tail(j.todo)[k] = j.todo[k + 1]
      BY <3>1, TailRanges
    <3> QED BY <3>2 DEF A, n
  <2>3. f.todo # <<>>
    <3>1. Len(f.todo) # 0
      <4>1. n - 1 # 0
        BY <1>1, <1>9
      <4>2. Len(f.todo) = n - 1
        BY <1>3, <2>2
      <4> QED BY <4>1, <4>2
    <3> QED BY <3>1, EmptySeq, Zenon
  <2>4. 1 \in 1 .. n - 1 /\ n - 1 \in 1 .. n - 1 /\ (n - 1) + 1 = n
    BY <1>1, <1>9
  <2>5. Head(f.todo) = f.todo[1] /\ f.todo[1] = j.todo[2]
        /\ f.todo[n - 1] = j.todo[n]
    <3>1. Head(f.todo) = f.todo[1]
      BY <1>3, <2>2, <2>3
    <3>2. f.todo[1] = j.todo[1 + 1] /\ f.todo[n - 1] = j.todo[(n - 1) + 1]
      BY <1>3, <2>2, <2>4
    <3> QED BY <2>4, <3>1, <3>2
  <2>6. First(f) = Last(j) + 1 /\ End(f) = End(j)
    <3>1. j.todo[1 + 1][1] = j.todo[1][2] + 1
      BY <1>2, <2>4
    <3>2. First(f) = Last(j) + 1
      BY <1>1, <2>5, <3>1 DEF First, Last
    <3>3. End(f) = f.todo[n - 1][2]
      BY <1>3, <2>2 DEF End
    <3> QED BY <1>2, <2>5, <3>2, <3>3
  <2>7. ShapeOK(f)
    <3>1. \A k \in 1 .. n - 1 :
            f.todo[k][1] <= f.todo[k][2] /\ f.todo[k][2] <= End(f)
      <4>1. TAKE k \in 1 .. n - 1
      <4>2. k + 1 \in 1 .. n /\ f.todo[k] = j.todo[k + 1]
        BY <1>1, <1>3, <2>2
      <4> QED BY <1>2, <2>6, <4>2
    <3>2. \A k \in 1 .. (n - 1) - 1 : f.todo[k + 1][1] = f.todo[k][2] + 1
      <4>1. TAKE k \in 1 .. (n - 1) - 1
      <4>2. k + 1 \in 1 .. n - 1 /\ k \in 1 .. n - 1
        BY <1>1
      <4>3. f.todo[k] = j.todo[k + 1] /\ f.todo[k + 1] = j.todo[(k + 1) + 1]
        BY <1>3, <2>2, <4>2
      <4> QED BY <1>2, <4>2, <4>3
    <3>3. First(f) = f.base + Len(f.got) + 1
      BY <1>1, <1>2, <1>3, <1>6, <2>6
    <3> QED BY <1>2, <1>3, <1>4, <2>2, <2>3, <3>1, <3>2, <3>3 DEF ShapeOK
  <2>8. TriesOK(f, t)
    <3>1. \A i \in First(f) .. End(f) : t[i] = 0
      <4>1. TAKE i \in First(f) .. End(f)
      <4>2. j.next <= Last(j) + 1
        BY DEF Work, TriesOK
      <4>3. i \in First(j) .. End(j) /\ i >= j.next
        BY <1>1, <2>6, <4>2
      <4> QED BY <4>3 DEF Work, TriesOK
    <3>2. f.next <= Last(f) + 1
      <4>1. Last(f) \in Nat
        BY <2>7, ShapeFacts
      <4> QED BY <1>3, <4>1
    <3> QED BY <1>3, <2>1, <3>1, <3>2 DEF TriesOK
  <2>9. ResOK(c, f, t)
    BY <2>1 DEF ResOK
  <2> QED BY <1>3, <1>6, <1>7, <2>1, <2>6, <2>7, <2>8, <2>9 DEF Work
<1> QED BY <1>8, <1>9

(* The results of a fan-out, once all are good.                            *)
LEMMA ResultsAnswer ==
  ASSUME NEW c, NEW t, NEW j, ShapeOK(j),
         \A i \in First(j) .. Last(j) :
           j.res[i] \in Outcome /\ Good(c, i, j.res[i], t)
  PROVE  AnswersFirst(c, j, t, Results(j))
<1> DEFINE m == Last(j) - First(j) + 1
<1>1. /\ First(j) \in Nat /\ Last(j) \in Nat /\ First(j) <= Last(j)
      /\ Size(Head(j.todo)) = m
  BY ShapeFacts
<1>2. m \in Nat
  BY <1>1
<1>3. Results(j) = [k \in 1 .. m |-> j.res[First(j) + k - 1]]
  BY <1>1 DEF Results
<1>4. \A k \in 1 .. m : First(j) + k - 1 \in First(j) .. Last(j)
  BY <1>1
<1> HIDE DEF m
<1>5. Results(j) \in Seq(Outcome) /\ Len(Results(j)) = m
  BY <1>2, <1>3, <1>4
<1> QED BY <1>3, <1>4, <1>5 DEF AnswersFirst, m

LEMMA FanoutAnswers ==
  ASSUME NEW c, NEW t, NEW j, Work(c, j, t),
         \/ FannedOut(j) /\ Errors(j) = {}
         \/ j.mode = "retry" /\ j.redo = {}
  PROVE  AnswersFirst(c, j, t, Results(j))
<1>1. ASSUME FannedOut(j), Errors(j) = {}, NEW i \in First(j) .. Last(j)
      PROVE  j.res[i] \in Outcome /\ Good(c, i, j.res[i], t)
  <2>1. j.mode = "direct" /\ j.res[i] # None
    BY <1>1 DEF FannedOut
  <2>2. j.res[i].how # "error"
    BY <1>1 DEF Errors
  <2> QED BY <2>1, <2>2 DEF Work, ResOK, Good
<1>2. ASSUME j.mode = "retry", j.redo = {}, NEW i \in First(j) .. Last(j)
      PROVE  j.res[i] \in Outcome /\ Good(c, i, j.res[i], t)
  BY <1>2 DEF Work, ResOK
<1> QED BY <1>1, <1>2, ResultsAnswer DEF Work

(* The results of a multicall.                                             *)
LEMMA MultiAnswersFirst ==
  ASSUME NEW c, NEW t, NEW j, ShapeOK(j),
         NEW results,
         results = [k \in 1 .. Size(Head(j.todo)) |->
                      LET i == First(j) + k - 1 IN
                      Result(i, IF Kind[c][i] = "ok" THEN "ok" ELSE "bad")]
  PROVE  AnswersFirst(c, j, t, results)
<1> DEFINE m == Last(j) - First(j) + 1
<1>1. /\ First(j) \in Nat /\ Last(j) \in Nat /\ First(j) <= Last(j)
      /\ Size(Head(j.todo)) = m
  BY ShapeFacts
<1>2. m \in Nat
  BY <1>1
<1>3. \A k \in 1 .. m : First(j) + k - 1 \in Nat
  BY <1>1
<1> HIDE DEF m
<1>4. DOMAIN results = 1 .. m
  BY <1>1
<1>5. ASSUME NEW k \in 1 .. m
      PROVE  /\ results[k] \in Outcome
             /\ Good(c, First(j) + k - 1, results[k], t)
  <2> DEFINE i == First(j) + k - 1
             how == IF Kind[c][i] = "ok" THEN "ok" ELSE "bad"
  <2>1. results[k] = [call |-> i, how |-> how]
    BY <1>1 DEF Result
  <2>2. i \in Nat
    BY <1>3
  <2> HIDE DEF i
  <2>3. results[k] \in Outcome /\ results[k].call = i /\ results[k].how = how
    BY <2>1, <2>2 DEF Outcome
  <2>4. results[k] # None
    BY <2>3, HistoricalAssumption DEF Outcome
  <2>5. Good(c, i, results[k], t)
    BY <2>3, <2>4 DEF Good
  <2> QED BY <2>3, <2>5 DEF i
<1>6. results \in Seq(Outcome) /\ Len(results) = m
  <2>1. results = [k \in 1 .. m |-> results[k]]
    BY <1>1
  <2>2. results \in [1 .. m -> Outcome]
    BY <1>5, <2>1
  <2> QED BY <1>2, <2>2, SeqOfLength
<1> QED BY <1>5, <1>6 DEF AnswersFirst, m

-----------------------------------------------------------------------------
(* A caller: its phase p, the calls n given to workers, its workers J, its *)
(* result o and its direct calls t.                                        *)

Apart(j, k) == End(j) <= k.base \/ End(k) <= j.base

(* The chunks of the workers are apart and below n; nobody called beyond.  *)
ChunksOK(c, n, J, t) ==
  /\ n \in 0 .. Len(Kind[c])
  /\ \A i \in Calls(c) : t[i] \in 0 .. 2 /\ (i > n => t[i] = 0)
  /\ \A w \in Workers : Busy(J[w]) => Work(c, J[w], t) /\ End(J[w]) <= n
  /\ \A w, x \in Workers : w # x /\ Busy(J[w]) /\ Busy(J[x]) =>
                             Apart(J[w], J[x])

(* While it runs: what is not in its place belongs to a worker, and the    *)
(* first worker ends only after the last chunk.                            *)
RunsOK(c, n, J, o, t) ==
  /\ \A w \in Workers : J[w].mode # "threw"
  /\ J[1].mode = "ended" => n = Len(Kind[c])
  /\ \A i \in 1 .. n : \/ Good(c, i, o[i], t)
                       \/ \E w \in Workers : Busy(J[w]) /\ i \in Chunk(J[w])

DoneOK(c, J, o, t) ==
  /\ \A w \in Workers : J[w].mode = "ended"
  /\ \A i \in Calls(c) : Good(c, i, o[i], t)

CallerOK(c, p, n, J, o, t) ==
  /\ ChunksOK(c, n, J, t)
  /\ p = "running" => RunsOK(c, n, J, o, t)
  /\ p = "done" => DoneOK(c, J, o, t)
  /\ p \in {"idle", "probing"} => n = 0

(* Worker w of J becomes the worker j.                                     *)
Put(J, w, j, K) ==
  K[w] = j /\ \A x \in Workers : x # w => K[x] = J[x]

LEMMA CallsOf ==
  ASSUME NEW c \in Callers
  PROVE  /\ Len(Kind[c]) \in Nat \ {0}
         /\ Calls(c) = 1 .. Len(Kind[c])
         /\ 1 \in Workers /\ MulticallConcurrency \in Nat \ {0}
<1>1. Kind[c] \in Seq({"ok", "revert", "empty"}) /\ Kind[c] # <<>>
  BY HistoricalAssumption
<1>2. Len(Kind[c]) \in Nat \ {0}
  BY <1>1
<1>3. 1 \in Workers /\ MulticallConcurrency \in Nat \ {0}
  BY HistoricalAssumption DEF Workers
<1> QED BY <1>2, <1>3 DEF Calls

LEMMA BusyChunk ==
  ASSUME NEW c \in Callers, NEW n, NEW J, NEW t, ChunksOK(c, n, J, t),
         NEW w \in Workers, Busy(J[w])
  PROVE  /\ Work(c, J[w], t) /\ ShapeOK(J[w])
         /\ Chunk(J[w]) \subseteq 1 .. n /\ Chunk(J[w]) \subseteq Calls(c)
         /\ End(J[w]) <= n /\ n \in Nat
<1>1. Work(c, J[w], t) /\ End(J[w]) <= n /\ n \in 0 .. Len(Kind[c])
  BY DEF ChunksOK
<1>2. ShapeOK(J[w]) /\ J[w].base \in Nat /\ End(J[w]) \in Nat
  BY <1>1, ShapeFacts DEF Work, ShapeOK
<1>3. n \in Nat
  BY <1>1, CallsOf
<1>4. Chunk(J[w]) \subseteq 1 .. n
  BY <1>1, <1>2, <1>3 DEF Chunk
<1>5. 1 .. n \subseteq Calls(c)
  BY <1>1, CallsOf
<1> QED BY <1>1, <1>2, <1>3, <1>4, <1>5

(* A worker with a chunk moves on and keeps the chunk, and makes direct    *)
(* calls of the chunk only.                                                *)
LEMMA KeepsChunk ==
  ASSUME NEW c \in Callers, NEW p, NEW n, NEW J, NEW o, NEW t,
         CallerOK(c, p, n, J, o, t),
         NEW w \in Workers, Busy(J[w]), NEW j, NEW K, Put(J, w, j, K),
         Busy(j), j.base = J[w].base, End(j) = End(J[w]),
         NEW u, Work(c, j, u), Grows(c, t, u),
         \A i \in Calls(c) \ Chunk(J[w]) : u[i] = t[i],
         NEW q,
         \/ q = p /\ (j.mode = "threw" => J[w].mode = "threw")
         \/ q = IF p = "running" THEN "failed" ELSE p
  PROVE  CallerOK(c, q, n, K, o, u)
<1>1. ChunksOK(c, n, J, t)
  BY DEF CallerOK
<1>2. /\ Chunk(j) = Chunk(J[w]) /\ Chunk(j) \subseteq 1 .. n
      /\ 1 .. n \subseteq Calls(c) /\ n \in Nat /\ n <= Len(Kind[c])
      /\ End(j) <= n /\ Len(Kind[c]) \in Nat
  <2>1. Chunk(j) = Chunk(J[w])
    BY DEF Chunk
  <2>2. n \in 0 .. Len(Kind[c])
    BY <1>1 DEF ChunksOK
  <2> QED BY <1>1, <2>1, <2>2, BusyChunk, CallsOf
<1>3. ASSUME NEW x \in Workers, x # w, Busy(K[x])
      PROVE  /\ K[x] = J[x] /\ Work(c, K[x], u) /\ End(K[x]) <= n
             /\ Apart(K[x], j) /\ Apart(j, K[x])
  <2>1. K[x] = J[x] /\ Busy(J[x])
    BY <1>3 DEF Put
  <2>2. /\ Work(c, J[x], t) /\ ShapeOK(J[x]) /\ ShapeOK(J[w])
        /\ Chunk(J[x]) \subseteq Calls(c) /\ End(J[x]) <= n
    BY <1>1, <2>1, BusyChunk
  <2>3. Apart(J[w], J[x])
    BY <1>1, <1>3, <2>1 DEF ChunksOK
  <2>4. /\ End(J[w]) \in Nat /\ End(J[x]) \in Nat
        /\ J[w].base \in Nat /\ J[x].base \in Nat
    BY <2>2, ShapeFacts DEF ShapeOK
  <2>5. \A i \in Chunk(J[x]) : i \notin Chunk(J[w])
    BY <2>3, <2>4 DEF Apart, Chunk
  <2>6. \A i \in Chunk(J[x]) : u[i] = t[i]
    BY <2>2, <2>5
  <2>7. Work(c, J[x], u)
    BY <2>2, <2>6, WorkStays
  <2>8. Apart(J[x], j) /\ Apart(j, J[x])
    BY <2>3 DEF Apart
  <2> QED BY <2>1, <2>2, <2>7, <2>8
<1>4. K[w] = j
  BY DEF Put
<1>5. ChunksOK(c, n, K, u)
  <2>1. \A i \in Calls(c) : u[i] \in 0 .. 2 /\ (i > n => u[i] = 0)
    <3>1. TAKE i \in Calls(c)
    <3>2. u[i] \in 0 .. 2
      BY DEF Grows
    <3>3. ASSUME i > n PROVE u[i] = 0
      <4>1. i \notin 1 .. n
        BY <1>2, <3>3
      <4>2. i \notin Chunk(J[w])
        BY <1>2, <4>1
      <4> QED BY <1>1, <3>3, <4>2 DEF ChunksOK
    <3> QED BY <3>2, <3>3
  <2>2. \A x \in Workers : Busy(K[x]) => Work(c, K[x], u) /\ End(K[x]) <= n
    BY <1>2, <1>3, <1>4
  <2>3. ASSUME NEW x \in Workers, NEW y \in Workers, x # y,
               Busy(K[x]), Busy(K[y])
        PROVE  Apart(K[x], K[y])
    <3>1. CASE x = w
      BY <1>3, <1>4, <2>3, <3>1
    <3>2. CASE y = w
      BY <1>3, <1>4, <2>3, <3>2
    <3>3. CASE x # w /\ y # w
      BY <1>1, <1>3, <2>3, <3>3 DEF ChunksOK
    <3> QED BY <3>1, <3>2, <3>3
  <2> QED BY <1>1, <2>1, <2>2, <2>3 DEF ChunksOK
<1>6. ASSUME q = "running" PROVE RunsOK(c, n, K, o, u)
  <2>1. p = "running" /\ RunsOK(c, n, J, o, t)
    BY <1>6 DEF CallerOK
  <2>2. \A x \in Workers : K[x].mode # "threw"
    <3>1. J[w].mode # "threw" /\ j.mode # "threw"
      BY <1>6, <2>1 DEF RunsOK
    <3> QED BY <1>4, <2>1, <3>1 DEF RunsOK, Put
  <2>3. K[1].mode = "ended" => n = Len(Kind[c])
    <3>1. w = 1 => K[1].mode # "ended"
      BY <1>4 DEF Busy
    <3> QED BY <2>1, <3>1, CallsOf DEF RunsOK, Put
  <2>4. ASSUME NEW i \in 1 .. n
        PROVE  \/ Good(c, i, o[i], u)
               \/ \E x \in Workers : Busy(K[x]) /\ i \in Chunk(K[x])
    <3>1. CASE Good(c, i, o[i], t)
      BY <1>2, <3>1, GoodStays
    <3>2. ASSUME NEW x \in Workers, Busy(J[x]), i \in Chunk(J[x])
          PROVE  \E y \in Workers : Busy(K[y]) /\ i \in Chunk(K[y])
      BY <1>2, <1>4, <3>2 DEF Put
    <3> QED BY <2>1, <3>1, <3>2 DEF RunsOK
  <2> QED BY <2>2, <2>3, <2>4 DEF RunsOK
<1>7. q # "done"
  <2>1. p # "done"
    BY DEF CallerOK, DoneOK, Busy
  <2> QED BY <2>1
<1>8. q \in {"idle", "probing"} => n = 0
  BY DEF CallerOK
<1> QED BY <1>5, <1>6, <1>7, <1>8 DEF CallerOK

(* A worker takes the next chunk.                                          *)
LEMMA TakesChunk ==
  ASSUME NEW c \in Callers, NEW p, NEW n, NEW J, NEW o, NEW t,
         CallerOK(c, p, n, J, o, t), p \notin {"idle", "probing"},
         NEW w \in Workers, J[w].mode = "pick", NEW j, NEW K, Put(J, w, j, K),
         Busy(j), j.mode # "threw", Work(c, j, t), j.base = n,
         NEW end \in Nat, n < end, end <= Len(Kind[c]), End(j) = end
  PROVE  CallerOK(c, p, end, K, o, t)
<1>1. ChunksOK(c, n, J, t) /\ n \in Nat /\ Len(Kind[c]) \in Nat
  BY CallsOf DEF CallerOK, ChunksOK
<1>2. K[w] = j /\ ~Busy(J[w])
  BY DEF Put, Busy
<1>3. ASSUME NEW x \in Workers, x # w, Busy(K[x])
      PROVE  /\ K[x] = J[x] /\ Work(c, K[x], t) /\ End(K[x]) <= n
             /\ End(K[x]) <= end
  <2>1. K[x] = J[x] /\ Busy(J[x])
    BY <1>3 DEF Put
  <2>2. Work(c, J[x], t) /\ End(J[x]) <= n /\ End(J[x]) \in Nat
    BY <1>1, <2>1, BusyChunk, ShapeFacts
  <2> QED BY <1>1, <2>1, <2>2
<1>4. ChunksOK(c, end, K, t)
  <2>1. \A i \in Calls(c) : t[i] \in 0 .. 2 /\ (i > end => t[i] = 0)
    BY <1>1, CallsOf DEF ChunksOK
  <2>2. \A x \in Workers : Busy(K[x]) => Work(c, K[x], t) /\ End(K[x]) <= end
    BY <1>2, <1>3
  <2>3. ASSUME NEW x \in Workers, NEW y \in Workers, x # y,
               Busy(K[x]), Busy(K[y])
        PROVE  Apart(K[x], K[y])
    <3>1. CASE x = w
      BY <1>2, <1>3, <2>3, <3>1 DEF Apart
    <3>2. CASE y = w
      BY <1>2, <1>3, <2>3, <3>2 DEF Apart
    <3>3. CASE x # w /\ y # w
      BY <1>1, <1>3, <2>3, <3>3 DEF ChunksOK
    <3> QED BY <3>1, <3>2, <3>3
  <2>4. end \in 0 .. Len(Kind[c])
    BY <1>1
  <2> QED BY <2>1, <2>2, <2>3, <2>4 DEF ChunksOK
<1>5. ASSUME p = "running" PROVE RunsOK(c, end, K, o, t)
  <2>1. RunsOK(c, n, J, o, t)
    BY <1>5 DEF CallerOK
  <2>2. \A x \in Workers : K[x].mode # "threw"
    BY <1>2, <2>1 DEF RunsOK, Put
  <2>3. K[1].mode # "ended"
    <3>1. J[1].mode # "ended"
      BY <1>1, <2>1 DEF RunsOK
    <3> QED BY <1>2, <3>1, CallsOf DEF Put, Busy
  <2>4. ASSUME NEW i \in 1 .. end
        PROVE  \/ Good(c, i, o[i], t)
               \/ \E x \in Workers : Busy(K[x]) /\ i \in Chunk(K[x])
    <3>1. CASE i <= n
      <4>1. i \in 1 .. n
        BY <1>1, <3>1
      <4>2. ASSUME NEW x \in Workers, Busy(J[x]), i \in Chunk(J[x])
            PROVE  \E y \in Workers : Busy(K[y]) /\ i \in Chunk(K[y])
        BY <1>2, <4>2 DEF Put
      <4> QED BY <2>1, <4>1, <4>2 DEF RunsOK
    <3>2. CASE ~(i <= n)
      <4>1. i \in Chunk(j)
        BY <1>1, <3>2 DEF Chunk
      <4> QED BY <1>2, <4>1
    <3> QED BY <3>1, <3>2
  <2> QED BY <2>2, <2>3, <2>4 DEF RunsOK
<1>6. p # "done"
  BY DEF CallerOK, DoneOK
<1> QED BY <1>4, <1>5, <1>6 DEF CallerOK

(* A worker without a chunk ends, when all chunks are taken.               *)
LEMMA EndsIdle ==
  ASSUME NEW c \in Callers, NEW p, NEW n, NEW J, NEW o, NEW t,
         CallerOK(c, p, n, J, o, t),
         NEW w \in Workers, J[w].mode = "pick", n >= Len(Kind[c]),
         NEW j, NEW K, Put(J, w, j, K), j.mode = "ended"
  PROVE  CallerOK(c, p, n, K, o, t)
<1>1. ChunksOK(c, n, J, t) /\ n = Len(Kind[c])
  BY CallsOf DEF CallerOK, ChunksOK
<1>2. \A x \in Workers : Busy(K[x]) => x # w /\ K[x] = J[x] /\ Busy(J[x])
  BY DEF Put, Busy
<1>3. ChunksOK(c, n, K, t)
  BY <1>1, <1>2 DEF ChunksOK
<1>4. ASSUME p = "running" PROVE RunsOK(c, n, K, o, t)
  <2>1. RunsOK(c, n, J, o, t)
    BY <1>4 DEF CallerOK
  <2>2. \A x \in Workers : Busy(J[x]) => K[x] = J[x]
    BY DEF Put, Busy
  <2>3. \A x \in Workers : K[x].mode # "threw"
    BY <2>1 DEF RunsOK, Put
  <2> QED BY <1>1, <2>1, <2>2, <2>3 DEF RunsOK
<1>5. p = "done" => DoneOK(c, K, o, t)
  BY DEF CallerOK, DoneOK, Put
<1> QED BY <1>3, <1>4, <1>5 DEF CallerOK

(* A worker completes its chunk, which goes to its place.                  *)
LEMMA CompletesChunk ==
  ASSUME NEW c \in Callers, NEW p, NEW n, NEW J, NEW o, NEW t,
         CallerOK(c, p, n, J, o, t),
         NEW w \in Workers, Busy(J[w]), NEW j, NEW K, Put(J, w, j, K),
         j.mode = "pick", j.base = J[w].base, GotOK(c, j, t),
         Len(j.got) = End(J[w]) - j.base,
         NEW r,
         \A i \in Calls(c) :
           r[i] = IF i \in j.base + 1 .. j.base + Len(j.got)
                  THEN j.got[i - j.base] ELSE o[i]
  PROVE  CallerOK(c, p, n, K, r, t)
<1>1. ChunksOK(c, n, J, t)
  BY DEF CallerOK
<1>2. /\ Chunk(J[w]) \subseteq Calls(c) /\ n \in Nat /\ n <= Len(Kind[c])
      /\ End(J[w]) \in Nat /\ j.base \in Nat /\ Len(Kind[c]) \in Nat
  <2>1. n \in 0 .. Len(Kind[c])
    BY <1>1 DEF ChunksOK
  <2>2. /\ Chunk(J[w]) \subseteq Calls(c) /\ n \in Nat
        /\ ShapeOK(J[w]) /\ J[w].base \in Nat
    BY <1>1, BusyChunk DEF ShapeOK
  <2>3. End(J[w]) \in Nat
    BY <2>2, ShapeFacts
  <2> QED BY <2>1, <2>2, <2>3, CallsOf
<1>3. Chunk(J[w]) = j.base + 1 .. j.base + Len(j.got)
  BY <1>2 DEF Chunk
<1>4. \A x \in Workers : Busy(K[x]) => x # w /\ K[x] = J[x] /\ Busy(J[x])
  BY DEF Put, Busy
<1>5. ChunksOK(c, n, K, t)
  BY <1>1, <1>4 DEF ChunksOK
<1>6. ASSUME NEW i \in Chunk(J[w]) PROVE Good(c, i, r[i], t)
  <2>1. i - j.base \in 1 .. Len(j.got) /\ j.base + (i - j.base) = i
    BY <1>2, <1>3
  <2>2. r[i] = j.got[i - j.base]
    BY <1>2, <1>3
  <2> QED BY <2>1, <2>2 DEF GotOK
<1>7. ASSUME p = "running" PROVE RunsOK(c, n, K, r, t)
  <2>1. RunsOK(c, n, J, o, t)
    BY <1>7 DEF CallerOK
  <2>2. \A x \in Workers : K[x].mode # "threw"
    BY <2>1 DEF RunsOK, Put
  <2>3. K[1].mode = "ended" => n = Len(Kind[c])
    BY <2>1, CallsOf DEF RunsOK, Put
  <2>4. ASSUME NEW i \in 1 .. n
        PROVE  \/ Good(c, i, r[i], t)
               \/ \E x \in Workers : Busy(K[x]) /\ i \in Chunk(K[x])
    <3>1. CASE i \in Chunk(J[w])
      BY <1>6, <3>1
    <3>2. CASE i \notin Chunk(J[w])
      <4>1. i \in Calls(c)
        BY <1>2, CallsOf
      <4>2. r[i] = o[i]
        BY <1>3, <3>2, <4>1
      <4>3. ASSUME NEW x \in Workers, Busy(J[x]), i \in Chunk(J[x])
            PROVE  \E y \in Workers : Busy(K[y]) /\ i \in Chunk(K[y])
        BY <3>2, <4>3 DEF Put
      <4> QED BY <2>1, <4>2, <4>3 DEF RunsOK
    <3> QED BY <3>1, <3>2
  <2> QED BY <2>2, <2>3, <2>4 DEF RunsOK
<1>8. p # "done"
  BY DEF CallerOK, DoneOK, Busy
<1>9. p \in {"idle", "probing"} => n = 0
  BY DEF CallerOK
<1> QED BY <1>5, <1>7, <1>8, <1>9 DEF CallerOK

(* A caller gets its workers, waits for the probe, or is told that it      *)
(* failed.                                                                 *)
LEMMA StartsOK ==
  ASSUME NEW c \in Callers, NEW p \in {"idle", "probing"}, NEW n, NEW J,
         NEW o, NEW t, CallerOK(c, p, n, J, o, t),
         NEW K, \A w \in Workers : K[w].mode \in {"pick", "ended"},
         NEW q \in {"running", "probing", "failed"},
         q = "running" => K[1].mode = "pick"
  PROVE  CallerOK(c, q, n, K, o, t)
<1>1. n = 0 /\ ChunksOK(c, n, J, t)
  BY DEF CallerOK
<1>2. \A w \in Workers : ~Busy(K[w])
  BY DEF Busy
<1>3. ChunksOK(c, n, K, t)
  BY <1>1, <1>2 DEF ChunksOK
<1>4. q = "running" => RunsOK(c, n, K, o, t)
  BY <1>1 DEF RunsOK
<1> QED BY <1>1, <1>3, <1>4 DEF CallerOK

(* All workers have ended.                                                 *)
LEMMA ReturnsOK ==
  ASSUME NEW c \in Callers, NEW n, NEW J, NEW o, NEW t,
         CallerOK(c, "running", n, J, o, t),
         \A w \in Workers : J[w].mode = "ended"
  PROVE  CallerOK(c, "done", n, J, o, t)
<1>1. ChunksOK(c, n, J, t) /\ RunsOK(c, n, J, o, t)
  BY DEF CallerOK
<1>2. Calls(c) = 1 .. n
  BY <1>1, CallsOf DEF RunsOK
<1>3. \A w \in Workers : ~Busy(J[w])
  BY DEF Busy
<1>4. DoneOK(c, J, o, t)
  BY <1>1, <1>2, <1>3 DEF RunsOK, DoneOK
<1> QED BY <1>1, <1>4 DEF CallerOK

-----------------------------------------------------------------------------
(* Every step keeps all callers in order.                                  *)

WorkInv ==
  /\ tries = [c \in Callers |-> [i \in Calls(c) |-> tries[c][i]]]
  /\ out = [c \in Callers |-> [i \in Calls(c) |-> out[c][i]]]
  /\ \A c \in Callers :
       CallerOK(c, phase[c], cut[c], job[c], out[c], tries[c])
  /\ \A x \in InFlight : FitsWork(x, job[x[1]][x[2]], tries[x[1]])

LEMMA SameTries ==
  ASSUME WorkInv, NEW c \in Callers
  PROVE  Grows(c, tries[c], tries[c])
  BY DEF WorkInv, CallerOK, ChunksOK, Grows

LEMMA JobPut ==
  ASSUME Inv, NEW c \in Callers, NEW w \in Workers, NEW j, Change(c, w, j)
  PROVE  /\ Put(job[c], w, j, job'[c])
         /\ \A d \in Callers : d # c => job'[d] = job[d]
  BY DEF Inv, JobsInv, Change, Put

(* A step of one worker, or of a call of that worker.                      *)
LEMMA StepKeeps ==
  ASSUME Inv, WorkInv, NEW c \in Callers, NEW w \in Workers, NEW j,
         Change(c, w, j),
         \A d \in Callers : d # c =>
           /\ phase'[d] = phase[d] /\ cut'[d] = cut[d]
           /\ out'[d] = out[d] /\ tries'[d] = tries[d],
         tries' = [d \in Callers |-> [i \in Calls(d) |-> tries'[d][i]]],
         out' = [d \in Callers |-> [i \in Calls(d) |-> out'[d][i]]],
         CallerOK(c, phase'[c], cut'[c], job'[c], out'[c], tries'[c]),
         Grows(c, tries[c], tries'[c]),
         \A x \in InFlight' : x \in InFlight \/ (x[1] = c /\ x[2] = w),
         \A x \in InFlight' : x[1] = c /\ x[2] = w => FitsWork(x, j, tries'[c])
  PROVE  WorkInv'
<1>1. /\ job'[c][w] = j /\ \A x \in Workers : x # w => job'[c][x] = job[c][x]
      /\ \A d \in Callers : d # c => job'[d] = job[d]
  BY JobPut DEF Put
<1>2. \A d \in Callers :
        CallerOK(d, phase'[d], cut'[d], job'[d], out'[d], tries'[d])
  <2>1. ASSUME NEW d \in Callers, d # c
        PROVE  CallerOK(d, phase'[d], cut'[d], job'[d], out'[d], tries'[d])
    <3>1. CallerOK(d, phase[d], cut[d], job[d], out[d], tries[d])
      BY DEF WorkInv
    <3>2. /\ phase'[d] = phase[d] /\ cut'[d] = cut[d]
          /\ out'[d] = out[d] /\ tries'[d] = tries[d] /\ job'[d] = job[d]
      BY <1>1, <2>1
    <3> QED BY <3>1, <3>2
  <2> QED BY <2>1
<1>3. ASSUME NEW x \in InFlight'
      PROVE  FitsWork(x, job'[x[1]][x[2]], tries'[x[1]])
  <2>1. CASE x[1] = c /\ x[2] = w
    BY <1>1, <2>1
  <2>2. CASE ~(x[1] = c /\ x[2] = w)
    <3>1. x \in InFlight /\ x[1] \in Callers /\ x[2] \in Workers
      BY <2>2 DEF Inv, FlightsInv
    <3>2. job'[x[1]][x[2]] = job[x[1]][x[2]]
      BY <1>1, <2>2, <3>1
    <3>3. FitsWork(x, job[x[1]][x[2]], tries[x[1]])
      BY <3>1 DEF WorkInv
    <3>4. x[3] \in Calls(x[1])
      BY <3>3 DEF FitsWork
    <3>5. tries[x[1]][x[3]] = 2 => tries'[x[1]][x[3]] = 2
      <4>1. CASE x[1] = c
        BY <3>4, <4>1 DEF Grows
      <4>2. CASE x[1] # c
        BY <3>1, <4>2
      <4> QED BY <4>1, <4>2
    <3> QED BY <3>2, <3>3, <3>5 DEF FitsWork
  <2> QED BY <2>1, <2>2
<1> QED BY <1>2, <1>3 DEF WorkInv

(* The worker of a caller that has one.                                    *)
LEMMA OneWorks ==
  ASSUME WorkInv, NEW c \in Callers, NEW w \in Workers, Busy(job[c][w])
  PROVE  /\ Work(c, job[c][w], tries[c]) /\ ShapeOK(job[c][w])
         /\ Chunk(job[c][w]) \subseteq Calls(c)
         /\ CallerOK(c, phase[c], cut[c], job[c], out[c], tries[c])
<1>1. CallerOK(c, phase[c], cut[c], job[c], out[c], tries[c])
  BY DEF WorkInv
<1>2. ChunksOK(c, cut[c], job[c], tries[c])
  BY <1>1 DEF CallerOK
<1> QED BY <1>1, <1>2, BusyChunk

(* A step in which a worker keeps its chunk and makes no direct call.      *)
LEMMA StaysBusy ==
  ASSUME Inv, WorkInv, NEW c \in Callers, NEW w \in Workers,
         Busy(job[c][w]), NEW j, Change(c, w, j),
         Work(c, j, tries[c]), Busy(j),
         j.base = job[c][w].base, End(j) = End(job[c][w]),
         UNCHANGED <<cut, out, tries>>,
         \/ phase' = phase /\ (j.mode = "threw" => job[c][w].mode = "threw")
         \/ Rejected(c),
         \A x \in InFlight' : x \in InFlight,
         \A x \in InFlight' : x[1] = c /\ x[2] = w => FitsWork(x, j, tries[c])
  PROVE  WorkInv'
<1>1. Put(job[c], w, j, job'[c])
  BY JobPut
<1>2. CallerOK(c, phase[c], cut[c], job[c], out[c], tries[c])
  BY DEF WorkInv
<1>3. /\ \/ /\ phase'[c] = phase[c]
            /\ j.mode = "threw" => job[c][w].mode = "threw"
         \/ phase'[c] = IF phase[c] = "running" THEN "failed" ELSE phase[c]
      /\ \A d \in Callers : d # c => phase'[d] = phase[d]
  BY DEF Rejected, Inv, PhaseInv
<1>4. CallerOK(c, phase'[c], cut[c], job'[c], out[c], tries[c])
  BY <1>1, <1>2, <1>3, SameTries, KeepsChunk
<1>5. \A d \in Callers : d # c =>
        /\ phase'[d] = phase[d] /\ cut'[d] = cut[d]
        /\ out'[d] = out[d] /\ tries'[d] = tries[d]
  BY <1>3
<1>6. /\ tries' = [d \in Callers |-> [i \in Calls(d) |-> tries'[d][i]]]
      /\ out' = [d \in Callers |-> [i \in Calls(d) |-> out'[d][i]]]
  BY DEF WorkInv
<1> QED BY <1>4, <1>5, <1>6, SameTries, StepKeeps

(* A step in which the first range of a worker is answered.                *)
LEMMA AnswerKeeps ==
  ASSUME Inv, WorkInv, NEW c \in Callers, NEW w \in Workers,
         Busy(job[c][w]), job[c][w].mode # "threw",
         NEW results, AnswersFirst(c, job[c][w], tries[c], results),
         Becomes(c, w, Answered(job[c][w], results)),
         \A x \in InFlight : ~(x[1] = c /\ x[2] = w),
         UNCHANGED <<phase, cut, permits>>
  PROVE  WorkInv'
<1> DEFINE old == job[c][w]
<1>1. PICK f : f = Answered(old, results)
  OBVIOUS
<1>2. /\ JobOK(old) /\ Work(c, old, tries[c])
      /\ CallerOK(c, phase[c], cut[c], job[c], out[c], tries[c])
  BY OneJob, OneWorks
<1>3. /\ f.base = old.base /\ f.mode \in {"pick", "multi"}
      /\ f.mode = "multi" => Work(c, f, tries[c]) /\ End(f) = End(old)
      /\ f.mode = "pick" => Len(f.got) = End(old) - old.base
      /\ Len(f.got) \in Nat /\ GotOK(c, f, tries[c])
  BY <1>1, <1>2, AnsweredWorks
<1>4. Change(c, w, f) /\ UNCHANGED <<tries, running, waiters>>
  BY <1>1 DEF Becomes, Change, permits
<1>5. InFlight' = InFlight
  BY <1>4 DEF InFlight, Waiting
<1>6. CASE f.mode = "multi"
  <2>1. out' = out
    BY <1>1, <1>6 DEF Becomes
  <2>2. Busy(f) /\ f.mode # "threw"
    BY <1>6 DEF Busy
  <2> QED BY <1>3, <1>4, <1>5, <1>6, <2>1, <2>2, StaysBusy
<1>7. CASE f.mode = "pick"
  <2>1. out' = [out EXCEPT ![c] = [i \in Calls(c) |->
                  IF i \in f.base + 1 .. f.base + Len(f.got)
                  THEN f.got[i - f.base] ELSE out[c][i]]]
    BY <1>1, <1>7 DEF Becomes
  <2>2. /\ \A i \in Calls(c) :
             out'[c][i] = IF i \in f.base + 1 .. f.base + Len(f.got)
                          THEN f.got[i - f.base] ELSE out[c][i]
        /\ \A d \in Callers : d # c => out'[d] = out[d]
        /\ out' = [d \in Callers |-> [i \in Calls(d) |-> out'[d][i]]]
    BY <2>1 DEF WorkInv
  <2>3. Put(job[c], w, f, job'[c])
    BY <1>4, JobPut
  <2>4. PICK r : r = out'[c]
    OBVIOUS
  <2>5. CallerOK(c, phase[c], cut[c], job'[c], r, tries[c])
    BY <1>2, <1>3, <1>7, <2>2, <2>3, <2>4, CompletesChunk
  <2>6. tries' = [d \in Callers |-> [i \in Calls(d) |-> tries'[d][i]]]
    BY <1>4 DEF WorkInv
  <2> QED BY <1>4, <1>5, <2>2, <2>4, <2>5, <2>6, SameTries, StepKeeps
<1> QED BY <1>3, <1>6, <1>7

LEMMA MultiAnswersWork ==
  ASSUME Inv, WorkInv, NEW c \in Callers, NEW w \in Workers, MultiAnswers(c, w)
  PROVE  WorkInv'
<1> DEFINE j == job[c][w]
<1>1. j.mode = "multi" /\ UNCHANGED <<phase, cut, permits>>
  BY DEF MultiAnswers
<1>2. PICK results :
        /\ results = [k \in 1 .. Size(Head(j.todo)) |->
                        LET i == First(j) + k - 1 IN
                        Result(i, IF Kind[c][i] = "ok" THEN "ok" ELSE "bad")]
        /\ Becomes(c, w, Answered(j, results))
  BY DEF MultiAnswers
<1>3. Busy(j) /\ j.mode # "threw"
  BY <1>1 DEF Busy
<1>4. ShapeOK(j)
  BY <1>3, OneWorks
<1>5. AnswersFirst(c, j, tries[c], results)
  BY <1>2, <1>4, MultiAnswersFirst
<1>6. \A x \in InFlight : ~(x[1] = c /\ x[2] = w)
  BY <1>1, NotInFlight DEF Inv
<1> QED BY <1>1, <1>2, <1>3, <1>5, <1>6, AnswerKeeps

LEMMA FanoutEndsWork ==
  ASSUME Inv, WorkInv, NEW c \in Callers, NEW w \in Workers, FanoutEnds(c, w)
  PROVE  WorkInv'
<1> DEFINE j == job[c][w]
<1>1. FannedOut(j) /\ j.mode = "direct" /\ UNCHANGED <<phase, cut, permits>>
  BY DEF FanoutEnds, FannedOut
<1>2. Busy(j) /\ j.mode # "threw"
  BY <1>1 DEF Busy
<1>3. \A x \in InFlight : ~(x[1] = c /\ x[2] = w)
  BY <1>1, FannedOutIsThrough
<1>4. Work(c, j, tries[c]) /\ JobOK(j) /\ ShapeOK(j)
  BY <1>2, OneWorks, OneJob
<1>5. CASE Errors(j) = {}
  <2>1. AnswersFirst(c, j, tries[c], Results(j))
    BY <1>1, <1>4, <1>5, FanoutAnswers
  <2>2. Becomes(c, w, Answered(j, Results(j)))
    BY <1>5 DEF FanoutEnds
  <2>3. PICK results : /\ AnswersFirst(c, j, tries[c], results)
                       /\ Becomes(c, w, Answered(j, results))
    BY <2>1, <2>2
  <2> QED BY <1>1, <1>2, <1>3, <2>3, AnswerKeeps
<1>6. CASE Errors(j) # {}
  <2>1. PICK f : f = Retrying(j) /\ Becomes(c, w, f)
    BY <1>6 DEF FanoutEnds, Retrying
  <2>2. Work(c, f, tries[c]) /\ Same(j, f) /\ f.mode = "retry"
    BY <1>1, <1>4, <2>1, RetryWorks
  <2>3. Busy(f) /\ f.base = j.base /\ End(f) = End(j)
    BY <1>4, <2>2, SameShape DEF Busy, Same
  <2>4. Change(c, w, f) /\ UNCHANGED <<out, tries, running, waiters>>
    BY <1>1, <2>1, <2>2 DEF Becomes, Change, permits
  <2>5. InFlight' = InFlight
    BY <2>4 DEF InFlight, Waiting
  <2> QED BY <1>1, <1>2, <1>3, <2>2, <2>3, <2>4, <2>5, StaysBusy
<1> QED BY <1>5, <1>6

LEMMA RetryEndsWork ==
  ASSUME Inv, WorkInv, NEW c \in Callers, NEW w \in Workers, RetryEnds(c, w)
  PROVE  WorkInv'
<1> DEFINE j == job[c][w]
<1>1. /\ j.mode = "retry" /\ j.lanes = 1 /\ j.redo = {}
      /\ UNCHANGED <<phase, cut, permits>>
      /\ Becomes(c, w, Answered(j, Results(j)))
  BY DEF RetryEnds
<1>2. Busy(j) /\ j.mode # "threw"
  BY <1>1 DEF Busy
<1>3. \A x \in InFlight : ~(x[1] = c /\ x[2] = w)
  BY <1>1 DEF Inv, FlightsInv, Fits
<1>4. AnswersFirst(c, j, tries[c], Results(j))
  BY <1>1, <1>2, OneWorks, FanoutAnswers
<1>5. PICK results : /\ AnswersFirst(c, j, tries[c], results)
                     /\ Becomes(c, w, Answered(j, results))
  BY <1>1, <1>4
<1> QED BY <1>1, <1>2, <1>3, <1>5, AnswerKeeps

LEMMA MultiSplitsWork ==
  ASSUME Inv, WorkInv, NEW c \in Callers, NEW w \in Workers, MultiSplits(c, w)
  PROVE  WorkInv'
<1> DEFINE j == job[c][w]
<1>1. /\ j.mode = "multi" /\ Size(Head(j.todo)) > MinMulticallChunk
      /\ UNCHANGED <<phase, cut, out, permits>>
  BY DEF MultiSplits
<1>2. Busy(j)
  BY <1>1 DEF Busy
<1>3. \A x \in InFlight : ~(x[1] = c /\ x[2] = w)
  BY <1>1, NotInFlight DEF Inv
<1>4. job' = [job EXCEPT ![c][w] = Halved(j)]
  BY DEF MultiSplits, Inv, JobsInv, Halved
<1>5. PICK f : f = Halved(j) /\ Change(c, w, f)
  BY <1>4 DEF Change
<1>6. /\ Work(c, f, tries[c]) /\ f.mode = "multi" /\ f.base = j.base
      /\ End(f) = End(j)
  BY <1>1, <1>2, <1>5, OneWorks, OneJob, HalvedWorks
<1>7. UNCHANGED <<tries, running, waiters>> /\ Busy(f)
  BY <1>1, <1>6 DEF permits, Busy
<1>8. InFlight' = InFlight
  BY <1>7 DEF InFlight, Waiting
<1>9. phase' = phase /\ f.mode # "threw"
  BY <1>1, <1>6
<1> HIDE DEF j
<1> QED BY <1>1, <1>2, <1>3, <1>5, <1>6, <1>7, <1>8, <1>9, StaysBusy DEF j

LEMMA MultiFallsBackWork ==
  ASSUME Inv, WorkInv, NEW c \in Callers, NEW w \in Workers,
         MultiFallsBack(c, w)
  PROVE  WorkInv'
<1> DEFINE j == job[c][w]
<1>1. j.mode = "multi" /\ UNCHANGED <<phase, cut, out, permits>>
  BY DEF MultiFallsBack
<1>2. Busy(j)
  BY <1>1 DEF Busy
<1>3. \A x \in InFlight : ~(x[1] = c /\ x[2] = w)
  BY <1>1, NotInFlight DEF Inv
<1>4. job' = [job EXCEPT ![c][w] = Fanout(j)]
  BY DEF MultiFallsBack, Inv, JobsInv
<1>5. PICK f : f = Fanout(j) /\ Change(c, w, f)
  BY <1>4 DEF Change
<1>6. /\ Work(c, f, tries[c]) /\ f.mode = "direct" /\ Same(j, f)
  BY <1>1, <1>2, <1>5, OneWorks, OneJob, FanoutWorks
<1>7. f.base = j.base /\ End(f) = End(j)
  BY <1>2, <1>6, OneWorks, SameShape DEF Same
<1>8. UNCHANGED <<tries, running, waiters>> /\ Busy(f)
  BY <1>1, <1>6 DEF permits, Busy
<1>9. InFlight' = InFlight
  BY <1>8 DEF InFlight, Waiting
<1> HIDE DEF j
<1> QED BY <1>1, <1>2, <1>3, <1>5, <1>6, <1>7, <1>8, <1>9, StaysBusy DEF j

LEMMA MultiUnavailableWork ==
  ASSUME Inv, WorkInv, NEW c \in Callers, NEW w \in Workers,
         MultiUnavailable(c, w)
  PROVE  WorkInv'
<1> DEFINE j == job[c][w]
           thrown == [j EXCEPT !.mode = "threw"]
<1>1. j.mode = "multi" /\ Rejected(c) /\ UNCHANGED <<cut, out, permits>>
  BY DEF MultiUnavailable
<1>2. Busy(j)
  BY <1>1 DEF Busy
<1>3. \A x \in InFlight : ~(x[1] = c /\ x[2] = w)
  BY <1>1, NotInFlight DEF Inv
<1>4. job' = [job EXCEPT ![c][w] = thrown]
  BY DEF MultiUnavailable, Inv, JobsInv
<1>5. PICK f : f = thrown /\ Change(c, w, f)
  <2> HIDE DEF thrown
  <2> QED BY <1>4 DEF Change
<1>6. /\ Work(c, f, tries[c]) /\ f.mode = "threw" /\ Same(j, f)
  BY <1>2, <1>5, OneWorks, OneJob, ThrownWorks
<1>7. f.base = j.base /\ End(f) = End(j)
  BY <1>2, <1>6, OneWorks, SameShape DEF Same
<1>8. UNCHANGED <<tries, running, waiters>> /\ Busy(f)
  BY <1>1, <1>6 DEF permits, Busy
<1>9. InFlight' = InFlight
  BY <1>8 DEF InFlight, Waiting
<1>10. Rejected(c) /\ UNCHANGED <<cut, out, tries>> /\ Change(c, w, f)
  BY <1>1, <1>5, <1>8
<1>11. /\ Busy(job[c][w]) /\ Busy(f) /\ Work(c, f, tries[c])
       /\ f.base = job[c][w].base /\ End(f) = End(job[c][w])
  BY <1>2, <1>6, <1>7, <1>8
<1>12. /\ \A x \in InFlight' : x \in InFlight
       /\ \A x \in InFlight' : x[1] = c /\ x[2] = w => FitsWork(x, f, tries[c])
  BY <1>3, <1>9
<1> HIDE DEF j
<1> QED BY <1>10, <1>11, <1>12, StaysBusy

LEMMA AcquireAdds ==
  ASSUME PermitInv, NEW call, Acquire(call)
  PROVE  \A x \in InFlight' : x \in InFlight \/ x = call
<1>1. CASE active < DirectConcurrency
  BY <1>1 DEF Acquire, InFlight, Waiting
<1>2. CASE ~(active < DirectConcurrency)
  <2>1. running' = running /\ waiters' = Append(waiters, call)
    BY <1>2 DEF Acquire
  <2>2. waiters \in Seq(Waiting)
    BY DEF PermitInv
  <2>3. /\ DOMAIN waiters' = 1 .. Len(waiters) + 1 /\ Len(waiters) \in Nat
        /\ DOMAIN waiters = 1 .. Len(waiters)
        /\ \A k \in 1 .. Len(waiters) : waiters'[k] = waiters[k]
        /\ waiters'[Len(waiters) + 1] = call
    BY <2>1, <2>2
  <2>4. \A k \in DOMAIN waiters' : k \in DOMAIN waiters \/ k = Len(waiters) + 1
    BY <2>3
  <2>5. \A x \in Waiting' : x \in Waiting \/ x = call
    BY <2>3, <2>4 DEF Waiting
  <2> QED BY <2>1, <2>5 DEF InFlight
<1> QED BY <1>1, <1>2

(* One more direct call of c for i.                                        *)
LEMMA OneMoreTry ==
  ASSUME WorkInv, NEW c \in Callers, NEW i \in Calls(c),
         tries' = [tries EXCEPT ![c][i] = @ + 1],
         tries[c][i] \in {0, 1}
  PROVE  /\ tries' = [d \in Callers |-> [k \in Calls(d) |-> tries'[d][k]]]
         /\ tries'[c][i] = tries[c][i] + 1
         /\ \A k \in Calls(c) : k # i => tries'[c][k] = tries[c][k]
         /\ \A d \in Callers : d # c => tries'[d] = tries[d]
         /\ Grows(c, tries[c], tries'[c])
<1>1. tries = [d \in Callers |-> [k \in Calls(d) |-> tries[d][k]]]
  BY DEF WorkInv
<1>2. /\ tries' = [d \in Callers |-> [k \in Calls(d) |-> tries'[d][k]]]
      /\ tries'[c][i] = tries[c][i] + 1
      /\ \A k \in Calls(c) : k # i => tries'[c][k] = tries[c][k]
      /\ \A d \in Callers : d # c => tries'[d] = tries[d]
  BY <1>1
<1>3. \A k \in Calls(c) : tries[c][k] \in 0 .. 2
  BY DEF WorkInv, CallerOK, ChunksOK
<1>4. Grows(c, tries[c], tries'[c])
  BY <1>2, <1>3 DEF Grows
<1> QED BY <1>2, <1>4

(* A worker that makes one direct call.                                    *)
LEMMA TryKeeps ==
  ASSUME Inv, WorkInv, NEW c \in Callers, NEW w \in Workers,
         Busy(job[c][w]), NEW j, Change(c, w, j),
         NEW i \in Chunk(job[c][w]), tries[c][i] \in {0, 1},
         Acquire(<<c, w, i>>),
         tries'[c][i] = tries[c][i] + 1
           /\ (\A k \in Calls(c) : k # i => tries'[c][k] = tries[c][k])
           /\ Grows(c, tries[c], tries'[c])
           => Work(c, j, tries'[c]),
         Busy(j), j.base = job[c][w].base, End(j) = End(job[c][w]),
         j.mode = "threw" => job[c][w].mode = "threw",
         UNCHANGED <<phase, cut, out>>,
         \A x \in InFlight : x[1] = c /\ x[2] = w => FitsWork(x, j, tries[c]),
         j.mode = "retry" => /\ i \in First(j) .. Last(j) /\ i \notin j.redo
                             /\ tries[c][i] = 1,
         j.mode = "threw" => First(j) <= j.next
  PROVE  WorkInv'
<1>1. /\ Chunk(job[c][w]) \subseteq Calls(c)
      /\ CallerOK(c, phase[c], cut[c], job[c], out[c], tries[c])
  BY OneWorks
<1>2. /\ tries' = [d \in Callers |-> [k \in Calls(d) |-> tries'[d][k]]]
      /\ tries'[c][i] = tries[c][i] + 1
      /\ \A k \in Calls(c) : k # i => tries'[c][k] = tries[c][k]
      /\ \A d \in Callers : d # c => tries'[d] = tries[d]
      /\ Grows(c, tries[c], tries'[c])
  <2>1. tries' = [tries EXCEPT ![c][i] = @ + 1]
    BY DEF Acquire
  <2>2. i \in Calls(c)
    BY <1>1
  <2> QED BY <2>1, <2>2, OneMoreTry
<1>3. Work(c, j, tries'[c])
  BY <1>2
<1>4. Put(job[c], w, j, job'[c])
  BY JobPut
<1>5. \A k \in Calls(c) \ Chunk(job[c][w]) : tries'[c][k] = tries[c][k]
  BY <1>2
<1>6. CallerOK(c, phase[c], cut[c], job'[c], out[c], tries'[c])
  BY <1>1, <1>2, <1>3, <1>4, <1>5, KeepsChunk
<1>7. \A x \in InFlight' : x \in InFlight \/ x = <<c, w, i>>
  BY AcquireAdds DEF Inv
<1>8. ASSUME NEW x \in InFlight', x[1] = c, x[2] = w
      PROVE  FitsWork(x, j, tries'[c])
  <2>1. CASE x \in InFlight
    <3>1. FitsWork(x, j, tries[c])
      BY <1>8, <2>1
    <3> QED BY <1>2, <1>8, <3>1 DEF FitsWork, Grows
  <2>2. CASE x = <<c, w, i>>
    <3>1. x[1] = c /\ x[3] = i /\ i \in Calls(c)
      BY <1>1, <2>2
    <3>2. j.mode = "retry" => tries'[c][i] = 2
      BY <1>2
    <3> QED BY <3>1, <3>2 DEF FitsWork
  <2> QED BY <1>7, <1>8, <2>1, <2>2
<1>9. \A x \in InFlight' : x \in InFlight \/ (x[1] = c /\ x[2] = w)
  BY <1>7
<1>10. \A d \in Callers : d # c =>
         /\ phase'[d] = phase[d] /\ cut'[d] = cut[d]
         /\ out'[d] = out[d] /\ tries'[d] = tries[d]
  BY <1>2
<1>11. /\ out' = [d \in Callers |-> [k \in Calls(d) |-> out'[d][k]]]
       /\ phase'[c] = phase[c] /\ cut'[c] = cut[c] /\ out'[c] = out[c]
  BY DEF WorkInv
<1> QED BY <1>2, <1>6, <1>8, <1>9, <1>10, <1>11, StepKeeps

LEMMA LaneTakesWork ==
  ASSUME Inv, WorkInv, NEW c \in Callers, NEW w \in Workers, LaneTakes(c, w)
  PROVE  WorkInv'
<1> DEFINE j == job[c][w]
<1>1. /\ LaneFree(j) /\ j.mode \in {"direct", "threw"} /\ j.next <= Last(j)
      /\ j.lanes > 0
      /\ Acquire(<<c, w, j.next>>) /\ UNCHANGED <<phase, cut, out>>
  BY DEF LaneTakes, LaneFree
<1>2. Busy(j)
  BY <1>1 DEF Busy
<1>3. /\ JobOK(j) /\ Work(c, j, tries[c]) /\ ShapeOK(j)
      /\ Chunk(j) \subseteq Calls(c)
  BY <1>2, OneJob, OneWorks
<1>4. job' = [job EXCEPT ![c][w] = Taken(j)]
  BY DEF LaneTakes, Inv, JobsInv, Taken
<1>5. PICK f : f = Taken(j) /\ Change(c, w, f)
  BY <1>4 DEF Change
<1>6. /\ f.mode = j.mode /\ f.base = j.base /\ f.todo = j.todo
      /\ f.got = j.got /\ f.next = j.next + 1
  BY <1>3, <1>5 DEF JobOK, Taken
<1>7. Same(j, f) /\ First(f) = First(j) /\ End(f) = End(j)
  <2>1. Same(j, f)
    BY <1>6 DEF Same
  <2> QED BY <1>3, <2>1, SameShape
<1>8. First(j) <= j.next /\ j.next \in First(j) .. End(j)
      /\ j.next \in Chunk(j) /\ tries[c][j.next] = 0
  <2>1. First(j) <= j.next
    BY <1>1, <1>3 DEF Work, TriesOK, JobOK
  <2>2. j.next \in First(j) .. End(j)
    BY <1>1, <1>3, <2>1, ShapeFacts DEF JobOK
  <2>3. j.next \in Chunk(j)
    BY <1>3, <2>2, ShapeFacts
  <2>4. tries[c][j.next] = 0
    BY <1>3, <2>2 DEF Work, TriesOK
  <2> QED BY <2>1, <2>2, <2>3, <2>4
<1>9. PICK i : i = j.next /\ i \in Chunk(j) /\ tries[c][i] = 0
  BY <1>8
<1>10. tries'[c][i] = tries[c][i] + 1
         /\ (\A k \in Calls(c) : k # i => tries'[c][k] = tries[c][k])
         /\ Grows(c, tries[c], tries'[c])
         => Work(c, f, tries'[c])
  BY <1>1, <1>3, <1>5, <1>9, TakenWorks
<1>11. \A x \in InFlight : x[1] = c /\ x[2] = w => FitsWork(x, f, tries[c])
  <2>1. TAKE x \in InFlight
  <2>2. HAVE x[1] = c /\ x[2] = w
  <2>3. FitsWork(x, j, tries[c])
    BY <2>2 DEF WorkInv
  <2>4. First(j) <= j.next + 1
    BY <1>3, <1>8, ShapeFacts DEF JobOK
  <2> QED BY <1>1, <1>6, <1>7, <2>3, <2>4 DEF FitsWork
<1>12. /\ f.mode # "retry" /\ Busy(f) /\ Acquire(<<c, w, i>>)
       /\ First(f) <= f.next
  <2>1. First(j) <= j.next + 1
    BY <1>3, <1>8, ShapeFacts DEF JobOK
  <2> QED BY <1>1, <1>6, <1>7, <1>9, <2>1 DEF Busy
<1> HIDE DEF j
<1> QED BY <1>1, <1>2, <1>5, <1>6, <1>7, <1>9, <1>10, <1>11, <1>12, TryKeeps
       DEF j

(* A non-empty set of natural numbers has a least element, and Min is it.  *)
LEMMA MinInside ==
  ASSUME NEW S \in SUBSET Nat, S # {}
  PROVE  Min(S) \in S
<1>1. PICK x \in S : \A y \in S : ~(<<y, x>> \in OpToRel(<, Nat))
  BY WFMin, NatLessThanWellFounded
<1>2. \A y \in S : x <= y
  <2>1. TAKE y \in S
  <2>2. ~(y < x)
    BY <1>1 DEF OpToRel
  <2> QED BY <2>2
<1> QED BY <1>2 DEF Min

LEMMA RetryTakesWork ==
  ASSUME Inv, WorkInv, NEW c \in Callers, NEW w \in Workers, RetryTakes(c, w)
  PROVE  WorkInv'
<1> DEFINE j == job[c][w]
<1>1. /\ j.mode = "retry" /\ j.lanes = 1 /\ j.redo # {}
      /\ Acquire(<<c, w, Min(j.redo)>>) /\ UNCHANGED <<phase, cut, out>>
  BY DEF RetryTakes
<1>2. Busy(j)
  BY <1>1 DEF Busy
<1>3. /\ JobOK(j) /\ Work(c, j, tries[c]) /\ ShapeOK(j)
      /\ Chunk(j) \subseteq Calls(c)
  BY <1>2, OneJob, OneWorks
<1>4. /\ j.redo \subseteq First(j) .. Last(j) /\ j.redo \subseteq Chunk(j)
      /\ \A i \in j.redo : tries[c][i] = 1
  <2>1. j.redo \subseteq First(j) .. Last(j)
    BY <1>1, <1>3 DEF Work, ResOK
  <2> QED BY <1>1, <1>3, <2>1, ShapeFacts DEF Work, ResOK
<1>5. Min(j.redo) \in j.redo
  <2>1. j.redo \in SUBSET Nat
    BY <1>3, <1>4, ShapeFacts
  <2> QED BY <1>1, <2>1, MinInside
<1>6. job' = [job EXCEPT ![c][w] = Redone(j, Min(j.redo))]
  BY DEF RetryTakes, Inv, JobsInv, Redone
<1>7. PICK i : i = Min(j.redo)
  OBVIOUS
<1>8. PICK f : f = Redone(j, i) /\ Change(c, w, f)
  BY <1>6, <1>7 DEF Change
<1>9. /\ i \in j.redo /\ i \in Chunk(j) /\ tries[c][i] = 1
      /\ i \in First(j) .. Last(j) /\ Acquire(<<c, w, i>>)
  BY <1>1, <1>4, <1>5, <1>7
<1>10. /\ f.mode = "retry" /\ f.base = j.base /\ f.todo = j.todo
       /\ f.got = j.got /\ f.redo = j.redo \ {i}
  BY <1>1, <1>3, <1>8 DEF JobOK, Redone
<1>11. Same(j, f) /\ First(f) = First(j) /\ Last(f) = Last(j)
       /\ End(f) = End(j)
  <2>1. Same(j, f)
    BY <1>10 DEF Same
  <2> QED BY <1>3, <2>1, SameShape
<1>12. tries'[c][i] = tries[c][i] + 1
         /\ (\A k \in Calls(c) : k # i => tries'[c][k] = tries[c][k])
         /\ Grows(c, tries[c], tries'[c])
         => Work(c, f, tries'[c])
  BY <1>1, <1>3, <1>8, <1>9, RedoneWorks
<1>13. \A x \in InFlight : ~(x[1] = c /\ x[2] = w)
  BY <1>1 DEF Inv, FlightsInv, Fits
<1>14. /\ Busy(f) /\ f.mode # "threw"
       /\ i \in First(f) .. Last(f) /\ i \notin f.redo
  BY <1>9, <1>10, <1>11 DEF Busy
<1> HIDE DEF j
<1> QED BY <1>1, <1>2, <1>8, <1>9, <1>10, <1>11, <1>12, <1>13, <1>14, TryKeeps
       DEF j

LEMMA CallSettlesWork ==
  ASSUME Inv, WorkInv, NEW call, NEW how \in {"ok", "empty", "error"},
         CallSettles(call, how)
  PROVE  WorkInv'
<1> DEFINE c == call[1]
           w == call[2]
           i == call[3]
           j == job[c][w]
<1>1. /\ call \in running /\ Release(call)
      /\ how = "ok" => Kind[c][i] = "ok"
      /\ how = "empty" => Kind[c][i] = "empty"
      /\ UNCHANGED <<phase, cut, out>>
  BY DEF CallSettles
<1>2. call \in InFlight
  BY <1>1 DEF InFlight
<1>3. c \in Callers /\ w \in Workers /\ Fits(call, j)
  BY <1>2 DEF Inv, FlightsInv
<1>4. Busy(j) /\ FitsWork(call, j, tries[c])
  BY <1>2, <1>3 DEF Fits, Busy, WorkInv
<1>5. /\ JobOK(j) /\ Work(c, j, tries[c]) /\ ShapeOK(j)
  BY <1>3, <1>4, OneJob, OneWorks
<1>6. InFlight' = InFlight \ {call} /\ tries' = tries
  BY <1>1, ReleaseKeeps DEF Inv, Release
<1>7. job' = [job EXCEPT ![c][w] = Settled(j, i, Result(i, how))]
  BY <1>3 DEF CallSettles, Inv, JobsInv, JobOK, Settled
<1>8. PICK f : f = Settled(j, i, Result(i, how)) /\ Change(c, w, f)
  BY <1>7 DEF Change
<1>9. Kind[c][i] = "ok" /\ how # "ok" => how = "error"
  BY <1>1
<1>10. Work(c, f, tries[c]) /\ Same(j, f) /\ f.mode = j.mode
  BY <1>3, <1>4, <1>5, <1>8, <1>9, SettledWorks
<1>11. /\ f.base = j.base /\ End(f) = End(j) /\ First(f) = First(j)
       /\ Busy(f)
  BY <1>4, <1>5, <1>10, SameShape DEF Same, Busy
<1>12. f.next = j.next
  BY <1>5, <1>8 DEF Settled, JobOK
<1>13. \A x \in InFlight' : x[1] = c /\ x[2] = w => FitsWork(x, f, tries[c])
  <2>1. TAKE x \in InFlight'
  <2>2. HAVE x[1] = c /\ x[2] = w
  <2>3. x \in InFlight /\ x # call
    BY <1>6
  <2>4. j.mode # "retry"
    BY <1>2, <2>2, <2>3 DEF Inv, FlightsInv
  <2>5. FitsWork(x, j, tries[c])
    BY <2>2, <2>3 DEF WorkInv
  <2> QED BY <1>10, <1>11, <1>12, <2>4, <2>5 DEF FitsWork
<1>14. \A x \in InFlight' : x \in InFlight
  BY <1>6
<1> HIDE DEF c, w, j
<1> QED BY <1>1, <1>3, <1>4, <1>6, <1>8, <1>10, <1>11, <1>13, <1>14, StaysBusy
       DEF j

LEMMA CallUnavailableWork ==
  ASSUME Inv, WorkInv, NEW call, CallUnavailable(call)
  PROVE  WorkInv'
<1> DEFINE c == call[1]
           w == call[2]
           j == job[c][w]
           thrown == [j EXCEPT !.mode = "threw"]
<1>1. /\ call \in running /\ Release(call) /\ Rejected(c)
      /\ UNCHANGED <<cut, out>>
  BY DEF CallUnavailable
<1>2. call \in InFlight
  BY <1>1 DEF InFlight
<1>3. c \in Callers /\ w \in Workers /\ Fits(call, j)
  BY <1>2 DEF Inv, FlightsInv
<1>4. Busy(j)
  BY <1>3 DEF Fits, Busy
<1>5. /\ JobOK(j) /\ Work(c, j, tries[c]) /\ ShapeOK(j)
  BY <1>3, <1>4, OneJob, OneWorks
<1>6. InFlight' = InFlight \ {call} /\ tries' = tries
  BY <1>1, ReleaseKeeps DEF Inv, Release
<1>7. job' = [job EXCEPT ![c][w] = thrown]
  BY <1>3 DEF CallUnavailable, Inv, JobsInv
<1>8. PICK f : f = thrown /\ Change(c, w, f)
  <2> HIDE DEF thrown
  <2> QED BY <1>7 DEF Change
<1>9. Work(c, f, tries[c]) /\ Same(j, f) /\ f.mode = "threw"
  BY <1>4, <1>5, <1>8, ThrownWorks
<1>10. /\ f.base = j.base /\ End(f) = End(j) /\ First(f) = First(j)
       /\ Busy(f)
  BY <1>5, <1>9, SameShape DEF Same, Busy
<1>11. f.next = j.next
  BY <1>5, <1>8 DEF JobOK
<1>12. \A x \in InFlight' : x[1] = c /\ x[2] = w => FitsWork(x, f, tries[c])
  <2>1. TAKE x \in InFlight'
  <2>2. HAVE x[1] = c /\ x[2] = w
  <2>3. x \in InFlight /\ FitsWork(x, j, tries[c]) /\ Fits(x, j)
    BY <1>6, <2>2 DEF WorkInv, Inv, FlightsInv
  <2>4. First(j) <= j.next
    <3>1. CASE j.mode = "threw"
      BY <2>3, <3>1 DEF FitsWork
    <3>2. CASE j.mode = "direct"
      BY <1>5, <3>2 DEF JobOK
    <3>3. CASE j.mode = "retry"
      <4>1. j.next > Last(j) /\ j.next \in Int
        BY <1>5, <3>3 DEF JobOK
      <4> QED BY <1>5, <4>1, ShapeFacts
    <3> QED BY <2>3, <3>1, <3>2, <3>3 DEF Fits
  <2> QED BY <1>9, <1>10, <1>11, <2>3, <2>4 DEF FitsWork
<1>13. /\ \A x \in InFlight' : x \in InFlight
       /\ UNCHANGED <<cut, out, tries>>
  BY <1>1, <1>6
<1>14. /\ Rejected(c) /\ Change(c, w, f) /\ Work(c, f, tries[c]) /\ Busy(f)
       /\ f.base = job[c][w].base /\ End(f) = End(job[c][w])
       /\ Busy(job[c][w]) /\ c \in Callers /\ w \in Workers
  BY <1>1, <1>3, <1>4, <1>8, <1>9, <1>10
<1> HIDE DEF c, w, j
<1> QED BY <1>12, <1>13, <1>14, StaysBusy

LEMMA ChunkSizeBounds ==
  ASSUME Inv, NEW c \in Callers
  PROVE  ChunkSizeNow(c) \in Nat \ {0}
<1>1. ChunkSize[c] \in Nat \ {0}
  BY HistoricalAssumption
<1>2. limit # None => limit \in Nat \ {0}
  BY HistoricalAssumption DEF Inv, LimitInv
<1>3. limit # None => Min({ChunkSize[c], limit}) \in {ChunkSize[c], limit}
  BY <1>1, <1>2, MinOfTwo
<1> QED BY <1>1, <1>2, <1>3 DEF ChunkSizeNow

LEMMA PickWork ==
  ASSUME Inv, WorkInv, NEW c \in Callers, NEW w \in Workers, Pick(c, w)
  PROVE  WorkInv'
<1>1. /\ job[c][w].mode = "pick" /\ UNCHANGED <<phase, out, permits>>
      /\ phase[c] \notin {"idle", "probing"}
  BY DEF Pick, Inv, PhaseInv
<1>2. CallerOK(c, phase[c], cut[c], job[c], out[c], tries[c])
  BY DEF WorkInv
<1>3. /\ UNCHANGED <<tries, running, waiters>>
      /\ Len(Kind[c]) \in Nat /\ cut[c] \in Nat
      /\ \A i \in Calls(c) : i > cut[c] => tries[c][i] = 0
  BY <1>1, <1>2, CallsOf DEF permits, CallerOK, ChunksOK
<1>4. InFlight' = InFlight
  BY <1>3 DEF InFlight, Waiting
<1>5. \A x \in InFlight' : ~(x[1] = c /\ x[2] = w)
  BY <1>1, <1>4, NotInFlight DEF Inv
<1>6. /\ tries' = [d \in Callers |-> [i \in Calls(d) |-> tries'[d][i]]]
      /\ out' = [d \in Callers |-> [i \in Calls(d) |-> out'[d][i]]]
  BY <1>1, <1>3 DEF WorkInv
<1>7. CASE cut[c] >= Len(Kind[c])
  <2>1. PICK f : f.mode = "ended" /\ Change(c, w, f)
    <3>1. Change(c, w, NewJob("ended"))
      BY <1>7 DEF Pick, Change
    <3> QED BY <3>1, NewJobOK
  <2>2. cut' = cut
    BY <1>7 DEF Pick
  <2>3. CallerOK(c, phase[c], cut[c], job'[c], out[c], tries[c])
    BY <1>1, <1>2, <1>7, <2>1, JobPut, EndsIdle
  <2> QED BY <1>1, <1>3, <1>4, <1>5, <1>6, <2>1, <2>2, <2>3, SameTries,
             StepKeeps
<1>8. CASE ~(cut[c] >= Len(Kind[c]))
  <2> DEFINE least == Min({cut[c] + ChunkSizeNow(c), Len(Kind[c])})
  <2>1. PICK end : end = least
    OBVIOUS
  <2>2. end \in Nat /\ cut[c] < end /\ end <= Len(Kind[c])
    <3>1. cut[c] + ChunkSizeNow(c) \in Nat /\ cut[c] < cut[c] + ChunkSizeNow(c)
      BY <1>3, ChunkSizeBounds
    <3> DEFINE s == cut[c] + ChunkSizeNow(c)
               l == Len(Kind[c])
    <3>2. /\ s \in Nat /\ cut[c] < s /\ l \in Nat /\ cut[c] < l
          /\ cut[c] \in Nat /\ end = Min({s, l})
      BY <1>3, <1>8, <2>1, <3>1
    <3> HIDE DEF s, l
    <3>3. \E x \in {s, l} : \A y \in {s, l} : x <= y
      BY <3>2
    <3>4. end \in {s, l} /\ end <= l
      BY <3>2, <3>3 DEF Min
    <3> QED BY <3>2, <3>4 DEF l
  <2>3. PICK j : j = NewChunk(cut[c], end)
    OBVIOUS
  <2>4. NotCalled(tries[c], cut[c], end)
    BY <1>3, <2>2, CallsOf DEF NotCalled
  <2>5. /\ Work(c, j, tries[c]) /\ j.base = cut[c] /\ End(j) = end
        /\ j.mode = "multi" /\ JobOK(j)
    BY <1>3, <2>2, <2>3, <2>4, NewChunkWorks
  <2>6. PICK k : k = IF version = "none" THEN Fanout(j) ELSE j
    OBVIOUS
  <2>7. /\ Work(c, k, tries[c]) /\ k.base = cut[c] /\ End(k) = end
        /\ k.mode \in {"multi", "direct"}
    <3>1. CASE version = "none"
      <4>1. k = Fanout(j)
        BY <2>6, <3>1
      <4>2. Work(c, k, tries[c]) /\ Same(j, k) /\ k.mode = "direct"
        BY <2>5, <4>1, FanoutWorks
      <4>3. End(k) = End(j)
        BY <2>5, <4>2, SameShape DEF Work
      <4> QED BY <2>5, <4>2, <4>3 DEF Same
    <3>2. CASE version # "none"
      BY <2>5, <2>6, <3>2
    <3> QED BY <3>1, <3>2
  <2>8. Change(c, w, k) /\ cut' = [cut EXCEPT ![c] = end]
    BY <1>8, <2>1, <2>3, <2>6 DEF Pick, Change, NewChunk
  <2>9. cut'[c] = end /\ \A d \in Callers : d # c => cut'[d] = cut[d]
    BY <2>8 DEF Inv, PhaseInv
  <2>10. Busy(k) /\ k.mode # "threw"
    BY <2>7 DEF Busy
  <2>11. CallerOK(c, phase[c], end, job'[c], out[c], tries[c])
    BY <1>1, <1>2, <2>2, <2>7, <2>8, <2>10, JobPut, TakesChunk
  <2> QED BY <1>1, <1>3, <1>4, <1>5, <1>6, <2>8, <2>9, <2>11, SameTries,
             StepKeeps
<1> QED BY <1>7, <1>8

LEMMA CeilPositive ==
  ASSUME NEW a \in Nat \ {0}, NEW b \in Nat \ {0}
  PROVE  Ceil(a, b) \in Nat \ {0}
<1>1. a + b - 1 \in Nat /\ a + b - 1 >= b
  OBVIOUS
<1>2. ASSUME NEW x \in Nat, x >= b PROVE x \div b \in Nat \ {0}
  BY <1>2
<1> QED BY <1>1, <1>2 DEF Ceil

(* Somebody works for every caller.                                        *)
LEMMA FirstWorkerStarts ==
  ASSUME Inv, NEW c \in Callers, NEW v
  PROVE  Started(c, v)[1].mode = "pick"
<1>1. Len(Kind[c]) \in Nat \ {0} /\ 1 \in Workers
      /\ MulticallConcurrency \in Nat \ {0}
  BY CallsOf
<1> DEFINE size == IF limit = None THEN ChunkSize[c]
                   ELSE Min({ChunkSize[c], limit})
<1>2. size \in Nat \ {0}
  <2>1. ChunkSize[c] \in Nat \ {0}
    BY HistoricalAssumption
  <2>2. limit # None => limit \in Nat \ {0}
    BY HistoricalAssumption DEF Inv, LimitInv
  <2>3. limit # None => Min({ChunkSize[c], limit}) \in {ChunkSize[c], limit}
    BY <2>1, <2>2, MinOfTwo
  <2> QED BY <2>1, <2>2, <2>3
<1> HIDE DEF size
<1>3. Ceil(Len(Kind[c]), size) \in Nat \ {0}
  BY <1>1, <1>2, CeilPositive
<1>4. Min({MulticallConcurrency, Ceil(Len(Kind[c]), size)}) \in Nat \ {0}
  <2>1. Min({MulticallConcurrency, Ceil(Len(Kind[c]), size)})
          \in {MulticallConcurrency, Ceil(Len(Kind[c]), size)}
    BY <1>1, <1>3, MinOfTwo
  <2> QED BY <1>1, <1>3, <2>1
<1>5. WorkerCount(c, v) \in Nat \ {0}
  BY <1>4 DEF WorkerCount, size
<1>6. 1 <= WorkerCount(c, v)
  BY <1>5
<1>7. Started(c, v)[1] = NewJob("pick")
  BY <1>1, <1>6 DEF Started
<1> QED BY <1>7, NewJobOK

LEMMA PhasesKeep ==
  ASSUME Inv, WorkInv, UNCHANGED <<cut, out, permits>>,
         \A c \in Callers :
           CallerOK(c, phase'[c], cut[c], job'[c], out[c], tries[c]),
         \A c \in Callers :
           job'[c] = job[c] \/ phase[c] \in {"idle", "probing"}
  PROVE  WorkInv'
<1>1. InFlight' = InFlight /\ tries' = tries
  BY DEF permits, InFlight, Waiting
<1>2. ASSUME NEW x \in InFlight'
      PROVE  FitsWork(x, job'[x[1]][x[2]], tries[x[1]])
  <2>1. /\ x[1] \in Callers /\ x[2] \in Workers
        /\ job[x[1]][x[2]].mode # "ended"
        /\ FitsWork(x, job[x[1]][x[2]], tries[x[1]])
    BY <1>1, <1>2 DEF Inv, FlightsInv, Fits, WorkInv
  <2>2. phase[x[1]] \notin {"idle", "probing"}
    BY <2>1 DEF Inv, PhaseInv
  <2> QED BY <2>1, <2>2
<1> QED BY <1>1, <1>2 DEF WorkInv

LEMMA OneCaller ==
  ASSUME WorkInv, NEW c \in Callers
  PROVE  CallerOK(c, phase[c], cut[c], job[c], out[c], tries[c])
  BY DEF WorkInv

(* A caller that waits gets its workers, or waits on, or fails.            *)
LEMMA WaitingCaller ==
  ASSUME Inv, WorkInv, NEW c \in Callers, phase[c] \in {"idle", "probing"},
         NEW K, NEW q,
         \/ q = "running" /\ \E v : K = Started(c, v)
         \/ q \in {"probing", "failed"} /\ K = job[c]
  PROVE  CallerOK(c, q, cut[c], K, out[c], tries[c])
<1>1. \A w \in Workers : job[c][w].mode = "ended"
  BY DEF Inv, PhaseInv
<1>2. \A w \in Workers : K[w].mode \in {"pick", "ended"}
  BY <1>1, StartedOK
<1>3. q = "running" => K[1].mode = "pick"
  BY FirstWorkerStarts
<1>4. q \in {"running", "probing", "failed"}
  OBVIOUS
<1> QED BY <1>2, <1>3, <1>4, OneCaller, StartsOK

LEMMA CallWork ==
  ASSUME Inv, WorkInv, NEW c \in Callers, Call(c)
  PROVE  WorkInv'
<1>1. phase[c] = "idle" /\ UNCHANGED <<cut, out, permits>>
  BY DEF Call
<1>2. \/ phase'[c] = "running" /\ \E v : job'[c] = Started(c, v)
      \/ phase'[c] \in {"probing", "failed"} /\ job'[c] = job[c]
  BY DEF Call, Inv, PhaseInv, JobsInv
<1>3. \A d \in Callers : d # c => phase'[d] = phase[d] /\ job'[d] = job[d]
  BY DEF Call, Inv, PhaseInv, JobsInv
<1>4. CallerOK(c, phase'[c], cut[c], job'[c], out[c], tries[c])
  BY <1>1, <1>2, WaitingCaller
<1>5. \A d \in Callers :
        /\ CallerOK(d, phase'[d], cut[d], job'[d], out[d], tries[d])
        /\ job'[d] = job[d] \/ phase[d] \in {"idle", "probing"}
  BY <1>1, <1>3, <1>4, OneCaller
<1> QED BY <1>1, <1>5, PhasesKeep

LEMMA ProbeAnswersWork ==
  ASSUME Inv, WorkInv, NEW v \in Versions, ProbeAnswers(v)
  PROVE  WorkInv'
<1>1. UNCHANGED <<cut, out, permits>>
  BY DEF ProbeAnswers
<1>2. ASSUME NEW d \in Callers
      PROVE  /\ CallerOK(d, phase'[d], cut[d], job'[d], out[d], tries[d])
             /\ job'[d] = job[d] \/ phase[d] \in {"idle", "probing"}
  <2>1. CASE phase[d] = "probing"
    <3>1. phase'[d] = "running" /\ job'[d] = Started(d, v)
      BY <2>1 DEF ProbeAnswers, Probing
    <3>2. PICK K, q : K = job'[d] /\ q = phase'[d]
      OBVIOUS
    <3>3. CallerOK(d, q, cut[d], K, out[d], tries[d])
      BY <2>1, <3>1, <3>2, WaitingCaller
    <3> QED BY <2>1, <3>2, <3>3
  <2>2. CASE phase[d] # "probing"
    <3>1. phase'[d] = phase[d] /\ job'[d] = job[d]
      BY <2>2 DEF ProbeAnswers, Probing
    <3> QED BY <3>1, OneCaller
  <2> QED BY <2>1, <2>2
<1> QED BY <1>1, <1>2, PhasesKeep

LEMMA ProbeFailsWork ==
  ASSUME Inv, WorkInv, ProbeFails
  PROVE  WorkInv'
<1>1. UNCHANGED <<cut, out, job, permits>>
  BY DEF ProbeFails
<1>2. ASSUME NEW d \in Callers
      PROVE  CallerOK(d, phase'[d], cut[d], job[d], out[d], tries[d])
  <2>1. CASE phase[d] = "probing"
    <3>1. phase'[d] = "failed"
      BY <2>1 DEF ProbeFails, Probing
    <3>2. PICK K, q : K = job[d] /\ q = phase'[d]
      OBVIOUS
    <3>3. CallerOK(d, q, cut[d], K, out[d], tries[d])
      BY <2>1, <3>1, <3>2, WaitingCaller
    <3> QED BY <3>2, <3>3
  <2>2. CASE phase[d] # "probing"
    <3>1. phase'[d] = phase[d]
      BY <2>2 DEF ProbeFails, Probing
    <3> QED BY <3>1, OneCaller
  <2> QED BY <2>1, <2>2
<1> QED BY <1>1, <1>2, PhasesKeep

LEMMA ReturnWork ==
  ASSUME Inv, WorkInv, NEW c \in Callers, Return(c)
  PROVE  WorkInv'
<1>1. /\ phase[c] = "running" /\ UNCHANGED <<cut, out, job, permits>>
      /\ \A w \in Workers : job[c][w].mode = "ended"
      /\ phase'[c] = "done" /\ \A d \in Callers : d # c => phase'[d] = phase[d]
  BY DEF Return, Inv, PhaseInv
<1>2. CallerOK(c, "done", cut[c], job[c], out[c], tries[c])
  BY <1>1, OneCaller, ReturnsOK
<1>3. \A d \in Callers :
        CallerOK(d, phase'[d], cut[d], job[d], out[d], tries[d])
  BY <1>1, <1>2, OneCaller
<1> QED BY <1>1, <1>3, PhasesKeep

LEMMA WorkInvStep ==
  ASSUME Inv, WorkInv, [Next]_vars
  PROVE  WorkInv'
<1>1. ASSUME NEW v \in Versions, ProbeAnswers(v) PROVE WorkInv'
  BY <1>1, ProbeAnswersWork
<1>2. CASE ProbeFails
  BY <1>2, ProbeFailsWork
<1>3. ASSUME NEW c \in Callers, Return(c) PROVE WorkInv'
  BY <1>3, ReturnWork
<1>4. ASSUME NEW c \in Callers, NEW w \in Workers, WorkerStep(c, w)
      PROVE  WorkInv'
  BY <1>4, PickWork, MultiAnswersWork, MultiSplitsWork, MultiFallsBackWork,
     MultiUnavailableWork, LaneTakesWork, FanoutEndsWork, RetryTakesWork,
     RetryEndsWork DEF WorkerStep
<1>5. ASSUME NEW call \in running, CallEnds(call) PROVE WorkInv'
  BY <1>5, CallSettlesWork, CallUnavailableWork DEF CallEnds
<1>6. ASSUME NEW c \in Callers, Call(c) PROVE WorkInv'
  BY <1>6, CallWork
<1>7. CASE UNCHANGED vars
  <2>1. UNCHANGED <<cut, out, job, phase, permits>>
    BY <1>7 DEF vars
  <2> QED BY <2>1, OneCaller, PhasesKeep
<1> QED BY <1>1, <1>2, <1>3, <1>4, <1>5, <1>6, <1>7 DEF Next, Progress

LEMMA WorkInvInit == Init => WorkInv
<1> SUFFICES ASSUME Init PROVE WorkInv
  OBVIOUS
<1>1. InFlight = {}
  BY DEF Init, InFlight, Waiting
<1>2. ASSUME NEW c \in Callers
      PROVE  CallerOK(c, phase[c], cut[c], job[c], out[c], tries[c])
  <2>1. /\ phase[c] = "idle" /\ cut[c] = 0
        /\ \A w \in Workers : job[c][w].mode = "ended"
        /\ \A i \in Calls(c) : tries[c][i] = 0
    BY DEF Init, NewJob
  <2>2. \A w \in Workers : ~Busy(job[c][w])
    BY <2>1 DEF Busy
  <2>3. ChunksOK(c, cut[c], job[c], tries[c])
    BY <2>1, <2>2, CallsOf DEF ChunksOK
  <2> QED BY <2>1, <2>3 DEF CallerOK
<1>3. /\ tries = [c \in Callers |-> [i \in Calls(c) |-> tries[c][i]]]
      /\ out = [c \in Callers |-> [i \in Calls(c) |-> out[c][i]]]
  BY DEF Init
<1> QED BY <1>1, <1>2, <1>3 DEF WorkInv

LEMMA WorkInvAlways == Spec => [](Inv /\ WorkInv)
<1>1. Init => Inv /\ WorkInv
  BY InvInit, WorkInvInit
<1>2. Inv /\ WorkInv /\ [Next]_vars => Inv' /\ WorkInv'
  BY InvStep, WorkInvStep
<1> QED BY <1>1, <1>2, PTL DEF Spec

(* Whoever gets an answer gets one result per call, each in its place: the *)
(* chunks of the workers do not overlap, what is missing belongs to a      *)
(* worker, and the first worker ends only after the last chunk is taken.   *)
THEOREM ResultsAlwaysInPlace == Spec => []ResultsInPlace
<1>1. WorkInv => ResultsInPlace
  BY DEF WorkInv, CallerOK, DoneOK, Good, ResultsInPlace
<1> QED BY <1>1, WorkInvAlways, PTL

(* A good call is reported as failed only after it was made directly       *)
(* twice.                                                                  *)
THEOREM FailureAlwaysConfirmed == Spec => []FailureConfirmed
<1>1. WorkInv => FailureConfirmed
  BY DEF WorkInv, CallerOK, DoneOK, Good, FailureConfirmed
<1> QED BY <1>1, WorkInvAlways, PTL

(* Phases and the answer of the probe.                                     *)
PhaseTypes ==
  /\ version \in Versions \cup {None, "probing"}
  /\ phase \in [Callers -> {"idle", "probing", "running", "done", "failed"}]

LEMMA PhaseTypesStep ==
  ASSUME PhaseTypes, [Next]_vars
  PROVE  PhaseTypes'
<1>1. ASSUME NEW v \in Versions, ProbeAnswers(v) PROVE PhaseTypes'
  BY <1>1 DEF PhaseTypes, ProbeAnswers
<1>2. CASE ProbeFails
  BY <1>2 DEF PhaseTypes, ProbeFails
<1>3. ASSUME NEW c \in Callers, Return(c) PROVE PhaseTypes'
  BY <1>3 DEF PhaseTypes, Return
<1>4. ASSUME NEW c \in Callers, UNCHANGED phase \/ Rejected(c),
             UNCHANGED version
      PROVE  PhaseTypes'
  BY <1>4 DEF PhaseTypes, Rejected
<1>5. ASSUME NEW c \in Callers, NEW w \in Workers, WorkerStep(c, w)
      PROVE  PhaseTypes'
  <2>1. UNCHANGED version /\ (UNCHANGED phase \/ Rejected(c))
    BY <1>5 DEF WorkerStep, Pick, MultiAnswers, MultiSplits, MultiFallsBack,
       MultiUnavailable, LaneTakes, FanoutEnds, RetryTakes, RetryEnds
  <2> QED BY <1>4, <2>1
<1>6. ASSUME NEW call \in running, CallEnds(call) PROVE PhaseTypes'
  <2>1. UNCHANGED version /\ (UNCHANGED phase \/ Rejected(call[1]))
    BY <1>6 DEF CallEnds, CallSettles, CallUnavailable
  <2> QED BY <2>1 DEF PhaseTypes, Rejected
<1>7. ASSUME NEW c \in Callers, Call(c) PROVE PhaseTypes'
  BY <1>7 DEF PhaseTypes, Call
<1>8. CASE UNCHANGED vars
  BY <1>8 DEF PhaseTypes, vars
<1> QED BY <1>1, <1>2, <1>3, <1>5, <1>6, <1>7, <1>8 DEF Next, Progress

(* The variables keep their types; in particular no call is ever made      *)
(* directly more than twice, whichever workers throw and go on.            *)
THEOREM TypeCorrect == Spec => []TypeOK
<1>1. Init => PhaseTypes
  BY DEF Init, PhaseTypes
<1>2. PhaseTypes /\ [Next]_vars => PhaseTypes'
  BY PhaseTypesStep
<1>3. Inv /\ WorkInv /\ PhaseTypes => TypeOK
  <2> SUFFICES ASSUME Inv, WorkInv, PhaseTypes PROVE TypeOK
    OBVIOUS
  <2>2. \A c \in Callers :
          /\ cut[c] \in 0 .. Len(Kind[c])
          /\ \A i \in Calls(c) : tries[c][i] \in 0 .. 2
    BY DEF WorkInv, CallerOK, ChunksOK
  <2>3. \A c \in Callers, w \in Workers : job[c][w].mode \in Modes
    BY DEF Inv, JobsInv, JobOK
  <2>4. active \in 0 .. DirectConcurrency
    BY FS_CardinalityType, HistoricalAssumption DEF Inv, PermitInv
  <2>5. limit \in Nat \cup {None}
    BY DEF Inv, LimitInv
  <2> QED BY <2>2, <2>3, <2>4, <2>5 DEF TypeOK, PhaseTypes
<1> QED BY <1>1, <1>2, <1>3, WorkInvAlways, PTL DEF Spec
=============================================================================
