--------------------------- MODULE HistoricalCall ---------------------------
(***************************************************************************)
(* HistoricalCallService: many contract reads at one historical block of   *)
(* one network.  callMany finds out once per block which multicall         *)
(* contract exists (concurrent callers share the probe) and cuts its calls *)
(* into chunks that up to MulticallConcurrency workers fetch.  A chunk too *)
(* large for the endpoint is halved, and later chunks are cut smaller for  *)
(* every caller; a chunk that fails for another reason is read call by     *)
(* call, by several lanes, under a permit semaphore that all callers of    *)
(* the service share.  An endpoint that is down aborts the caller; the     *)
(* other workers and lanes of that caller are not stopped.                 *)
(*                                                                         *)
(* Abstractions: a result is the call it answers and how it went; errors   *)
(* are of three kinds, "unavailable", "splittable" and other; withRetries  *)
(* and its attempts are in RangeScan; multicall 2 behaves like 3; a        *)
(* multicall contract returns one result per call, so the length check of  *)
(* the code cannot fail.  An RPC call settles only when the event loop has *)
(* no other work (Quiet); the order of that work is left open.             *)
(***************************************************************************)
EXTENDS Integers, Sequences, FiniteSetsExt

CONSTANTS
  Callers,              (* concurrent callMany invocations at one block    *)
  Kind,                 (* Kind[c][i]: what call i of c is on chain:       *)
                        (* "ok", "revert" or "empty" (returns no data)     *)
  ChunkSize,            (* ChunkSize[c]: chunkSize asked for by c          *)
  MinMulticallChunk,    (* minMulticallChunkSize                           *)
  MulticallConcurrency, (* multicallConcurrency                            *)
  DirectConcurrency,    (* directConcurrency                               *)
  Versions,             (* possible answers of the probe                   *)
  None

Calls(c) == 1 .. Len(Kind[c])
Workers  == 1 .. MulticallConcurrency

ASSUME HistoricalAssumption ==
  /\ IsFiniteSet(Callers)
  /\ \A c \in Callers : Kind[c] \in Seq({"ok", "revert", "empty"}) \ {<<>>}
  /\ ChunkSize \in [Callers -> Nat \ {0}]
  /\ MinMulticallChunk \in Nat \ {0}
  /\ MulticallConcurrency \in Nat \ {0}
  /\ DirectConcurrency \in Nat \ {0}
  /\ Versions \subseteq {"v3", "v1", "none"}
  /\ None \notin Nat
  /\ None \notin [call : Nat, how : {"ok", "bad", "empty", "error"}]

VARIABLES
  version, (* multicallAvailability: None, "probing" or the cached answer  *)
  limit,   (* multicallChunkLimits: None or the largest chunk to ask for   *)
  phase,   (* phase[c]: where callMany is                                  *)
  cut,     (* cut[c]: calls given to workers so far (nextOffset)           *)
  job,     (* job[c][w]: the worker, see JobType                           *)
  out,     (* out[c]: the array that c will return                         *)
  active,  (* directActive                                                 *)
  running, (* direct calls <<c, w, i>> in flight                           *)
  waiters, (* direct calls waiting for a permit, the first is next         *)
  tries    (* tries[c][i]: direct calls made for i (history)               *)

permits == <<active, running, waiters, tries>>
vars == <<version, limit, phase, cut, job, out, permits>>

(* The call a result answers and how it went: "ok", "bad" (a call that the *)
(* multicall contract reports as failed or without data), "empty" or       *)
(* "error" (of a direct call).                                             *)
Result(i, how) == [call |-> i, how |-> how]

(* A worker: its mode, the offset of its chunk, the ranges of the chunk    *)
(* still to answer, the answers so far; of the fan-out over the first      *)
(* range: the next call to hand out, the idle lanes, the results, and the  *)
(* failed calls still to repeat.                                           *)
NewJob(mode) ==
  [mode |-> mode, base |-> 0, todo |-> <<>>, got |-> <<>>,
   next |-> 0, lanes |-> 0, res |-> <<>>, redo |-> {}]

Modes == {"pick", "multi", "direct", "retry", "ended", "threw"}

Init ==
  /\ version = None
  /\ limit = None
  /\ phase = [c \in Callers |-> "idle"]
  /\ cut = [c \in Callers |-> 0]
  /\ job = [c \in Callers |-> [w \in Workers |-> NewJob("ended")]]
  /\ out = [c \in Callers |-> [i \in Calls(c) |-> None]]
  /\ active = 0
  /\ running = {}
  /\ waiters = <<>>
  /\ tries = [c \in Callers |-> [i \in Calls(c) |-> 0]]

First(j) == Head(j.todo)[1]
Last(j)  == Head(j.todo)[2]
Size(r)  == r[2] - r[1] + 1

(* A lane of the fan-out can take a call.                                  *)
LaneFree(j) ==
  j.mode \in {"direct", "threw"} /\ j.lanes > 0 /\ j.next <= Last(j)

(* All lanes of a fan-out are through.                                     *)
FannedOut(j) ==
  j.mode = "direct" /\ \A i \in First(j) .. Last(j) : j.res[i] # None

(* Nothing can run but the settling of an RPC call.                        *)
Quiet ==
  \A c \in Callers :
    /\ phase[c] = "running" => \E w \in Workers : job[c][w].mode # "ended"
    /\ \A w \in Workers :
         LET j == job[c][w] IN
         /\ j.mode # "pick" /\ ~LaneFree(j) /\ ~FannedOut(j)
         /\ j.mode = "retry" => j.lanes = 0

-----------------------------------------------------------------------------
(* Finding the multicall contract.                                         *)

Ceil(a, b) == (a + b - 1) \div b

ChunkSizeNow(c) ==
  IF version = "none" \/ limit = None THEN ChunkSize[c]
  ELSE Min({ChunkSize[c], limit})

(* Workers that callMany creates once the version v is known; without a    *)
(* multicall contract it goes through the chunks itself.                   *)
WorkerCount(c, v) ==
  IF v = "none" THEN 1
  ELSE Min({MulticallConcurrency,
            Ceil(Len(Kind[c]), IF limit = None THEN ChunkSize[c]
                               ELSE Min({ChunkSize[c], limit}))})

Started(c, v) ==
  [w \in Workers |-> NewJob(IF w <= WorkerCount(c, v) THEN "pick" ELSE "ended")]

(* callMany: the answer is cached, or a probe is under way or started.     *)
Call(c) ==
  /\ phase[c] = "idle"
  /\ IF version \in Versions
     THEN /\ phase' = [phase EXCEPT ![c] = "running"]
          /\ job' = [job EXCEPT ![c] = Started(c, version)]
          /\ UNCHANGED version
     ELSE /\ phase' = [phase EXCEPT ![c] = "probing"]
          /\ version' = "probing"
          /\ UNCHANGED job
  /\ UNCHANGED <<limit, cut, out, permits>>

Probing(c) == phase[c] = "probing"

ProbeAnswers(v) ==
  /\ version = "probing" /\ Quiet
  /\ version' = v
  /\ phase' = [c \in Callers |-> IF Probing(c) THEN "running" ELSE phase[c]]
  /\ job' = [c \in Callers |-> IF Probing(c) THEN Started(c, v) ELSE job[c]]
  /\ UNCHANGED <<limit, cut, out, permits>>

(* Everybody who waits for the probe fails; the next caller probes again.  *)
ProbeFails ==
  /\ version = "probing" /\ Quiet
  /\ version' = None
  /\ phase' = [c \in Callers |-> IF Probing(c) THEN "failed" ELSE phase[c]]
  /\ UNCHANGED <<limit, cut, job, out, permits>>

-----------------------------------------------------------------------------
(* The workers of a caller.                                                *)

Fanout(j) == [j EXCEPT !.mode  = "direct",
                       !.next  = First(j),
                       !.lanes = Min({DirectConcurrency, Size(Head(j.todo))}),
                       !.res   = [i \in First(j) .. Last(j) |-> None]]

(* The first range of the chunk is answered.                               *)
Answered(j, results) ==
  [NewJob(IF Len(j.todo) = 1 THEN "pick" ELSE "multi") EXCEPT
     !.base = j.base, !.todo = Tail(j.todo), !.got = j.got \o results]

(* The next state of a worker; a chunk that is complete goes to its place  *)
(* in the result.                                                          *)
Becomes(c, w, j) ==
  /\ job' = [job EXCEPT ![c][w] = j]
  /\ out' = IF j.mode = "pick"
            THEN [out EXCEPT ![c] = [i \in Calls(c) |->
                    IF i \in j.base + 1 .. j.base + Len(j.got)
                    THEN j.got[i - j.base] ELSE @[i]]]
            ELSE out

(* A worker takes the next chunk, cut to what the endpoint is known to     *)
(* take, or ends.                                                          *)
Pick(c, w) ==
  /\ job[c][w].mode = "pick"
  /\ IF cut[c] >= Len(Kind[c])
     THEN /\ job' = [job EXCEPT ![c][w] = NewJob("ended")]
          /\ UNCHANGED cut
     ELSE LET end == Min({cut[c] + ChunkSizeNow(c), Len(Kind[c])})
              j == [NewJob("multi") EXCEPT !.base = cut[c],
                                           !.todo = << <<cut[c] + 1, end>> >>]
          IN /\ job' = [job EXCEPT ![c][w] =
                          IF version = "none" THEN Fanout(j) ELSE j]
             /\ cut' = [cut EXCEPT ![c] = end]
  /\ UNCHANGED <<version, limit, phase, out, permits>>

(* The multicall of the first range answers.  Multicall 1 reverts as a     *)
(* whole if one of its calls does.                                         *)
MultiAnswers(c, w) ==
  LET j == job[c][w] IN
  /\ j.mode = "multi" /\ Quiet
  /\ version = "v1" =>
       \A i \in First(j) .. Last(j) : Kind[c][i] # "revert"
  /\ Becomes(c, w, Answered(j,
       [k \in 1 .. Size(Head(j.todo)) |->
          LET i == First(j) + k - 1 IN
          Result(i, IF Kind[c][i] = "ok" THEN "ok" ELSE "bad")]))
  /\ UNCHANGED <<version, limit, phase, cut, permits>>

(* Mutant of Halves: the halves change places.                             *)
HalvesSwapped(r) ==
  LET middle == r[1] + Ceil(Size(r), 2) - 1 IN
  << <<middle + 1, r[2]>>, <<r[1], middle>> >>

Halves(r) ==
  LET middle == r[1] + Ceil(Size(r), 2) - 1 IN
  << <<r[1], middle>>, <<middle + 1, r[2]>> >>

(* Mutant of Remembered: the size observed last is kept.                   *)
RememberedLast(size) == size

(* rememberSmallerMulticallChunk.                                          *)
Remembered(size) == IF limit = None THEN size ELSE Min({limit, size})

(* It is too much for the endpoint: the range is halved.                   *)
MultiSplits(c, w) ==
  LET j == job[c][w] IN
  /\ j.mode = "multi" /\ Quiet
  /\ Size(Head(j.todo)) > MinMulticallChunk
  /\ limit' = Remembered(Ceil(Size(Head(j.todo)), 2))
  /\ job' = [job EXCEPT ![c][w].todo = Halves(Head(j.todo)) \o Tail(j.todo)]
  /\ UNCHANGED <<version, phase, cut, out, permits>>

(* It fails for another reason, or is small already.                       *)
MultiFallsBack(c, w) ==
  /\ job[c][w].mode = "multi" /\ Quiet
  /\ job' = [job EXCEPT ![c][w] = Fanout(@)]
  /\ UNCHANGED <<version, limit, phase, cut, out, permits>>

(* A rejected worker rejects callMany at once; nobody else is stopped.     *)
Rejected(c) ==
  phase' = [phase EXCEPT ![c] = IF @ = "running" THEN "failed" ELSE @]

MultiUnavailable(c, w) ==
  /\ job[c][w].mode = "multi" /\ Quiet
  /\ job' = [job EXCEPT ![c][w].mode = "threw"]
  /\ Rejected(c)
  /\ UNCHANGED <<version, limit, cut, out, permits>>

(* Promise.all(workers) resolves.                                          *)
Return(c) ==
  /\ phase[c] = "running"
  /\ \A w \in Workers : job[c][w].mode = "ended"
  /\ phase' = [phase EXCEPT ![c] = "done"]
  /\ UNCHANGED <<version, limit, cut, job, out, permits>>
-----------------------------------------------------------------------------
(* Direct calls and their permits.                                         *)

(* acquireDirectPermit.                                                    *)
Acquire(call) ==
  /\ tries' = [tries EXCEPT ![call[1]][call[3]] = @ + 1]
  /\ IF active < DirectConcurrency
     THEN /\ active' = active + 1
          /\ running' = running \cup {call}
          /\ UNCHANGED waiters
     ELSE /\ waiters' = Append(waiters, call)
          /\ UNCHANGED <<active, running>>

(* Mutants of Release: the count drops although the permit is handed on,   *)
(* or nobody is woken up.                                                  *)
ReleaseTwice(call) ==
  /\ active' = active - 1
  /\ IF waiters # <<>>
     THEN /\ running' = (running \ {call}) \cup {Head(waiters)}
          /\ waiters' = Tail(waiters)
     ELSE /\ running' = running \ {call}
          /\ UNCHANGED waiters
  /\ UNCHANGED tries
ReleaseSilently(call) ==
  /\ active' = active - 1
  /\ running' = running \ {call}
  /\ UNCHANGED <<waiters, tries>>

(* releaseDirectPermit: the permit goes to the first waiter, if any.       *)
Release(call) ==
  /\ IF waiters # <<>>
     THEN /\ running' = (running \ {call}) \cup {Head(waiters)}
          /\ waiters' = Tail(waiters)
          /\ UNCHANGED active
     ELSE /\ active' = active - 1
          /\ running' = running \ {call}
          /\ UNCHANGED waiters
  /\ UNCHANGED tries

(* A lane of a fan-out takes the next call, also after the fan-out was     *)
(* rejected by another lane.                                               *)
LaneTakes(c, w) ==
  LET j == job[c][w] IN
  /\ LaneFree(j)
  /\ job' = [job EXCEPT ![c][w].next = @ + 1, ![c][w].lanes = @ - 1]
  /\ Acquire(<<c, w, j.next>>)
  /\ UNCHANGED <<version, limit, phase, cut, out>>

(* A direct call returns data, no data or an error; its lane is free.      *)
CallSettles(call, how) ==
  LET c == call[1]
      w == call[2]
      i == call[3] IN
  /\ call \in running /\ Quiet
  /\ how = "ok" => Kind[c][i] = "ok"
  /\ how = "empty" => Kind[c][i] = "empty"
  /\ Release(call)
  /\ job' = [job EXCEPT ![c][w].res[i] = Result(i, how),
                        ![c][w].lanes = @ + 1]
  /\ UNCHANGED <<version, limit, phase, cut, out>>

(* The endpoint is unavailable: the lane and with it the worker and        *)
(* callMany are rejected.                                                  *)
CallUnavailable(call) ==
  LET c == call[1]
      w == call[2] IN
  /\ call \in running /\ Quiet
  /\ Release(call)
  /\ job' = [job EXCEPT ![c][w].mode = "threw"]
  /\ Rejected(c)
  /\ UNCHANGED <<version, limit, cut, out>>

Results(j) == [k \in 1 .. Size(Head(j.todo)) |-> j.res[First(j) + k - 1]]

Errors(j) == {i \in First(j) .. Last(j) : j.res[i].how = "error"}

(* Mutant of FanoutEnds: failed calls are not repeated.                    *)
FanoutEndsAtOnce(c, w) ==
  LET j == job[c][w] IN
  /\ FannedOut(j)
  /\ Becomes(c, w, Answered(j, Results(j)))
  /\ UNCHANGED <<version, limit, phase, cut, permits>>

(* The failed calls, if any, are to be repeated one by one.                *)
FanoutEnds(c, w) ==
  LET j == job[c][w] IN
  /\ FannedOut(j)
  /\ IF Errors(j) = {}
     THEN Becomes(c, w, Answered(j, Results(j)))
     ELSE Becomes(c, w, [j EXCEPT !.mode = "retry", !.lanes = 1,
                                  !.redo = Errors(j)])
  /\ UNCHANGED <<version, limit, phase, cut, permits>>

RetryTakes(c, w) ==
  LET j == job[c][w] IN
  /\ j.mode = "retry" /\ j.lanes = 1 /\ j.redo # {}
  /\ job' = [job EXCEPT ![c][w].redo = @ \ {Min(j.redo)},
                        ![c][w].lanes = 0]
  /\ Acquire(<<c, w, Min(j.redo)>>)
  /\ UNCHANGED <<version, limit, phase, cut, out>>

RetryEnds(c, w) ==
  LET j == job[c][w] IN
  /\ j.mode = "retry" /\ j.lanes = 1 /\ j.redo = {}
  /\ Becomes(c, w, Answered(j, Results(j)))
  /\ UNCHANGED <<version, limit, phase, cut, permits>>

-----------------------------------------------------------------------------

WorkerStep(c, w) ==
  \/ Pick(c, w)
  \/ MultiAnswers(c, w) \/ MultiSplits(c, w) \/ MultiFallsBack(c, w)
  \/ MultiUnavailable(c, w)
  \/ LaneTakes(c, w) \/ FanoutEnds(c, w)
  \/ RetryTakes(c, w) \/ RetryEnds(c, w)

CallEnds(call) ==
  \/ \E how \in {"ok", "empty", "error"} : CallSettles(call, how)
  \/ CallUnavailable(call)

Progress ==
  \/ \E v \in Versions : ProbeAnswers(v)
  \/ ProbeFails
  \/ \E c \in Callers : Return(c) \/ \E w \in Workers : WorkerStep(c, w)
  \/ \E call \in running : CallEnds(call)

Next == Progress \/ \E c \in Callers : Call(c)

(* The event loop runs whatever can run, and every RPC call settles: it    *)
(* has a timeout.                                                          *)
Spec == Init /\ [][Next]_vars /\ WF_vars(Progress)

-----------------------------------------------------------------------------

(* Types of the variables.                                                 *)
TypeOK ==
  /\ version \in Versions \cup {None, "probing"}
  /\ limit \in Nat \cup {None}
  /\ phase \in [Callers -> {"idle", "probing", "running", "done", "failed"}]
  /\ \A c \in Callers :
       /\ cut[c] \in 0 .. Len(Kind[c])
       /\ \A w \in Workers : job[c][w].mode \in Modes
       /\ \A i \in Calls(c) : tries[c][i] \in 0 .. 2
  /\ active \in 0 .. DirectConcurrency

(* What callMany returns is one result per call, each at the place of its  *)
(* call, although chunks end in any order, are halved and are answered in  *)
(* three different ways.                                                   *)
ResultsInPlace ==
  \A c \in Callers : phase[c] = "done" =>
    \A i \in Calls(c) : out[c][i] # None /\ out[c][i].call = i

(* No permit is lost or handed out twice, whoever throws and whoever was   *)
(* abandoned: the count is the number of calls in flight, and nobody waits *)
(* while a permit is free.                                                 *)
PermitsBalanced ==
  /\ active = Cardinality(running)
  /\ waiters # <<>> => active = DirectConcurrency

(* A caller that returns is never told that a good call failed, unless the *)
(* call was made directly and repeated.                                    *)
FailureConfirmed ==
  \A c \in Callers : phase[c] = "done" =>
    \A i \in Calls(c) :
      Kind[c][i] = "ok" /\ out[c][i].how # "ok" => tries[c][i] = 2

(* Once an endpoint refused a size, no caller asks for more than the       *)
(* smallest half that was seen; and the size never gets so small that a    *)
(* chunk would hold nothing.                                               *)
LimitOnlyShrinks ==
  [][limit # None => /\ limit' # None /\ limit' <= limit
                     /\ 2 * limit' > MinMulticallChunk]_vars

(* Every callMany comes to an end: no worker waits for a permit for ever,  *)
(* and a failed probe does not keep later callers waiting.                 *)
EveryCallSettles ==
  \A c \in Callers :
    phase[c] \in {"probing", "running"} ~> phase[c] \in {"done", "failed"}
=============================================================================
