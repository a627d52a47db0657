--------------------------- MODULE V3PeriodRewards ---------------------------
(***************************************************************************)
(* V3PeriodRewardsService: what every user earned and claimed in each      *)
(* Comet between two blocks and is still owed, calculated from the rewards *)
(* contract's state at the block before the market's own start and at the  *)
(* common end.                                                             *)
(*                                                                         *)
(* The chain is external.  A Comet tracks what its users accrue from the   *)
(* block it is listed in, every second of it; the rewards contract pays    *)
(* only once it is deployed and the Comet is configured, which happens     *)
(* once, and then owes whatever was tracked before too.  One transaction   *)
(* per block: a new position, a claim, a configuration, or none of these.  *)
(*                                                                         *)
(* Symbols, decimals, rescaling and addresses are left out.  A failed call *)
(* ends the calculation, but for the one of the reward token at the start, *)
(* whose failure is taken for a Comet without rewards.                     *)
(***************************************************************************)
EXTENDS RewardMath, MerklAllocation, FiniteSets, FiniteSetsExt, Functions

CONSTANTS
  Markets,     (* Comets                                                   *)
  Users,
  Tokens,      (* reward tokens                                            *)
  TokenOf,     (* token of each Comet, once configured                     *)
  None,
  LastBlock,   (* bound on the chain                                       *)
  Time,        (* timestamp of every block                                 *)
  ListedAt,    (* block in which a Comet is listed                         *)
  Positions,   (* positions a user may take                                *)
  Pasts,       (* what may have happened up to block 0                     *)
  Selections   (* markets lists of the ranges file: start block - 1 of the *)
               (* markets named, the empty function for all                *)

ASSUME ChainAssumption ==
  /\ LastBlock \in Nat
  /\ Time \in [0 .. LastBlock -> Nat]
  /\ \A b \in 1 .. LastBlock : Time[b - 1] <= Time[b]
  /\ ListedAt \in [Markets -> 0 .. LastBlock]
  /\ TokenOf \in [Markets -> Tokens]
  /\ Positions \subseteq Nat

ASSUME RewardsAssumption ==
  /\ IsFiniteSet(Markets) /\ IsFiniteSet(Users)
  /\ \A s \in Selections :
       DOMAIN s \subseteq Markets /\ \A m \in DOMAIN s : s[m] \in Nat
  /\ "zero" \notin Tokens
  /\ None \notin Nat \cup Tokens
  /\ None \notin {"zero", "rpc", "rewardConfig", "negative", "stale", "selection"}

(* Only what was tracked was paid, and only by Comets that were configured *)
(* by then.                                                                *)
ASSUME PastAssumption ==
  \A past \in Pasts :
    /\ past.deployedAt \in Nat
    /\ past.configured \subseteq {m \in Markets : ListedAt[m] = 0}
    /\ {past.position, past.tracked, past.claimed}
         \subseteq [Markets \X Users -> Nat]
    /\ \A a \in Markets \X Users :
         /\ past.claimed[a] <= past.tracked[a]
         /\ past.claimed[a] > 0 => a[1] \in past.configured
    /\ past.configured # {} => past.deployedAt = 0

VARIABLES
  blocks,   (* state of the chain after each block                         *)
  phase,    (* of the calculation                                          *)
  range,    (* start boundary, end, and start boundaries of its own for    *)
            (* each market that the ranges file names                      *)
  usersBy,  (* usersByMarket: created_at of the users of a market          *)
  left,     (* markets still to calculate                                  *)
  rows,     (* rows of the result, a function of <<market, user>>          *)
  totals,   (* userTotals, a function of <<token, user>>                   *)
  why,      (* the error that ended the calculation, or None               *)
  lost      (* a start state that exists was taken for missing             *)

calcVars == <<phase, range, usersBy, left, rows, totals, why, lost>>
vars == <<blocks, calcVars>>

Accounts == Markets \X Users
LatestBlock == Cardinality(DOMAIN blocks) - 1

(* f, and g where f is not defined.                                        *)
Over(f, g) ==
  [x \in DOMAIN f \cup DOMAIN g |-> IF x \in DOMAIN f THEN f[x] ELSE g[x]]

-----------------------------------------------------------------------------
(* The chain.                                                              *)

Genesis(past) ==
  [deployedAt |-> past.deployedAt, position |-> past.position,
   tracked |-> past.tracked, claimed |-> past.claimed,
   configured |-> past.configured,
   paid |-> [a \in Accounts |-> 0],
   active |-> {a \in Accounts : past.position[a] + past.tracked[a] > 0}]

(* State of block b before its transaction: time has passed.               *)
Opened(st, b) ==
  [st EXCEPT !.tracked = [a \in Accounts |->
                @[a] + st.position[a] * (Time[b] - Time[b - 1])],
             !.paid = [a \in Accounts |-> 0],
             !.active = {}]

NextBlock(st) == blocks' = Over([b \in {LatestBlock + 1} |-> st], blocks)

(* Block in which the rewards contract is deployed.                        *)
DeployedAt == blocks[0].deployedAt

(* rewardConfig: the call fails before the contract is there.              *)
RewardConfig(m, b) ==
  IF b < DeployedAt THEN None
  ELSE IF m \in blocks[b].configured THEN TokenOf[m] ELSE "zero"

Paying(st, m, b) == DeployedAt <= b /\ m \in st.configured

(* getRewardOwed                                                           *)
OwedIn(st, a) ==
  IF st.tracked[a] > st.claimed[a] THEN st.tracked[a] - st.claimed[a] ELSE 0

SetPosition(st, b, a, x) ==
  /\ ListedAt[a[1]] <= b /\ x # st.position[a]
  /\ NextBlock([st EXCEPT !.position[a] = x, !.active = {a}])

ClaimRewards(st, b, a) ==
  /\ Paying(st, a[1], b)
  /\ OwedIn(st, a) > 0
  /\ NextBlock([st EXCEPT !.claimed[a] = @ + OwedIn(st, a),
                          !.paid[a] = OwedIn(st, a)])

Configure(st, b, m) ==
  /\ DeployedAt <= b /\ ListedAt[m] <= b /\ m \notin st.configured
  /\ NextBlock([st EXCEPT !.configured = @ \cup {m}])

ChainGrows ==
  /\ phase = "chain"
  /\ LatestBlock < LastBlock
  /\ LET b == LatestBlock + 1
         st == Opened(blocks[b - 1], b) IN
     \/ \E a \in Accounts, x \in Positions : SetPosition(st, b, a, x)
     \/ \E a \in Accounts : ClaimRewards(st, b, a)
     \/ \E m \in Markets : Configure(st, b, m)
     \/ NextBlock(st)
  /\ UNCHANGED calcVars

-----------------------------------------------------------------------------
(* The calculation.                                                        *)

NoRows == [a \in {} |-> 0]

Refuse(reason) ==
  /\ phase' = "refused"
  /\ why' = reason
  /\ UNCHANGED <<blocks, range, usersBy, left, rows, totals, lost>>

(* Timestamps at which an index with this cursor has the user in the       *)
(* market, and its created_at.                                             *)
IndexedAt(a, cursor) == {Time[b] : b \in {c \in 0 .. cursor : a \in blocks[c].active}}

(* loadUsersByMarket: users created after the end are left out.            *)
UsersByMarket(r, cursor) ==
  [a \in Accounts |->
     LET seen == {t \in IndexedAt(a, cursor) : t <= Time[r.end]} IN
     IF seen = {} THEN None ELSE Min(seen)]

(* The index must have passed the end of the range, and have every market  *)
(* that the ranges file names.                                             *)
Begin(r, cursor) ==
  /\ phase = "chain"
  /\ LatestBlock = LastBlock
  /\ range' = r
  /\ LET error == IF cursor < r.end THEN "stale"
                  ELSE IF \E m \in DOMAIN r.starts : ListedAt[m] > cursor THEN "selection"
                  ELSE None IN
     /\ why' = error
     /\ phase' = IF error = None THEN "markets" ELSE "refused"
     /\ IF error = None
        THEN /\ usersBy' = UsersByMarket(r, cursor)
             /\ left' = {m \in Markets : \E u \in Users : usersBy'[<<m, u>>] # None}
        ELSE UNCHANGED <<usersBy, left>>
  /\ UNCHANGED <<blocks, rows, totals, lost>>

(* A market list that is not empty is a selection.                         *)
Selected(r, m) == DOMAIN r.starts = {} \/ m \in DOMAIN r.starts

(* The block before the start of the market.                               *)
Boundary(r, m) == IF m \in DOMAIN r.starts THEN r.starts[m] ELSE r.start

(* Mutant of AtStart: users created at the time of the boundary are taken  *)
(* for new.                                                                *)
AtStartStrictly(createdAt, boundary) == createdAt < Time[boundary]

(* Users with a start snapshot.                                            *)
AtStart(createdAt, boundary) == createdAt <= Time[boundary]

NothingYet == [claimed |-> 0, owed |-> 0]

(* readSnapshots for one user.                                             *)
SnapshotAt(a, b) ==
  [claimed |-> blocks[b].claimed[a], owed |-> OwedIn(blocks[b], a)]

(* What one user earned in one market.                                     *)
RowOf(start, end) ==
  LET earned == end.claimed + end.owed - (start.claimed + start.owed) IN
  [earned |-> earned, claimed |-> end.claimed - start.claimed, remaining |-> end.owed,
   forPeriod |-> FifoRemainingForPeriod(earned, end.owed)]

EmptyRow(row) == row.earned = 0 /\ row.claimed = 0 /\ row.remaining = 0

Plus(t, row) ==
  [earned |-> t.earned + row.earned, claimed |-> t.claimed + row.claimed,
   remaining |-> t.remaining + row.remaining, forPeriod |-> t.forPeriod + row.forPeriod]

(* Mutant of Added: what is left for the period is taken from the sums.    *)
AddedFromSums(t, row) ==
  [Plus(t, row) EXCEPT !.forPeriod =
     FifoRemainingForPeriod(t.earned + row.earned, t.remaining + row.remaining)]

(* The total of a user and a token goes on.                                *)
Added(t, row) == Plus(t, row)

(* A market that is skipped: not selected, not there yet, or without       *)
(* rewards at the end of the range.                                        *)
SkipMarket(m) ==
  /\ phase = "markets"
  /\ m \in left
  /\ \/ ~Selected(range, m)
     \/ ListedAt[m] > range.end
     \/ RewardConfig(m, range.end) = "zero"
  /\ left' = left \ {m}
  /\ UNCHANGED <<blocks, phase, range, usersBy, rows, totals, why, lost>>

(* One market of the loop.  startLost: the call for its reward token at    *)
(* the start fails although there is one.                                  *)
CalculateMarket(m, startLost) ==
  /\ phase = "markets"
  /\ m \in left
  /\ Selected(range, m) /\ ListedAt[m] <= range.end
  /\ RewardConfig(m, range.end) # "zero"
  /\ IF RewardConfig(m, range.end) = None
     THEN Refuse("rewardConfig")
     ELSE
       LET boundary == Boundary(range, m)
           us == {u \in Users : usersBy[<<m, u>>] # None}
           hasStart == ListedAt[m] <= boundary
                       /\ RewardConfig(m, boundary) \notin {None, "zero"}
           end(u) == SnapshotAt(<<m, u>>, range.end)
           start(u) == IF hasStart /\ ~startLost /\ AtStart(usersBy[<<m, u>>], boundary)
                       THEN SnapshotAt(<<m, u>>, boundary) ELSE NothingYet
           row == [u \in us |-> RowOf(start(u), end(u))]
           kept == {u \in us : ~EmptyRow(row[u])}
           t == TokenOf[m] IN
       IF \E u \in us : row[u].earned < 0 \/ row[u].claimed < 0
       THEN Refuse("negative")
       ELSE
         /\ rows' = Over([a \in {<<m, u>> : u \in kept} |-> row[a[2]]], rows)
         /\ totals' = Over([k \in {<<t, u>> : u \in kept} |->
                              IF k \in DOMAIN totals THEN Added(totals[k], row[k[2]])
                              ELSE row[k[2]]], totals)
         /\ lost' = (lost \/ (startLost /\ hasStart))
         /\ left' = left \ {m}
         /\ UNCHANGED <<blocks, phase, range, usersBy, why>>

(* Any other call of the calculation fails for good.                       *)
ReadFails ==
  /\ phase = "markets"
  /\ left # {}
  /\ Refuse("rpc")

Finish ==
  /\ phase = "markets"
  /\ left = {}
  /\ phase' = "done"
  /\ UNCHANGED <<blocks, range, usersBy, left, rows, totals, why, lost>>

(* omittedMarkets of the range.                                            *)
Omitted(r) == {m \in Markets : ListedAt[m] <= r.end /\ ~Selected(r, m)}

-----------------------------------------------------------------------------

Init ==
  /\ \E past \in Pasts : blocks = [b \in {0} |-> Genesis(past)]
  /\ phase = "chain"
  /\ range = [start |-> 0, end |-> 0, starts |-> NoRows]
  /\ usersBy = [a \in Accounts |-> None]
  /\ left = {}
  /\ rows = NoRows
  /\ totals = NoRows
  /\ why = None
  /\ lost = FALSE

Ranges ==
  {r \in [start : 0 .. LastBlock, end : 0 .. LastBlock, starts : Selections] :
     r.start < r.end /\ \A m \in DOMAIN r.starts : r.starts[m] < r.end}

Next ==
  \/ ChainGrows
  \/ \E r \in Ranges, cursor \in 0 .. LastBlock : Begin(r, cursor)
  \/ \E m \in Markets : SkipMarket(m)
  \/ \E m \in Markets, startLost \in BOOLEAN : CalculateMarket(m, startLost)
  \/ ReadFails
  \/ Finish

Spec == Init /\ [][Next]_vars

-----------------------------------------------------------------------------

Done == phase = "done"

Amounts == [earned : Nat, claimed : Nat, remaining : Nat, forPeriod : Nat]

(* Types of the variables.                                                 *)
TypeOK ==
  /\ DOMAIN blocks = 0 .. LatestBlock
  /\ phase \in {"chain", "markets", "done", "refused"}
  /\ range \in Ranges \/ phase = "chain"
  /\ \A a \in Accounts : usersBy[a] \in Nat \cup {None}
  /\ left \subseteq Markets
  /\ DOMAIN rows \subseteq Accounts /\ \A a \in DOMAIN rows : rows[a] \in Amounts
  /\ DOMAIN totals \subseteq Tokens \X Users
  /\ \A k \in DOMAIN totals : totals[k] \in Amounts
  /\ lost \in BOOLEAN
  /\ (why # None) = (phase = "refused")

(* What a user could claim from a market at the end of block b, and was    *)
(* paid after the market's boundary.                                       *)
Owed(a, b) == IF Paying(blocks[b], a[1], b) THEN OwedIn(blocks[b], a) ELSE 0
Paid(a) ==
  SumFunction([b \in Boundary(range, a[1]) + 1 .. range.end |-> blocks[b].paid[a]])
Earned(a) == Paid(a) + Owed(a, range.end) - Owed(a, Boundary(range, a[1]))

ValueIn(a, field) == IF a \in DOMAIN rows THEN rows[a][field] ELSE 0

ReportsEarned ==
  \A a \in Accounts :
    IF Selected(range, a[1])
    THEN ValueIn(a, "earned") = Earned(a) /\ ValueIn(a, "claimed") = Paid(a)
    ELSE a \notin DOMAIN rows

(* The report agrees with the chain, to the wei: in every selected market  *)
(* every user earned what they were paid since the market's own start plus *)
(* what they are owed at the end less what they were owed before.  This    *)
(* holds for Comets listed or configured in the middle of the period, for  *)
(* users created at the timestamp of a boundary and for those that have no *)
(* row.                                                                    *)
EarnedExact == Done /\ ~lost => ReportsEarned

(* What the rewards manual says earned is, whichever calls fail: the       *)
(* change of claimed and owed over the period.  A failed read of the       *)
(* reward token before it makes old debt earned.                           *)
EarnedAsStated == Done => ReportsEarned

(* The groups the export makes of the result.                              *)
GroupRows(t) == Restrict(rows, {a \in DOMAIN rows : TokenOf[a[1]] = t})
GroupTotals(t) ==
  [u \in {k[2] : k \in {j \in DOMAIN totals : j[1] = t}} |-> totals[<<t, u>>]]

(* The export refuses no result of the calculation, for no reward token    *)
(* and in neither mode, and pays every user what the rewards contract owes *)
(* at the end of the range for the selected markets, whatever could not be *)
(* read at the start; with --period, the part of each market's debt that   *)
(* the period has earned.                                                  *)
ExportPaysDebt ==
  Done =>
    \A t \in Tokens, periodOnly \in BOOLEAN :
      LET group == IF DOMAIN GroupTotals(t) = {} THEN NoGroup
                   ELSE PrepareGroup(3, GroupRows(t), GroupTotals(t), periodOnly)
          debt(a) == IF periodOnly
                     THEN FifoRemainingForPeriod(ValueIn(a, "earned"), Owed(a, range.end))
                     ELSE Owed(a, range.end) IN
      /\ ~group.refused
      /\ \A u \in Users :
           RewardIn(group, u) =
             SumFunction([m \in {k \in Markets : TokenOf[k] = t /\ Selected(range, k)}
                            |-> debt(<<m, u>>)])
=============================================================================
