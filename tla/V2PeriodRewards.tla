--------------------------- MODULE V2PeriodRewards ---------------------------
(***************************************************************************)
(* V2PeriodRewardsService: what every user earned, claimed and is still    *)
(* owed in COMP between two blocks, calculated from state read at the      *)
(* block before the range and at its end, from the Distributed events and  *)
(* from the COMP transfers in between.                                     *)
(*                                                                         *)
(* The chain is external.  It is the sequence of its states, one           *)
(* transaction per block: mint or redeem, borrow or repay, claim, a new    *)
(* speed, interest, and a phantom Distributed event that credits nothing   *)
(* (v2-period-rewards.service.ts:322-331).  As far as the service reads    *)
(* it, its Comptroller keeps an index for each side of each market, moved  *)
(* lazily, and credits a user of a side when that user acts on it.         *)
(*                                                                         *)
(* Addresses, symbols, decimals and the shape of log entries are left out. *)
(* The choice between compSupplySpeeds and the older compSpeeds is taken   *)
(* to give the speed in force.                                             *)
(***************************************************************************)
EXTENDS RewardMath, MerklAllocation, FiniteSets, FiniteSetsExt, Functions

CONSTANTS
  Markets,      (* numbers, in the order in which the loop takes markets   *)
  Users,
  None,
  LastBlock,    (* bound on the chain                                      *)
  Time,         (* timestamp of every block                                *)
  ListedAt,     (* block in which a market is listed                       *)
  Amounts,      (* balances and borrows a user may set                     *)
  Speeds,       (* speeds the governance may set                           *)
  PhantomDelta, (* amount of a phantom event                               *)
  Borrowable,   (* markets in which users may borrow                       *)
  Pasts,        (* what may have happened up to block 0                    *)
  Selections    (* values of the markets filter of the range, {} for none  *)

ASSUME ChainAssumption ==
  /\ Markets \subseteq Nat
  /\ LastBlock \in Nat
  /\ Time \in [0 .. LastBlock -> Nat]
  /\ \A b \in 1 .. LastBlock : Time[b - 1] <= Time[b]
  /\ ListedAt \in [Markets -> 0 .. LastBlock]
  /\ Amounts \subseteq Nat /\ Speeds \subseteq Nat /\ PhantomDelta \in Nat
  /\ Borrowable \subseteq Markets
  /\ Selections \subseteq SUBSET Markets

ASSUME RewardsAssumption ==
  /\ IsFiniteSet(Markets) /\ IsFiniteSet(Users)
  /\ None \notin Nat
  /\ None \notin {"stale", "token", "selection", "boundary", "rpc", "cToken",
                 "negative reward", "negative claimed"}

VARIABLES
  blocks,      (* state of the chain after each block                      *)
  phase,       (* of the calculation                                       *)
  range,       (* the period and the selected markets                      *)
  usersBy,     (* usersByMarket: created_at of the users of a market       *)
  left,        (* markets still to calculate                               *)
  rows,        (* <<market, user>> -> supply and borrow reward             *)
  totals,      (* totalsByUser                                             *)
  hasStart,    (* hasStartRewardBoundary                                   *)
  result,      (* userTotals of the result                                 *)
  why,         (* the error that ended the calculation, or None            *)
  lost         (* a start boundary that exists was taken for missing       *)

calcVars == <<phase, range, usersBy, left, rows, totals, hasStart, result, why,
              lost>>
vars == <<blocks, calcVars>>

Sides == {"supply", "borrow"}
Pools == Markets \X Sides
RewardedPools == {p \in Pools : p[2] = "supply" \/ p[1] \in Borrowable}
Accounts == Markets \X Users
LatestBlock == Cardinality(DOMAIN blocks) - 1

(* An index never was below the initial one.                               *)
ASSUME PastAssumption ==
  \A past \in Pasts :
    /\ past.rewardsFrom \in Nat
    /\ past.index \in [Pools -> Nat]
    /\ \A p \in Pools : past.index[p] >= InitialIndex
    /\ past.balance \in [Accounts -> Nat]
    /\ past.principal \in [Accounts -> Nat]

(* f, and g where f is not defined.                                        *)
Over(f, g) ==
  [x \in DOMAIN f \cup DOMAIN g |-> IF x \in DOMAIN f THEN f[x] ELSE g[x]]

-----------------------------------------------------------------------------
(* The chain.                                                              *)

(* First block with COMP rewards, and with rewards of a market.            *)
RewardsFrom == blocks[0].rewardsFrom
LiveFrom(m) == IF ListedAt[m] > RewardsFrom THEN ListedAt[m] ELSE RewardsFrom

(* Balances, borrows, indexes and the start of the rewards are given.      *)
Genesis(past) ==
  [rewardsFrom |-> past.rewardsFrom,
   index   |-> past.index,
   at      |-> [p \in Pools |-> IF ListedAt[p[1]] > past.rewardsFrom
                                THEN ListedAt[p[1]] ELSE past.rewardsFrom],
   speed   |-> [p \in Pools |-> IF p \in RewardedPools THEN 1 ELSE 0],
   balance |-> past.balance,
   principal |-> past.principal,
   since   |-> [a \in Accounts |-> ExpScale],
   borrowIndex |-> [m \in Markets |-> ExpScale],
   user    |-> [p \in Pools |-> [u \in Users |-> 0]],
   accrued |-> [u \in Users |-> 0],
   paid    |-> [u \in Users |-> 0],
   credited |-> [p \in Pools |-> [u \in Users |-> 0]],
   phantom |-> [p \in Pools |-> [u \in Users |-> 0]],
   emitted |-> {},
   active  |-> {a \in Accounts : past.balance[a] + past.principal[a] > 0}]

(* borrowBalanceStored                                                     *)
Stored(st, m, u) ==
  (st.principal[<<m, u>>] * st.borrowIndex[m]) \div st.since[<<m, u>>]

ShareOf(st, p, u) ==
  IF p[2] = "supply" THEN st.balance[<<p[1], u>>]
  ELSE (Stored(st, p[1], u) * ExpScale) \div st.borrowIndex[p[1]]

TotalBorrows(st, m) == SumFunction([u \in Users |-> Stored(st, m, u)])
TotalSupply(st, m) == SumFunction([u \in Users |-> st.balance[<<m, u>>]])

Shares(st, p) ==
  IF p[2] = "supply" THEN TotalSupply(st, p[1])
  ELSE (TotalBorrows(st, p[1]) * ExpScale) \div st.borrowIndex[p[1]]

IndexAt(st, p, b) ==
  IF Shares(st, p) = 0 THEN st.index[p]
  ELSE st.index[p] + ((b - st.at[p]) * st.speed[p] * DoubleScale) \div Shares(st, p)

(* What the Comptroller would credit to the user in block b.               *)
Credit(st, p, u, b) ==
  LET from == IF st.user[p][u] = 0 THEN InitialIndex ELSE st.user[p][u] IN
  (ShareOf(st, p, u) * (IndexAt(st, p, b) - from)) \div DoubleScale

(* State of block b before its transaction: nothing has happened in it.    *)
Opened(st) ==
  [st EXCEPT !.paid = [u \in Users |-> 0],
             !.credited = [p \in Pools |-> [u \in Users |-> 0]],
             !.phantom = [p \in Pools |-> [u \in Users |-> 0]],
             !.emitted = {}, !.active = {}]

(* The indexes of these pools are moved and the users credited.            *)
Touched(st, pools, us, b) ==
  LET live == {p \in pools : LiveFrom(p[1]) <= b} IN
  [st EXCEPT
     !.index = [p \in Pools |-> IF p \in live THEN IndexAt(st, p, b) ELSE @[p]],
     !.at = [p \in Pools |-> IF p \in live THEN b ELSE @[p]],
     !.user = [p \in Pools |-> [u \in Users |->
                 IF p \in live /\ u \in us THEN IndexAt(st, p, b) ELSE @[p][u]]],
     !.credited = [p \in Pools |-> [u \in Users |->
                 IF p \in live /\ u \in us THEN Credit(st, p, u, b) ELSE 0]],
     !.emitted = live \X us,
     !.accrued = [u \in Users |->
                 IF u \in us
                 THEN @[u] + SumFunction([p \in live |-> Credit(st, p, u, b)])
                 ELSE @[u]]]

NextBlock(st) == blocks' = Over([b \in {LatestBlock + 1} |-> st], blocks)

MintOrRedeem(st, b, m, u, amount) ==
  /\ ListedAt[m] <= b /\ amount # st.balance[<<m, u>>]
  /\ NextBlock([Touched(st, {<<m, "supply">>}, {u}, b) EXCEPT
                  !.balance[<<m, u>>] = amount, !.active = {<<m, u>>}])

BorrowOrRepay(st, b, m, u, amount) ==
  /\ ListedAt[m] <= b /\ amount # Stored(st, m, u)
  /\ NextBlock([Touched(st, {<<m, "borrow">>}, {u}, b) EXCEPT
                  !.principal[<<m, u>>] = amount,
                  !.since[<<m, u>>] = st.borrowIndex[m],
                  !.active = {<<m, u>>}])

Claim(st, b, u) ==
  /\ RewardsFrom <= b
  /\ LET t == Touched(st, Pools, {u}, b) IN
     NextBlock([t EXCEPT !.paid[u] = t.accrued[u], !.accrued[u] = 0])

SetSpeed(st, b, p, speed) ==
  /\ LiveFrom(p[1]) <= b /\ speed # st.speed[p]
  /\ NextBlock([Touched(st, {p}, {}, b) EXCEPT !.speed[p] = speed])

(* Interest on the borrows of a market.                                    *)
Interest(st, m) ==
  NextBlock([st EXCEPT !.borrowIndex[m] = @ + 1])

Phantom(st, b, m, u) ==
  /\ LiveFrom(m) <= b
  /\ NextBlock([st EXCEPT !.phantom[<<m, "borrow">>][u] = PhantomDelta,
                          !.emitted = {<<<<m, "borrow">>, u>>}])

Transaction(st, b) ==
  \/ \E m \in Markets, u \in Users, x \in Amounts : MintOrRedeem(st, b, m, u, x)
  \/ \E m \in Borrowable, u \in Users, x \in Amounts : BorrowOrRepay(st, b, m, u, x)
  \/ \E u \in Users : Claim(st, b, u)
  \/ \E p \in RewardedPools, x \in Speeds : SetSpeed(st, b, p, x)
  \/ \E m \in Borrowable : Interest(st, m)
  \/ \E m \in Borrowable, u \in Users : Phantom(st, b, m, u)

ChainGrows ==
  /\ phase = "chain"
  /\ LatestBlock < LastBlock
  /\ Transaction(Opened(blocks[LatestBlock]), LatestBlock + 1)
  /\ UNCHANGED calcVars

-----------------------------------------------------------------------------
(* The calculation.                                                        *)

Before == range.start   (* startBoundary.number, the block before the range *)
End    == range.end
Partial == range.selected # {}

InRange == Before + 1 .. End

Refuse(reason) ==
  /\ phase' = "refused"
  /\ why' = reason
  /\ UNCHANGED <<blocks, range, usersBy, left, rows, totals, hasStart, result,
                 lost>>

(* Timestamps at which the index of a database with this cursor has the    *)
(* user in the market.                                                     *)
IndexedAt(a, cursor) == {Time[b] : b \in {c \in 0 .. cursor : a \in blocks[c].active}}

Distributed(a, r) ==
  {<<<<a[1], side>>, a[2]>> : side \in Sides} \cap
    UNION {blocks[b].emitted : b \in r.start + 1 .. r.end}

Selects(r, m) == r.selected = {} \/ m \in r.selected

(* loadUsersByMarket, and then the users of Distributed events: these are  *)
(* taken to have been there before the period.                             *)
UsersByMarket(r, cursor) ==
  [a \in Accounts |->
     LET seen == {t \in IndexedAt(a, cursor) : t <= Time[r.end]} IN
     IF ~Selects(r, a[1]) THEN None
     ELSE IF seen # {} THEN Min(seen)
     ELSE IF Distributed(a, r) # {} THEN Time[r.start]
     ELSE None]

(* The index must have passed the range, the reward token must be deployed *)
(* at its end and the selected markets must be indexed.                    *)
Begin(r, cursor, tokenFrom) ==
  /\ phase = "chain"
  /\ LatestBlock = LastBlock
  /\ range' = r
  /\ LET error == IF cursor < r.end THEN "stale"
                  ELSE IF r.end < tokenFrom THEN "token"
                  ELSE IF \E m \in r.selected : ListedAt[m] > cursor THEN "selection"
                  ELSE None IN
     /\ why' = error
     /\ phase' = IF error = None THEN "markets" ELSE "refused"
     /\ IF error = None
        THEN /\ usersBy' = UsersByMarket(r, cursor)
             /\ left' = {m \in Markets : \E u \in Users : usersBy'[<<m, u>>] # None}
        ELSE UNCHANGED <<usersBy, left>>
  /\ UNCHANGED <<blocks, rows, totals, hasStart, result, lost>>

(* readMarketBoundary.  Before the rewards the Comptroller has no reward   *)
(* state and the boundary is null; a market that is not there has no       *)
(* cToken state, which is an error.                                        *)
HasBoundary(b) == RewardsFrom <= b
NoCToken(m, b) == HasBoundary(b) /\ b < ListedAt[m]

Boundary(m, b) ==
  LET st == blocks[b] IN
  [supply |-> ProjectSupplyIndex(st.index[<<m, "supply">>], st.at[<<m, "supply">>],
                b, st.speed[<<m, "supply">>], TotalSupply(st, m)),
   borrow |-> ProjectBorrowIndex(st.index[<<m, "borrow">>], st.at[<<m, "borrow">>],
                b, st.speed[<<m, "borrow">>], TotalBorrows(st, m), st.borrowIndex[m])]

NoBoundary == [supply |-> None, borrow |-> None]
NoPending  == [supply |-> 0, borrow |-> 0]

(* readUserPending for one user.                                           *)
UserPending(m, u, b, boundary) ==
  LET st == blocks[b] IN
  [supply |-> PendingSupply(boundary.supply, st.user[<<m, "supply">>][u],
                st.balance[<<m, u>>]),
   borrow |-> PendingBorrow(boundary.borrow, st.user[<<m, "borrow">>][u],
                Stored(st, m, u), st.borrowIndex[m])]

(* readDistributedRewards for one user of one side.                        *)
EventsOf(p, u) ==
  SumFunction([b \in InRange |->
                 blocks[b].credited[p][u] + blocks[b].phantom[p][u]])

(* Mutant: the state at the start of a market listed later is read too.    *)
ReadsStartAlways(m) == TRUE

(* The market was there before the range.                                  *)
ReadsStart(m) == ListedAt[m] <= Before

(* Mutant: the start state of users indexed at the boundary is not read.   *)
AtStartStrictly(createdAt) == createdAt < Time[Before]

(* Users indexed after the boundary had nothing before it.                 *)
AtStart(createdAt) == createdAt <= Time[Before]

(* One market of the loop of calculateNetwork, which takes them in order.  *)
(* startLost: the calls for its reward state at the start fail like calls  *)
(* to a Comptroller that has none.                                         *)
CalculateMarket(m, startLost) ==
  /\ phase = "markets"
  /\ m \in left /\ \A k \in left : m <= k
  /\ IF ListedAt[m] > End
     THEN /\ left' = left \ {m}
          /\ UNCHANGED <<blocks, phase, range, usersBy, rows, totals, hasStart,
                         result, why, lost>>
     ELSE IF ~HasBoundary(End)
     THEN Refuse("boundary")
     ELSE IF ReadsStart(m) /\ NoCToken(m, Before)
     THEN Refuse("cToken")
     ELSE
       LET us      == {u \in Users : usersBy[<<m, u>>] # None}
           started == ReadsStart(m) /\ HasBoundary(Before) /\ ~startLost
           atEnd   == Boundary(m, End)
           atStart == IF started THEN Boundary(m, Before) ELSE NoBoundary
           end(u)  == UserPending(m, u, End, atEnd)
           start(u) == IF started /\ AtStart(usersBy[<<m, u>>])
                       THEN UserPending(m, u, Before, atStart) ELSE NoPending
           reward(u, side) ==
             PeriodReward(EventsOf(<<m, side>>, u), end(u)[side], start(u)[side],
                          atEnd[side], atStart[side]) IN
       IF \E u \in us, side \in Sides : reward(u, side) < 0
       THEN Refuse("negative reward")
       ELSE
         /\ rows' = [a \in Accounts |->
              IF a[1] = m /\ a[2] \in us
              THEN [side \in Sides |-> reward(a[2], side)] ELSE rows[a]]
         /\ totals' = [u \in Users |->
              IF u \notin us THEN totals[u]
              ELSE LET t == IF totals[u] # None THEN totals[u]
                            ELSE [createdAt |-> usersBy[<<m, u>>], earned |-> 0,
                                  before |-> 0, end |-> 0] IN
                   [createdAt |-> Min({t.createdAt, usersBy[<<m, u>>]}),
                    earned |-> t.earned + reward(u, "supply") + reward(u, "borrow"),
                    before |-> t.before + start(u).supply + start(u).borrow,
                    end    |-> t.end + end(u).supply + end(u).borrow]]
         /\ hasStart' = (hasStart \/ started)
         /\ lost' = (lost \/ (startLost /\ ReadsStart(m) /\ HasBoundary(Before)))
         /\ left' = left \ {m}
         /\ UNCHANGED <<blocks, phase, range, usersBy, result, why>>

(* Any other call or log request of the calculation fails for good.        *)
ReadFails ==
  /\ phase = "markets"
  /\ Refuse("rpc")

-----------------------------------------------------------------------------
(* The totals of the users.                                                *)

RowTotal(a) == rows[a]["supply"] + rows[a]["borrow"]

(* Markets of a user drained before m: larger rows first, and of two that  *)
(* are equal the one that the loop took first, since the sort is stable.   *)
DrainedBefore(m, u) ==
  {k \in Markets \ {m} :
     \/ RowTotal(<<k, u>>) > RowTotal(<<m, u>>)
     \/ RowTotal(<<k, u>>) = RowTotal(<<m, u>>) /\ k < m}

(* Mutant of Reduced: supply is drained for the whole amount too.          *)
ReducedTwice(a, amount) ==
  LET u == a[2]
      ahead == SumFunction([k \in DrainedBefore(a[1], u) |-> RowTotal(<<k, u>>)])
      take  == Min({RowTotal(a), Max({0, amount - ahead})})
      fromBorrow == Min({rows[a]["borrow"], take}) IN
  [side \in Sides |-> IF side = "borrow" THEN rows[a][side] - fromBorrow
                                         ELSE Max({0, rows[a][side] - take})]

(* reduceUserRows: the row of a user after amount is taken from the rows,  *)
(* borrow reward first.                                                    *)
Reduced(a, amount) ==
  LET u == a[2]
      ahead == SumFunction([k \in DrainedBefore(a[1], u) |-> RowTotal(<<k, u>>)])
      take  == Min({RowTotal(a), Max({0, amount - ahead})})
      fromBorrow == Min({rows[a]["borrow"], take}) IN
  [side \in Sides |-> IF side = "borrow" THEN rows[a][side] - fromBorrow
                      ELSE rows[a][side] - (take - fromBorrow)]

AccruedAtEnd(u) == blocks[End].accrued[u]

(* readCompAccrued before the range: in a full calculation with reward     *)
(* state at the start, for the users that were there.                      *)
AccruedBefore(u) ==
  IF ~Partial /\ hasStart /\ AtStart(totals[u].createdAt)
  THEN blocks[Before].accrued[u] ELSE 0

(* Mutant: transfers of the block before the range are counted.            *)
ClaimedFromBoundary(u) == SumFunction([b \in Before .. End |-> blocks[b].paid[u]])

(* readClaimedTransfers                                                    *)
ClaimedTransfers(u) == SumFunction([b \in InRange |-> blocks[b].paid[u]])

Remaining(u) == AccruedAtEnd(u) + totals[u].end
DebtBefore(u) == AccruedBefore(u) + totals[u].before
TransferEarned(u) == ClaimedTransfers(u) + Remaining(u) - DebtBefore(u)

(* What the transfers prove replaces a larger sum of events.               *)
Reconciled(u) ==
  IF Partial \/ TransferEarned(u) < 0 \/ TransferEarned(u) >= totals[u].earned
  THEN totals[u].earned ELSE TransferEarned(u)

ClaimedRaw(u) ==
  IF Partial THEN None ELSE DebtBefore(u) + Reconciled(u) - Remaining(u)

Finish ==
  /\ phase = "markets"
  /\ left = {}
  /\ LET us == {u \in Users : totals[u] # None}
         kept == {u \in us : \/ Reconciled(u) > 0 \/ Remaining(u) > 0
                             \/ ~Partial /\ ClaimedRaw(u) > 0} IN
     IF ~Partial /\ \E u \in us : ClaimedRaw(u) < 0
     THEN Refuse("negative claimed")
     ELSE
       /\ rows' = [a \in Accounts |->
            IF a[2] \in us
            THEN Reduced(a, totals[a[2]].earned - Reconciled(a[2])) ELSE rows[a]]
       /\ result' = [u \in Users |->
            IF u \notin kept THEN None
            ELSE [earned |-> Reconciled(u), claimed |-> ClaimedRaw(u),
                  remaining |-> Remaining(u),
                  forPeriod |-> FifoRemainingForPeriod(Reconciled(u), Remaining(u))]]
       /\ phase' = "done"
       /\ UNCHANGED <<blocks, range, usersBy, left, totals, hasStart, why, lost>>

-----------------------------------------------------------------------------

Init ==
  /\ \E past \in Pasts : blocks = [b \in {0} |-> Genesis(past)]
  /\ phase = "chain"
  /\ range = [start |-> 0, end |-> 0, selected |-> {}]
  /\ usersBy = [a \in Accounts |-> None]
  /\ left = {}
  /\ rows = [a \in Accounts |-> [side \in Sides |-> 0]]
  /\ totals = [u \in Users |-> None]
  /\ hasStart = FALSE
  /\ result = [u \in Users |-> None]
  /\ why = None
  /\ lost = FALSE

Ranges ==
  {r \in [start : 0 .. LastBlock, end : 0 .. LastBlock, selected : Selections] :
     r.start < r.end}

Next ==
  \/ ChainGrows
  \/ \E r \in Ranges, cursor \in 0 .. LastBlock, tokenFrom \in 0 .. RewardsFrom :
       Begin(r, cursor, tokenFrom)
  \/ \E m \in Markets, startLost \in BOOLEAN : CalculateMarket(m, startLost)
  \/ ReadFails
  \/ Finish

Spec == Init /\ [][Next]_vars

-----------------------------------------------------------------------------

TotalsType == [createdAt : Nat, earned : Nat, before : Nat, end : Nat]
ResultType == [earned : Nat, claimed : Nat \cup {None}, remaining : Nat,
               forPeriod : Nat]

ASSUME TotalsAssumption == None \notin TotalsType \cup ResultType

(* Types of the variables.                                                 *)
TypeOK ==
  /\ DOMAIN blocks = 0 .. LatestBlock
  /\ phase \in {"chain", "markets", "done", "refused"}
  /\ range \in Ranges \/ phase = "chain"
  /\ \A a \in Accounts : usersBy[a] \in Nat \cup {None}
  /\ left \subseteq Markets
  /\ \A a \in Accounts : rows[a] \in [Sides -> Nat]
  /\ \A u \in Users : totals[u] # None => totals[u] \in TotalsType
  /\ \A u \in Users : result[u] # None => result[u] \in ResultType
  /\ hasStart \in BOOLEAN /\ lost \in BOOLEAN
  /\ (why # None) = (phase = "refused")

(* What the Comptroller owes a user on one side, or altogether, if the     *)
(* user claimed at the end of block b.                                     *)
OwedOn(p, u, b) == IF LiveFrom(p[1]) <= b THEN Credit(blocks[b], p, u, b) ELSE 0
Owed(u, b) == blocks[b].accrued[u] + SumFunction([p \in Pools |-> OwedOn(p, u, b)])

CreditedOn(p, u) == SumFunction([b \in InRange |-> blocks[b].credited[p][u]])
Paid(u) == SumFunction([b \in InRange |-> blocks[b].paid[u]])

EarnedOn(p, u) == CreditedOn(p, u) + OwedOn(p, u, End) - OwedOn(p, u, Before)
Earned(u) == Paid(u) + Owed(u, End) - Owed(u, Before)

(* No interest accrued in the range.                                       *)
Steady(m) == blocks[Before].borrowIndex[m] = blocks[End].borrowIndex[m]

(* The borrow side of m earned nothing, but its borrows may be rounded     *)
(* otherwise at the end than before the range.                             *)
Drifts(m) ==
  /\ ~Steady(m)
  /\ ListedAt[m] <= Before /\ HasBoundary(Before)
  /\ IndexAt(blocks[Before], <<m, "borrow">>, Before) =
       IndexAt(blocks[End], <<m, "borrow">>, End)

Honest(u) ==
  \A b \in InRange, p \in Pools : blocks[b].phantom[p][u] = 0

Done == phase = "done"

ReportsEarned ==
  \A u \in Users : Earned(u) >= 0 =>
    Earned(u) = IF result[u] = None THEN 0 ELSE result[u].earned

(* A full calculation reports what every user earned, to the wei: what     *)
(* they were paid in the range plus what they are owed at its end less     *)
(* what they were owed before.  This is so whatever phantom events there   *)
(* are, and for users the totals leave out.  Interest alone can round what *)
(* a user earned below zero; phantom rewards of such a user stay.          *)
EarnedExact ==
  Done /\ ~Partial /\ ~lost /\ ~(\E m \in Markets : Drifts(m)) => ReportsEarned

(* The group the export makes of the result: rows with a reward, and the   *)
(* users' totals.                                                          *)
GroupRows ==
  [a \in {k \in Accounts : RowTotal(k) > 0} |-> [earned |-> RowTotal(a)]]
GroupTotals == Restrict(result, {u \in Users : result[u] # None})

(* The export refuses no result of the calculation, in neither mode and    *)
(* not after phantom rewards were taken out of the rows either; and a full *)
(* calculation pays every user what a claim at the end of the range would, *)
(* whatever was missed at its start, or with --period the part of it that  *)
(* the period has earned.                                                  *)
ExportPaysDebt ==
  Done =>
    \A periodOnly \in BOOLEAN :
      LET group == IF DOMAIN GroupTotals = {} /\ DOMAIN GroupRows = {} THEN NoGroup
                   ELSE PrepareGroup(2, GroupRows, GroupTotals, periodOnly) IN
      /\ ~group.refused
      /\ ~Partial => \A u \in Users :
           LET debt == Owed(u, End) IN
           RewardIn(group, u) =
             IF periodOnly /\ result[u] # None
             THEN FifoRemainingForPeriod(result[u].earned, debt) ELSE debt

(* The correction of phantom rewards leaves honest users alone: each of    *)
(* their rows is what that market paid and owes for the range.             *)
HonestRowsExact ==
  Done /\ ~lost /\ ~(\E m \in Markets : Drifts(m)) =>
    \A m \in Markets, u \in Users :
      Honest(u) /\ Selects(range, m) =>
        \A side \in Sides : rows[<<m, u>>][side] = EarnedOn(<<m, side>>, u)

(* What the phantom events of a pool name as rewards of a user.            *)
PhantomOn(p, u) == SumFunction([b \in InRange |-> blocks[b].phantom[p][u]])

(* Interest has taken more from the borrow rewards of a user, by rounding, *)
(* than the user earned with them, phantom events included.                *)
RoundedAway(m, u) ==
  /\ Selects(range, m) /\ ~Steady(m)
  /\ EarnedOn(<<m, "borrow">>, u) + PhantomOn(<<m, "borrow">>, u) < 0

(* What the rounding alone has given a user in the markets whose index did *)
(* not move, where the service takes the reward to be zero.                *)
Drifting == {m \in Markets : Drifts(m)}
DriftOf(u) ==
  SumFunction([m \in Drifting |-> CreditedOn(<<m, "borrow">>, u)
                                   + OwedOn(<<m, "borrow">>, u, End)])
    - SumFunction([m \in Drifting |-> OwedOn(<<m, "borrow">>, u, Before)])

(* Real chains are refused for what rounding does and nothing else.  With  *)
(* interest in any market, a negative reward is found only if the chain    *)
(* itself gives the user less than nothing for the borrows of a market in  *)
(* which interest accrued; a negative claim, only if the rounding of those *)
(* the service takes to have earned nothing is more than the user was paid *)
(* in the range.  The deployed token and the reward state at the end are   *)
(* missing only before the rewards begin, a cToken state never.            *)
RealChainAccepted ==
  phase = "refused" /\ ~lost =>
    \/ why \in {"stale", "selection", "rpc"}
    \/ why \in {"token", "boundary"} /\ ~HasBoundary(End)
    \/ why = "negative reward" /\ \E m \in Markets, u \in Users : RoundedAway(m, u)
    \/ why = "negative claimed" /\ ~Partial /\ \E u \in Users : Paid(u) < DriftOf(u)

(* What the comment on the correction of phantom rewards says: it reduces  *)
(* only accounts inflated by phantom events, and leaves all others alone.  *)
(* Rounding by interest makes it take from honest users too.               *)
HonestUntouched ==
  Done /\ ~lost =>
    \A u \in Users : Honest(u) /\ totals[u] # None =>
      Reconciled(u) = totals[u].earned

(* What the rewards manual says of an index that did not move: to take the *)
(* rewards of that side for zero makes drift by rounding harmless.  The    *)
(* drift that is ignored there makes the claim of a user negative.         *)
DriftHarmless ==
  phase = "refused" /\ ~lost => why # "negative claimed"

(* What the rewards manual says earned is, whichever calls fail: rewards   *)
(* inside the range and the change of what is owed.  A failed read of the  *)
(* reward state before the range makes old debt earned.                    *)
EarnedAsStated ==
  Done /\ ~Partial /\ ~(\E m \in Markets : Drifts(m)) => ReportsEarned
=============================================================================
