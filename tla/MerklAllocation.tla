--------------------------- MODULE MerklAllocation ---------------------------
(***************************************************************************)
(* prepareGroup of MerklAirdropExportService: what the Merkl file of one   *)
(* network and reward token allocates, and the checks that refuse the      *)
(* whole export instead.                                                   *)
(*                                                                         *)
(* Rows are a function of <<market, user>>, totals a function of users,    *)
(* with the amounts earned, claimed, remaining and forPeriod; claimed is   *)
(* Unknown in a filtered V2 calculation, and V2 rows have only what was    *)
(* earned.  Addresses, symbols and the layout of the files are left out.   *)
(***************************************************************************)
EXTENDS Integers, Functions

(* A group that is refused, and one that pays nobody.                      *)
Refused == [refused |-> TRUE]
NoGroup == [refused |-> FALSE, rewards |-> [u \in {} |-> 0], allocation |-> 0,
            funding |-> 0]

UsersIn(rows) == {a[2] : a \in DOMAIN rows}
RowsOf(rows, u) == {a \in DOMAIN rows : a[2] = u}

(* One field of every row or total.                                        *)
Column(table, field) == [k \in DOMAIN table |-> table[k][field]]

(* What the file is to pay: all that is owed, or with --period no more     *)
(* than was earned in the period.                                          *)
PayableField(periodOnly) == IF periodOnly THEN "forPeriod" ELSE "remaining"
Payable(amounts, periodOnly) == amounts[PayableField(periodOnly)]

BadRow(version, row) ==
  IF version = 2 THEN row.earned <= 0
  ELSE \/ row.earned < 0 \/ row.claimed < 0 \/ row.remaining < 0 \/ row.forPeriod < 0
       \/ row.earned = 0 /\ row.claimed = 0 /\ row.remaining = 0

(* The rows of a user have to add up to the total; debt is attributed to   *)
(* markets in V3 only.                                                     *)
Attributed(version) ==
  IF version = 3 THEN {"earned", "claimed", "remaining", "forPeriod"} ELSE {"earned"}

BadTotal(version, rows, total, u) ==
  \E field \in Attributed(version) :
    SumFunctionOnSet(Column(rows, field), RowsOf(rows, u)) # total[field]

(* The amounts under the reasons of a user, a reason per Comet or a single *)
(* one for V2.                                                             *)
Rewarded(version, rows, totals, periodOnly, u) ==
  IF version = 2
  THEN IF u \in DOMAIN totals THEN Payable(totals[u], periodOnly) ELSE 0
  ELSE SumFunctionOnSet(Column(rows, PayableField(periodOnly)), RowsOf(rows, u))

CeilDiv(numerator, denominator) ==
  (numerator + denominator - 1) \div denominator

(* Merkl keeps 0.5% of what it is funded with.                             *)
FundingRequired(allocation) == CeilDiv(allocation * 200, 199)

PrepareGroup(version, rows, totals, periodOnly) ==
  LET users == UsersIn(rows) \cup DOMAIN totals
      paid == [u \in users |-> Rewarded(version, rows, totals, periodOnly, u)]
      allocation == SumFunction(paid) IN
  IF \/ \E a \in DOMAIN rows : BadRow(version, rows[a])
     \/ DOMAIN totals = {}
     \/ \E u \in DOMAIN totals : BadTotal(version, rows, totals[u], u)
     \/ \E u \in users \ DOMAIN totals : TRUE
     \/ \E u \in DOMAIN totals : paid[u] # 0 /\ paid[u] # Payable(totals[u], periodOnly)
     \/ SumFunction(Column(rows, "earned")) # SumFunction(Column(totals, "earned"))
     \/ allocation # SumFunction(Column(totals, PayableField(periodOnly)))
  THEN Refused
  ELSE [refused |-> FALSE,
        rewards |-> [u \in {v \in users : paid[v] > 0} |-> paid[u]],
        allocation |-> allocation,
        funding |-> FundingRequired(allocation)]

(* What the file pays to a user.                                           *)
RewardIn(group, u) == IF u \in DOMAIN group.rewards THEN group.rewards[u] ELSE 0
=============================================================================
