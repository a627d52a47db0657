----------------------------- MODULE V2CompState -----------------------------
(***************************************************************************)
(* V2CompStateService, from which the V2 owes command takes the COMP that  *)
(* users of a market have earned and not been credited with yet, on the    *)
(* chain of module V2PeriodRewards.                                        *)
(*                                                                         *)
(* A page of users is read in two passes: first everybody's positions,     *)
(* then the reward indexes of those who hold one, and only on the sides    *)
(* where they do.  The answers of the second pass come as one flat list.   *)
(* A failed call costs the amount of its user, which is counted.           *)
(*                                                                         *)
(* Decoding errors are failed calls; warnings are left out.  The service   *)
(* keeps no state of its own: it is a function of the chain, of the page   *)
(* and of the calls that fail.                                             *)
(***************************************************************************)
EXTENDS V2PeriodRewards

Held(m, u, b) ==
  [supply |-> blocks[b].balance[<<m, u>>], borrow |-> Stored(blocks[b], m, u)]

(* readMarketBoundary: nothing unless both reward states, the state of the *)
(* cToken and a speed could be read.                                       *)
BoundaryRead(m, b, fails) ==
  IF fails \/ ~HasBoundary(b) \/ NoCToken(m, b) THEN None ELSE Boundary(m, b)

(* readPositions: the places in the page of the users with a position; the *)
(* map keeps their order.                                                  *)
Holders(m, page, b, unread) ==
  {k \in DOMAIN page : page[k] \notin unread /\ Held(m, page[k], b) # NoPending}

(* Sides on which an index is read.                                        *)
Wanted(position) == {side \in Sides : position[side] > 0}

(* The calls of readUserIndexes: for the k-th user of the page, of a side. *)
IndexCalls(m, page, b, holders) ==
  {c \in holders \X Sides : c[2] \in Wanted(Held(m, page[c[1]], b))}

(* Order in which calls are pushed: users of the page, supply first.       *)
Earlier(c, d) ==
  c[1] < d[1] \/ (c[1] = d[1] /\ c[2] = "supply" /\ d[2] = "borrow")

(* The flat list of the calls.                                             *)
CallList(calls) ==
  [n \in 1 .. Cardinality(calls) |->
     CHOOSE c \in calls : Cardinality({d \in calls : Earlier(d, c)}) = n - 1]

(* Mutant of Cursor: two answers per user, whatever was asked for.         *)
CursorFlat(m, page, b, holders, k) ==
  2 * Cardinality({j \in holders : j < k})

(* Answers taken by the users before the k-th of the page.                 *)
Cursor(m, page, b, holders, k) ==
  SumFunction([j \in {h \in holders : h < k} |->
                 Cardinality(Wanted(Held(m, page[j], b)))])

(* The index of the k-th user that is taken from the answers for a side,   *)
(* None if it is missing.  A side without a position has index 0.          *)
IndexTaken(m, page, b, holders, answers, k, side) ==
  LET wanted == Wanted(Held(m, page[k], b))
      at == Cursor(m, page, b, holders, k)
              + (IF side = "borrow" /\ "supply" \in wanted THEN 2 ELSE 1) IN
  IF side \notin wanted THEN 0
  ELSE IF at \in DOMAIN answers THEN answers[at] ELSE None

(* A user index above that of the market.                                  *)
Anomalous(boundary, indexes, side) ==
  boundary[side] < UserIndex(indexes[side], boundary[side])

PendingOnSide(m, u, b, boundary, indexes, side) ==
  IF Anomalous(boundary, indexes, side) THEN 0
  ELSE IF side = "supply"
  THEN PendingSupply(boundary[side], indexes[side], Held(m, u, b).supply)
  ELSE PendingBorrow(boundary[side], indexes[side], Held(m, u, b).borrow,
                     blocks[b].borrowIndex[m])

(* What the calls for indexes answer when these fail.                      *)
Answers(m, page, b, calls, failed) ==
  LET list == CallList(calls) IN
  [n \in DOMAIN list |->
     IF list[n] \in failed THEN None
     ELSE blocks[b].user[<<m, list[n][2]>>][page[list[n][1]]]]

(* readPendingByUser: unread are the users whose positions, failed the     *)
(* calls whose indexes could not be read.                                  *)
ReadPendingByUser(m, page, b, unread, failed) ==
  LET boundary == Boundary(m, b)
      holders == Holders(m, page, b, unread)
      answers == Answers(m, page, b, IndexCalls(m, page, b, holders), failed)
      indexes == [k \in holders |-> [side \in Sides |->
                    IndexTaken(m, page, b, holders, answers, k, side)]]
      known == {k \in holders : \A side \in Sides : indexes[k][side] # None} IN
  [pending |-> [u \in {page[k] : k \in known} |->
      LET k == CHOOSE j \in known : page[j] = u IN
      SumFunction([side \in Sides |->
                     PendingOnSide(m, u, b, boundary, indexes[k], side)])],
   failures |-> Cardinality(unread \cap Range(page)) +
                Cardinality(holders \ known),
   anomalies |-> SumFunction([k \in known |->
      Cardinality({side \in Sides : Anomalous(boundary, indexes[k], side)})])]

-----------------------------------------------------------------------------

Pages == {p \in [1 .. Cardinality(Users) -> Users] :
            \A i, j \in DOMAIN p : i # j => p[i] # p[j]}

(* Whichever calls fail, every user whose own calls were answered gets the *)
(* pending amount the Comptroller would credit, no other user gets any,    *)
(* and as many failures are counted as users went without: a read without  *)
(* failures adds up, with compAccrued, to what a claim would pay.  A       *)
(* closed position may be skipped, and no user index of a real chain is    *)
(* above the index of its market.                                          *)
PendingExact ==
  phase = "chain" =>
    \A m \in Markets, page \in Pages, unread \in SUBSET Users :
      BoundaryRead(m, LatestBlock, FALSE) # None =>
        LET b == LatestBlock
            calls == IndexCalls(m, page, b, Holders(m, page, b, unread)) IN
        \A failed \in SUBSET calls :
          LET read == ReadPendingByUser(m, page, b, unread, failed)
              without == unread \cup {page[c[1]] : c \in failed} IN
          /\ read.failures = Cardinality(without)
          /\ read.anomalies = 0
          /\ DOMAIN read.pending \cap without = {}
          /\ \A u \in Users \ without :
               (IF u \in DOMAIN read.pending THEN read.pending[u] ELSE 0) =
                 SumFunction([side \in Sides |-> OwedOn(<<m, side>>, u, b)])
=============================================================================
