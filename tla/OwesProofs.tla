----------------------------- MODULE OwesProofs -----------------------------
(***************************************************************************)
(* Proofs about Owes, for all indexed entries, amounts, page sizes and     *)
(* numbers of workers, and both versions.                                  *)
(*                                                                         *)
(* A run publishes only what is complete (RefusedKeepsFiles): a failure is *)
(* counted long before the files are written, by another network, and      *)
(* perhaps while others still read.  PublishInv says that whoever writes   *)
(* files has seen every network through and no failure.                    *)
(*                                                                         *)
(* The rows are exact (RowsExact).  The invariant ExactInv says, for each  *)
(* network without a counted failure, what its pass has made so far of the *)
(* entries it is past: PendingOK of the first pass of version 2, UsersOK   *)
(* of the second, MarketsOK of version 3.  That a page is an interval of   *)
(* entries, and a market an interval of a page, needs the order in which   *)
(* the index hands them out; that pages add up needs that a sum over two   *)
(* sets apart is the sum of their sums (SumUnion).                         *)
(*                                                                         *)
(* The files agree (FilesAgree): FilesInv says that the totals are those   *)
(* of the table and the detail file is the beginning of its rows in order. *)
(***************************************************************************)
EXTENDS Owes, WellFoundedInduction, FiniteSetTheorems, TLAPS

Writing == {"totals", "open", "export", "close"}

(* Whoever writes files has seen every network through, and no failure.    *)
PublishInv ==
  phase \in Writing =>
    /\ failed = {}
    /\ \A n \in Networks : stage[n] = "done"

LEMMA PublishInvInit == Init => PublishInv
  BY DEF Init, PublishInv, Writing

(* While a network reads, nothing is written.                              *)
LEMMA ReadersKeep ==
  ASSUME NEW n \in Networks,
         \/ Take(n) \/ ReadPending(n) \/ EndPass(n)
         \/ ReadAccrued(n) \/ ReadOwed(n) \/ PageThrows(n)
  PROVE  phase' = "calc" /\ files' = files
<1>1. phase = "calc" /\ phase' = phase
  BY DEF Take, ReadPending, EndPass, ReadAccrued, ReadOwed, PageThrows, Reading
<1>2. files' = files
  BY DEF Take, ReadPending, EndPass, ReadAccrued, ReadOwed, PageThrows, files
<1> QED BY <1>1, <1>2

LEMMA PublishInvStep == PublishInv /\ [Next]_vars => PublishInv'
<1> SUFFICES ASSUME PublishInv, [Next]_vars PROVE PublishInv'
  OBVIOUS
<1>1. CASE Start
  BY <1>1 DEF Start, PublishInv, Writing
<1>2. CASE Stop
  BY <1>2 DEF Stop, PublishInv, Writing
<1>3. ASSUME NEW n \in Networks,
             \/ Take(n) \/ ReadPending(n) \/ EndPass(n)
             \/ ReadAccrued(n) \/ ReadOwed(n) \/ PageThrows(n)
      PROVE  PublishInv'
  <2>1. phase' = "calc"
    BY <1>3, ReadersKeep
  <2> QED BY <2>1 DEF PublishInv, Writing
<1>4. CASE FinishCalc
  BY <1>4 DEF FinishCalc, PublishInv, Writing, work
<1>5. CASE WriteTotals \/ OpenDetail \/ AppendDetail \/ CloseDetail
  <2>1. phase \in Writing /\ failed' = failed /\ stage' = stage
    BY <1>5 DEF WriteTotals, OpenDetail, AppendDetail, CloseDetail, Writing,
                work
  <2> QED BY <2>1 DEF PublishInv
<1>6. CASE UNCHANGED vars
  BY <1>6 DEF PublishInv, vars, work
<1> QED BY <1>1, <1>2, <1>3, <1>4, <1>5, <1>6 DEF Next, Progress

(* Files change only in the hands of a run that may write them.            *)
LEMMA WritersOnly ==
  ASSUME PublishInv, [Next]_vars
  PROVE  files' # files => failed = {}
<1>1. CASE Start \/ Stop \/ FinishCalc \/ UNCHANGED vars
  BY <1>1 DEF Start, Stop, FinishCalc, vars, files
<1>2. ASSUME NEW n \in Networks,
             \/ Take(n) \/ ReadPending(n) \/ EndPass(n)
             \/ ReadAccrued(n) \/ ReadOwed(n) \/ PageThrows(n)
      PROVE  files' = files
  BY <1>2, ReadersKeep
<1>3. CASE WriteTotals \/ OpenDetail \/ AppendDetail \/ CloseDetail
  <2>1. phase \in Writing
    BY <1>3 DEF WriteTotals, OpenDetail, AppendDetail, CloseDetail, Writing
  <2> QED BY <2>1 DEF PublishInv
<1> QED BY <1>1, <1>2, <1>3 DEF Next, Progress

LEMMA PublishInvAlways == Spec => []PublishInv
  BY PublishInvInit, PublishInvStep, PTL DEF Spec

(* A run that counted a failure in any network, page or pass leaves both   *)
(* files of the run before it as they are.                                 *)
THEOREM RefusalKeepsFiles == Spec => RefusedKeepsFiles
<1>1. PublishInv /\ [Next]_vars => [files' # files => failed = {}]_vars
  BY WritersOnly
<1> QED BY <1>1, PublishInvAlways, PTL DEF Spec, RefusedKeepsFiles

-----------------------------------------------------------------------------
(* What a pass has made so far.                                            *)

(* Positions of I at which network n has user u.                           *)
Of(n, I, u) == {i \in I : Entries[n][i][2] = u}

KeyAt(n, i) == <<n, Entries[n][i][1], Entries[n][i][2]>>

(* Rows of version 3 for the positions of I, rows of version 2 for the     *)
(* users of U.                                                             *)
MarketRows(n, b, I, skip) ==
  NotZero({Row(n, Entries[n][i][1], Entries[n][i][2], Due[b][n][i]) :
             i \in {j \in I : KeyAt(n, j) \notin skip}})

UserRows(n, b, U, skip) ==
  NotZero({Row(n, Comptroller, u,
               (IF <<n, Comptroller, u>> \in skip THEN 0 ELSE Accrued[b][n][u])
                 + SumAt(Due[b][n], Of(n, DOMAIN Entries[n], u))) : u \in U})

RowsOf(t, n) == {r \in t : r.network = n}

SkippedOf(skip, n) == {k \in skip : k[1] = n}

(* Below, network n at snapshot b: the entry a its pass is at, its pending *)
(* amounts p, the users written w, the table t, the keys whose reads were  *)
(* swallowed.                                                              *)
Untouched(n, t, skip) == RowsOf(t, n) = {} /\ SkippedOf(skip, n) = {}

PendingOK(n, b, a, p) ==
  \A u \in UsersOf(n) : p[u] = SumAt(Due[b][n], Of(n, 1 .. a - 1, u))

UsersOK(n, b, a, w, t, skip) ==
  /\ w = {Entries[n][i][2] : i \in 1 .. a - 1}
  /\ RowsOf(t, n) = UserRows(n, b, w, skip)
  /\ \A k \in SkippedOf(skip, n) : k[3] \in w

MarketsOK(n, b, a, t, skip) ==
  /\ RowsOf(t, n) = MarketRows(n, b, 1 .. a - 1, skip)
  /\ \A k \in SkippedOf(skip, n) : \E i \in 1 .. a - 1 : k = KeyAt(n, i)

All(n) == Len(Entries[n]) + 1

(* The same by version v and pass st.                                      *)
NetworkOK(n, v, b, st, a, p, w, t, skip) ==
  /\ st = "queued" => /\ a = 1 /\ w = {} /\ Untouched(n, t, skip)
                      /\ PendingOK(n, b, 1, p)
  /\ st = "pending" => /\ v = 2 /\ w = {} /\ Untouched(n, t, skip)
                       /\ PendingOK(n, b, a, p)
  /\ st = "owed" /\ v = 2 => /\ PendingOK(n, b, All(n), p)
                             /\ UsersOK(n, b, a, w, t, skip)
  /\ st = "owed" /\ v = 3 => MarketsOK(n, b, a, t, skip)
  /\ st = "done" /\ v = 2 => UsersOK(n, b, All(n), w, t, skip)
  /\ st = "done" /\ v = 3 => MarketsOK(n, b, All(n), t, skip)

(* A run is on, or the last one ended well.                                *)
Valid == phase # "ended" \/ exit = 0

Exact(n) ==
  NetworkOK(n, version, block, stage[n], at[n], pending[n], written[n], table,
            dropped)

ExactInv == Valid => \A n \in Networks \ failed : Exact(n)

(* The files follow the table.                                             *)
IsPage(d, q) ==
  /\ Len(d) <= Len(q)
  /\ \A i \in 1 .. Len(d) : d[i] = q[i]

FilesInv ==
  /\ exit = 0 => phase = "ended" /\ detail.closed /\ failed = {}
                 /\ \A n \in Networks : stage[n] = "done"
  /\ phase \in {"open", "export", "close"} \/ exit = 0 =>
       totals = TotalsOf(table)
  /\ phase = "export" => IsPage(detail.rows, Sorted(table))
  /\ phase = "close" \/ exit = 0 => detail.rows = Sorted(table)

TypeInv ==
  /\ TypeOK /\ IsFiniteSet(table)
  /\ at \in [Networks -> Nat]
  /\ pending = [n \in Networks |-> pending[n]]
  /\ written = [n \in Networks |-> written[n]]

-----------------------------------------------------------------------------
(* Least and greatest numbers.                                             *)

LEMMA MinLemma ==
  ASSUME NEW S \in SUBSET Nat, S # {}
  PROVE  \E x \in S : \A y \in S : x <= y
<1>1. PICK x \in S : \A y \in S : ~(<<y, x>> \in OpToRel(<, Nat))
  BY WFMin, NatLessThanWellFounded
<1>2. \A y \in S : ~(y < x) BY <1>1 DEF OpToRel
<1>3. QED BY <1>2

(* What holds at 0 and is passed on holds up to n.                         *)
LEMMA Induct ==
  ASSUME NEW n \in Nat, NEW S, 0 \in S,
         \A k \in 1 .. n : k - 1 \in S => k \in S
  PROVE  \A k \in 0 .. n : k \in S
<1> DEFINE B == {k \in 0 .. n : k \notin S}
<1> SUFFICES ASSUME B # {} PROVE FALSE OBVIOUS
<1>1. PICK x \in B : \A y \in B : x <= y
  <2>1. B \in SUBSET Nat OBVIOUS
  <2>2. QED BY <2>1, MinLemma
<1>2. x \in 1 .. n /\ x - 1 \in 0 .. n /\ x - 1 \notin B BY <1>1
<1>3. QED BY <1>1, <1>2

-----------------------------------------------------------------------------
(* Sums.                                                                   *)

IsSum(f, w, S) ==
  /\ f \in [0 .. Len(w) -> Nat]
  /\ f[0] = 0
  /\ \A k \in 1 .. Len(w) : f[k] = f[k - 1] + (IF k \in S THEN w[k] ELSE 0)

LEMMA SumExists ==
  ASSUME NEW w \in Seq(Nat), NEW S PROVE \E f : IsSum(f, w, S)
<1> DEFINE Upto(f, n) ==
             /\ f \in [0 .. n -> Nat]
             /\ f[0] = 0
             /\ \A k \in 1 .. n :
                  f[k] = f[k - 1] + (IF k \in S THEN w[k] ELSE 0)
           G == {n \in 0 .. Len(w) : \E f : Upto(f, n)}
<1>1. Len(w) \in Nat /\ \A k \in 1 .. Len(w) : w[k] \in Nat OBVIOUS
<1>2. 0 \in G
  <2> DEFINE z == [k \in 0 .. 0 |-> 0]
  <2>1. z \in [0 .. 0 -> Nat] /\ z[0] = 0 /\ 1 .. 0 = {} OBVIOUS
  <2> HIDE DEF z
  <2>2. Upto(z, 0) BY <2>1
  <2>3. 0 \in 0 .. Len(w) BY <1>1
  <2>4. QED BY <2>2, <2>3
<1>3. ASSUME NEW n \in 1 .. Len(w), n - 1 \in G PROVE n \in G
  <2>1. PICK f : Upto(f, n - 1) BY <1>3
  <2> DEFINE v == f[n - 1] + (IF n \in S THEN w[n] ELSE 0)
             g == [k \in 0 .. n |-> IF k = n THEN v ELSE f[k]]
  <2>2. n \in Nat /\ n - 1 \in 0 .. n - 1 /\ f[n - 1] \in Nat
    BY <1>1, <2>1
  <2>3. v \in Nat BY <1>1, <2>2
  <2>4. \A k \in 0 .. n : k # n => k \in 0 .. n - 1 BY <2>2
  <2>5. g \in [0 .. n -> Nat]
    <3> HIDE DEF v
    <3>1. QED BY <2>1, <2>3, <2>4
  <2>6. g[0] = 0 BY <2>1, <2>2
  <2>7. ASSUME NEW k \in 1 .. n
        PROVE  g[k] = g[k - 1] + (IF k \in S THEN w[k] ELSE 0)
    <3>1. k \in 0 .. n /\ k - 1 \in 0 .. n /\ k - 1 # n BY <2>2
    <3>2. g[k - 1] = f[k - 1] BY <3>1
    <3>3. CASE k = n
      <4>1. g[k] = v BY <3>1, <3>3
      <4>2. QED BY <3>2, <3>3, <4>1
    <3>4. CASE k # n
      <4>1. g[k] = f[k] /\ k \in 1 .. n - 1 BY <2>2, <3>1, <3>4
      <4>2. QED BY <2>1, <3>2, <4>1
    <3>5. QED BY <3>3, <3>4
  <2>8. Upto(g, n)
    <3> HIDE DEF g
    <3>1. QED BY <2>5, <2>6, <2>7
  <2> HIDE DEF g, v, Upto
  <2>9. QED BY <1>1, <2>8
<1>4. Len(w) \in G
  <2> HIDE DEF G
  <2>1. \A k \in 0 .. Len(w) : k \in G BY <1>1, <1>2, <1>3, Induct
  <2>2. QED BY <1>1, <2>1
<1>5. PICK f : Upto(f, Len(w)) BY <1>4
<1>6. QED BY <1>5 DEF IsSum

(* SumAt is the last of the partial sums.                                  *)
LEMMA SumIs ==
  ASSUME NEW w \in Seq(Nat), NEW S, NEW f, IsSum(f, w, S)
  PROVE  SumAt(w, S) = f[Len(w)]
<1> DEFINE body(g) == [k \in 0 .. Len(w) |->
             IF k = 0 THEN 0 ELSE g[k - 1] + (IF k \in S THEN w[k] ELSE 0)]
           h == CHOOSE g : g = body(g)
<1>1. Len(w) \in Nat OBVIOUS
<1>2. f = body(f)
  <2>1. ASSUME NEW k \in 0 .. Len(w) PROVE f[k] = body(f)[k]
    <3>1. CASE k = 0 BY <3>1 DEF IsSum
    <3>2. CASE k # 0
      <4>1. k \in 1 .. Len(w) BY <1>1, <3>2
      <4>2. QED BY <3>2, <4>1 DEF IsSum
    <3>3. QED BY <3>1, <3>2
  <2>2. DOMAIN f = 0 .. Len(w) /\ f = [k \in DOMAIN f |-> f[k]] BY DEF IsSum
  <2>3. QED BY <2>1, <2>2
<1>3. h = body(h)
  <2> HIDE DEF body
  <2>1. QED BY <1>2
<1>4. SumAt(w, S) = h[Len(w)] BY DEF SumAt
<1> HIDE DEF h
<1>5. \A k \in 0 .. Len(w) : h[k] = f[k]
  <2> DEFINE G == {n \in 0 .. Len(w) : h[n] = f[n]}
  <2>1. 0 \in G
    <3>1. 0 \in 0 .. Len(w) BY <1>1
    <3>2. h[0] = 0 BY <1>3, <3>1
    <3>3. QED BY <3>1, <3>2 DEF IsSum
  <2>2. ASSUME NEW n \in 1 .. Len(w), n - 1 \in G PROVE n \in G
    <3>1. n \in 0 .. Len(w) /\ n # 0 BY <1>1
    <3>2. h[n] = h[n - 1] + (IF n \in S THEN w[n] ELSE 0) BY <1>3, <3>1
    <3>3. QED BY <2>2, <3>1, <3>2 DEF IsSum
  <2> HIDE DEF G
  <2>3. \A k \in 0 .. Len(w) : k \in G BY <1>1, <2>1, <2>2, Induct
  <2>4. QED BY <2>3 DEF G
<1>6. QED BY <1>1, <1>4, <1>5

LEMMA SumNat ==
  ASSUME NEW w \in Seq(Nat), NEW S PROVE SumAt(w, S) \in Nat
<1>1. PICK f : IsSum(f, w, S) BY SumExists
<1>2. Len(w) \in 0 .. Len(w) OBVIOUS
<1>3. QED BY <1>1, <1>2, SumIs DEF IsSum

LEMMA SumEmpty ==
  ASSUME NEW w \in Seq(Nat), NEW S, \A k \in 1 .. Len(w) : k \notin S
  PROVE  SumAt(w, S) = 0
<1> DEFINE z == [k \in 0 .. Len(w) |-> 0]
<1>1. Len(w) \in Nat OBVIOUS
<1>2. IsSum(z, w, S)
  <2>1. \A k \in 1 .. Len(w) : k \in 0 .. Len(w) /\ k - 1 \in 0 .. Len(w)
    BY <1>1
  <2>2. QED BY <1>1, <2>1 DEF IsSum
<1>3. QED BY <1>1, <1>2, SumIs

(* The sum over two sets that have no position in common.                  *)
LEMMA SumUnion ==
  ASSUME NEW w \in Seq(Nat), NEW S, NEW T, S \cap T = {}
  PROVE  SumAt(w, S \cup T) = SumAt(w, S) + SumAt(w, T)
<1>1. PICK f : IsSum(f, w, S) BY SumExists
<1>2. PICK g : IsSum(g, w, T) BY SumExists
<1> DEFINE h == [k \in 0 .. Len(w) |-> f[k] + g[k]]
<1>3. Len(w) \in Nat OBVIOUS
<1>4. IsSum(h, w, S \cup T)
  <2>1. \A k \in 0 .. Len(w) : f[k] \in Nat /\ g[k] \in Nat
    BY <1>1, <1>2 DEF IsSum
  <2>2. h \in [0 .. Len(w) -> Nat] BY <2>1
  <2>3. h[0] = 0 BY <1>1, <1>2, <1>3 DEF IsSum
  <2>4. ASSUME NEW k \in 1 .. Len(w)
        PROVE  h[k] = h[k - 1] + (IF k \in S \cup T THEN w[k] ELSE 0)
    <3>1. k \in 0 .. Len(w) /\ k - 1 \in 0 .. Len(w) BY <1>3
    <3>2. w[k] \in Nat OBVIOUS
    <3>3. f[k] = f[k - 1] + (IF k \in S THEN w[k] ELSE 0) BY <1>1 DEF IsSum
    <3>4. g[k] = g[k - 1] + (IF k \in T THEN w[k] ELSE 0) BY <1>2 DEF IsSum
    <3>5. ~(k \in S /\ k \in T) OBVIOUS
    <3>6. h[k] = f[k] + g[k] /\ h[k - 1] = f[k - 1] + g[k - 1] BY <3>1
    <3> HIDE DEF h
    <3>7. QED BY <2>1, <3>1, <3>2, <3>3, <3>4, <3>5, <3>6, SMTT(30)
  <2> HIDE DEF h
  <2>5. QED BY <2>2, <2>3, <2>4 DEF IsSum
<1>5. h[Len(w)] = f[Len(w)] + g[Len(w)] BY <1>3
<1> HIDE DEF h
<1>6. QED BY <1>1, <1>2, <1>4, <1>5, SumIs

-----------------------------------------------------------------------------
(* Pages.                                                                  *)

(* A set of positions from a on without a gap.                             *)
LEMMA Interval ==
  ASSUME NEW a \in Nat, NEW l \in Nat, NEW G, G \subseteq a .. l, a \in G,
         \A i, j \in a .. l : i <= j /\ j \in G => i \in G
  PROVE  \E e \in a .. l : G = a .. e /\ Max(G) = e
<1> DEFINE D == {l - i : i \in G}
<1>1. D \in SUBSET Nat /\ D # {} OBVIOUS
<1>2. PICK d \in D : \A x \in D : d <= x
  <2> HIDE DEF D
  <2>1. QED BY <1>1, MinLemma
<1>3. PICK e \in G : d = l - e BY <1>2
<1>4. e \in a .. l BY <1>3
<1>5. \A i \in G : i <= e
  <2> SUFFICES ASSUME NEW i \in G PROVE i <= e OBVIOUS
  <2>1. i \in a .. l /\ l - i \in D OBVIOUS
  <2>2. l - e <= l - i BY <1>2, <1>3, <2>1
  <2>3. QED BY <1>4, <2>1, <2>2
<1>6. G = a .. e
  <2>1. \A i \in a .. e : i \in a .. l /\ i <= e BY <1>4
  <2>2. \A i \in a .. e : i \in G BY <1>3, <1>4, <2>1
  <2>3. \A i \in G : i \in a .. e BY <1>4, <1>5
  <2>4. QED BY <2>2, <2>3
<1>7. Max(G) = e
  <2>1. \E x \in G : \A y \in G : x >= y BY <1>3, <1>5, <1>4
  <2>2. Max(G) \in G /\ \A y \in G : Max(G) >= y BY <2>1 DEF Max
  <2>3. PICK m \in G : m = Max(G) BY <2>2
  <2>4. m \in a .. l /\ m >= e /\ m <= e BY <1>3, <1>5, <2>2, <2>3
  <2>5. QED BY <1>4, <2>3, <2>4
<1>8. QED BY <1>4, <1>6, <1>7

(* Positions on the way from one to another of a page are on it.           *)
LEMMA OnePage ==
  ASSUME NEW p \in Nat \ {0}, NEW x \in Nat, NEW y \in Nat, NEW z \in Nat,
         x <= y, y <= z, z \div p = x \div p
  PROVE  y \div p = x \div p
OBVIOUS

LEMMA EntryTypes ==
  ASSUME NEW n \in Networks
  PROVE  /\ Entries[n] \in Seq((Nat \ {0}) \X Nat)
         /\ Len(Entries[n]) \in Nat
         /\ DOMAIN Entries[n] = 1 .. Len(Entries[n])
         /\ \A i \in 1 .. Len(Entries[n]) :
              Entries[n][i] \in (Nat \ {0}) \X Nat
<1>1. n \in 1 .. Len(Entries) /\ Entries \in Seq(Seq((Nat \ {0}) \X Nat))
  BY OwesAssumption DEF Networks
<1>2. Entries[n] \in Seq((Nat \ {0}) \X Nat) BY <1>1
<1>3. QED BY <1>2

LEMMA RestIs ==
  ASSUME NEW n \in Networks, at[n] \in DOMAIN Entries[n]
  PROVE  \E e \in at[n] .. Len(Entries[n]) :
           RestOfPage(n) = at[n] .. e /\ Max(RestOfPage(n)) = e
<1> DEFINE a == at[n]  l == Len(Entries[n])  G == RestOfPage(n)
<1>1. l \in Nat /\ DOMAIN Entries[n] = 1 .. l BY EntryTypes
<1>2. a \in Nat /\ a \in 1 .. l BY <1>1
<1>3. Page \in Nat \ {0} BY OwesAssumption
<1>4. G \subseteq a .. l /\ a \in G BY <1>1, <1>2 DEF RestOfPage
<1>5. ASSUME NEW i \in a .. l, NEW j \in a .. l, i <= j, j \in G
      PROVE  i \in G
  <2>1. (j - 1) \div Page = (a - 1) \div Page BY <1>5 DEF RestOfPage
  <2>2. a - 1 \in Nat /\ i - 1 \in Nat /\ j - 1 \in Nat
        /\ a - 1 <= i - 1 /\ i - 1 <= j - 1
    BY <1>2, <1>5
  <2>3. (i - 1) \div Page = (a - 1) \div Page BY <1>3, <2>1, <2>2, OnePage
  <2>4. i \in DOMAIN Entries[n] /\ i >= a BY <1>1, <1>2
  <2>5. QED BY <2>3, <2>4 DEF RestOfPage
<1> HIDE DEF a, l, G
<1>6. \E e \in a .. l : G = a .. e /\ Max(G) = e
  <2>1. PICK b \in Nat : b = a BY <1>2
  <2>2. PICK k \in Nat : k = l BY <1>1
  <2>3. \A i, j \in b .. k : i <= j /\ j \in G => i \in G
    BY <1>5, <2>1, <2>2
  <2>4. G \subseteq b .. k /\ b \in G BY <1>4, <2>1, <2>2
  <2>5. \E y \in b .. k : G = b .. y /\ Max(G) = y
    BY <2>3, <2>4, Interval
  <2>6. QED BY <2>1, <2>2, <2>5
<1>7. QED BY <1>6 DEF a, l, G

(* Entries come by market.                                                 *)
LEMMA Ordered ==
  ASSUME NEW n \in Networks, NEW i \in DOMAIN Entries[n],
         NEW j \in DOMAIN Entries[n], i < j
  PROVE  /\ Entries[n][i][1] <= Entries[n][j][1]
         /\ KeyAt(n, i) # KeyAt(n, j)
<1>1. LET e == Entries[n][i]  f == Entries[n][j] IN
      e[1] < f[1] \/ (e[1] = f[1] /\ e[2] < f[2])
  BY OwesAssumption
<1>2. i \in 1 .. Len(Entries[n]) /\ j \in 1 .. Len(Entries[n]) BY EntryTypes
<1>3. /\ Entries[n][i] \in (Nat \ {0}) \X Nat
      /\ Entries[n][j] \in (Nat \ {0}) \X Nat
  BY <1>2, EntryTypes
<1>4. /\ Entries[n][i][1] \in Nat /\ Entries[n][i][2] \in Nat
      /\ Entries[n][j][1] \in Nat /\ Entries[n][j][2] \in Nat
  BY <1>3
<1>5. QED BY <1>1, <1>4 DEF KeyAt

LEMMA MarketIs ==
  ASSUME NEW n \in Networks, at[n] \in DOMAIN Entries[n]
  PROVE  \E e \in at[n] .. Len(Entries[n]) :
           MarketOfPage(n) = at[n] .. e /\ Max(MarketOfPage(n)) = e
<1> DEFINE a == at[n]  l == Len(Entries[n])  G == MarketOfPage(n)
<1>1. l \in Nat /\ DOMAIN Entries[n] = 1 .. l BY EntryTypes
<1>2. a \in Nat /\ a \in 1 .. l BY <1>1
<1>3. PICK e \in a .. l : RestOfPage(n) = a .. e BY RestIs
<1>4. G \subseteq a .. l /\ a \in G BY <1>1, <1>2, <1>3 DEF MarketOfPage
<1>5. ASSUME NEW i \in a .. l, NEW j \in a .. l, i <= j, j \in G
      PROVE  i \in G
  <2>1. j \in RestOfPage(n) /\ Entries[n][j][1] = Entries[n][a][1]
    BY <1>5 DEF MarketOfPage
  <2>2. i \in RestOfPage(n) BY <1>2, <1>3, <1>5, <2>1
  <2>3. i \in DOMAIN Entries[n] /\ j \in DOMAIN Entries[n] BY <1>1, <1>2
  <2>4. Entries[n][a][1] <= Entries[n][i][1]
    <3>1. CASE a = i
      <4>1. Entries[n][a] \in (Nat \ {0}) \X Nat BY <1>2, EntryTypes
      <4>2. QED BY <3>1, <4>1
    <3>2. CASE a < i BY <2>3, <3>2, Ordered
    <3>3. QED BY <1>2, <3>1, <3>2
  <2>5. Entries[n][i][1] <= Entries[n][j][1]
    <3>1. CASE i = j
      <4>1. Entries[n][i] \in (Nat \ {0}) \X Nat BY <1>2, EntryTypes
      <4>2. QED BY <3>1, <4>1
    <3>2. CASE i < j BY <2>3, <3>2, Ordered
    <3>3. QED BY <1>2, <1>5, <3>1, <3>2
  <2>6. /\ Entries[n][i] \in (Nat \ {0}) \X Nat
        /\ Entries[n][a] \in (Nat \ {0}) \X Nat
    BY <1>1, <1>2, <2>3, EntryTypes
  <2>7. Entries[n][i][1] = Entries[n][a][1] BY <2>1, <2>4, <2>5, <2>6
  <2>8. QED BY <2>2, <2>7 DEF MarketOfPage
<1> HIDE DEF a, l, G
<1>6. \E x \in a .. l : G = a .. x /\ Max(G) = x
  <2>1. PICK b \in Nat : b = a BY <1>2
  <2>2. PICK k \in Nat : k = l BY <1>1
  <2>3. \A i, j \in b .. k : i <= j /\ j \in G => i \in G
    BY <1>5, <2>1, <2>2
  <2>4. G \subseteq b .. k /\ b \in G BY <1>4, <2>1, <2>2
  <2>5. \E y \in b .. k : G = b .. y /\ Max(G) = y
    BY <2>3, <2>4, Interval
  <2>6. QED BY <2>1, <2>2, <2>5
<1>7. QED BY <1>6 DEF a, l, G

-----------------------------------------------------------------------------
(* Types.                                                                  *)

LEMMA Amounts ==
  ASSUME NEW b \in Blocks, NEW n \in Networks
  PROVE  /\ Due[b][n] \in Seq(Nat)
         /\ Len(Due[b][n]) = Len(Entries[n])
         /\ \A i \in DOMAIN Entries[n] : Due[b][n][i] \in Nat
         /\ \A u \in UsersOf(n) : Accrued[b][n][u] \in Nat
<1>1. Due[b] \in Seq(Seq(Nat)) /\ Accrued[b] \in Seq(Seq(Nat))
  BY OwesAssumption DEF Blocks
<1>2. n \in DOMAIN Due[b] /\ n \in DOMAIN Accrued[b] BY OwesAssumption
<1>3. Due[b][n] \in Seq(Nat) /\ Accrued[b][n] \in Seq(Nat) BY <1>1, <1>2
<1>4. DOMAIN Due[b][n] = DOMAIN Entries[n]
      /\ UsersOf(n) \subseteq DOMAIN Accrued[b][n]
  BY OwesAssumption
<1>5. Len(Due[b][n]) = Len(Entries[n])
  <2>1. /\ DOMAIN Due[b][n] = 1 .. Len(Due[b][n])
        /\ Len(Due[b][n]) \in Nat
    BY <1>3
  <2>2. /\ DOMAIN Entries[n] = 1 .. Len(Entries[n])
        /\ Len(Entries[n]) \in Nat
    BY EntryTypes
  <2>3. \A x, y \in Nat : 1 .. x = 1 .. y => x = y
    <3> SUFFICES ASSUME NEW x \in Nat, NEW y \in Nat, 1 .. x = 1 .. y, x < y
                 PROVE  FALSE
      OBVIOUS
    <3>1. y \in 1 .. y /\ y \notin 1 .. x OBVIOUS
    <3>2. QED BY <3>1
  <2>4. QED BY <1>4, <2>1, <2>2, <2>3
<1>6. \A i \in DOMAIN Entries[n] : Due[b][n][i] \in Nat BY <1>3, <1>4
<1>7. \A u \in UsersOf(n) : Accrued[b][n][u] \in Nat
  <2> SUFFICES ASSUME NEW u \in UsersOf(n) PROVE Accrued[b][n][u] \in Nat
    OBVIOUS
  <2>1. u \in DOMAIN Accrued[b][n] BY <1>4
  <2>2. QED BY <1>3, <2>1
<1>8. QED BY <1>3, <1>5, <1>6, <1>7

LEMMA UserTypes ==
  ASSUME NEW n \in Networks
  PROVE  /\ UsersOf(n) \subseteq Nat
         /\ \A i \in DOMAIN Entries[n] : /\ Entries[n][i][1] \in Nat \ {0}
                                         /\ Entries[n][i][2] \in UsersOf(n)
         /\ n \in Nat
<1>1. \A i \in DOMAIN Entries[n] : Entries[n][i] \in (Nat \ {0}) \X Nat
  BY EntryTypes
<1>2. Entries \in Seq(Seq((Nat \ {0}) \X Nat)) BY OwesAssumption
<1>3. QED BY <1>1, <1>2 DEF UsersOf, Networks

(* An image of finitely many positions, or users, is finite.               *)
LEMMA FiniteImage ==
  ASSUME NEW S, IsFiniteSet(S), NEW f, DOMAIN f = S
  PROVE  IsFiniteSet({f[x] : x \in S})
<1> DEFINE T == {f[x] : x \in S}
           g == [x \in S |-> f[x]]
<1>1. g \in Surjection(S, T) BY DEF Surjection
<1>2. QED BY <1>1, FS_Surjection

LEMMA FinitePositions ==
  ASSUME NEW n \in Networks, NEW I, I \subseteq DOMAIN Entries[n]
  PROVE  IsFiniteSet(I)
<1>1. DOMAIN Entries[n] = 1 .. Len(Entries[n]) /\ Len(Entries[n]) \in Nat
  BY EntryTypes
<1>2. IsFiniteSet(1 .. Len(Entries[n])) BY <1>1, FS_Interval
<1>3. QED BY <1>1, <1>2, FS_Subset

(* The table after an upsert.                                              *)
With(t, rows) == {r \in t : \A s \in rows : Key(r) # Key(s)} \union rows

LEMMA WithType ==
  ASSUME NEW t, IsFiniteSet(t), \A r \in t : r \in RowSet /\ r.owed > 0,
         NEW rows, IsFiniteSet(rows), rows \subseteq RowSet
  PROVE  /\ IsFiniteSet(With(t, NotZero(rows)))
         /\ \A r \in With(t, NotZero(rows)) : r \in RowSet /\ r.owed > 0
<1> DEFINE kept == {r \in t : \A s \in NotZero(rows) : Key(r) # Key(s)}
<1>1. kept \subseteq t /\ NotZero(rows) \subseteq rows BY DEF NotZero
<1>2. With(t, NotZero(rows)) = kept \cup NotZero(rows) BY DEF With
<1> HIDE DEF kept
<1>3. IsFiniteSet(kept) /\ IsFiniteSet(NotZero(rows)) BY <1>1, FS_Subset
<1>4. \A r \in NotZero(rows) : r \in RowSet /\ r.owed > 0
  <2>1. \A r \in RowSet : r.owed \in Nat BY DEF RowSet
  <2>2. \A r \in NotZero(rows) : r \in RowSet /\ r.owed # 0
    BY DEF NotZero
  <2>3. QED BY <2>1, <2>2
<1>5. QED BY <1>1, <1>2, <1>3, <1>4, FS_Union

LEMMA MarketRowsType ==
  ASSUME NEW n \in Networks, NEW b \in Blocks,
         NEW I, I \subseteq DOMAIN Entries[n]
  PROVE  LET rows == {Row(n, Entries[n][i][1], Entries[n][i][2], Due[b][n][i]) :
                        i \in I} IN
         IsFiniteSet(rows) /\ rows \subseteq RowSet
<1> DEFINE f == [i \in I |->
               Row(n, Entries[n][i][1], Entries[n][i][2], Due[b][n][i])]
<1>1. IsFiniteSet(I) BY FinitePositions
<1>2. IsFiniteSet({f[i] : i \in I})
  <2>1. DOMAIN f = I OBVIOUS
  <2> HIDE DEF f
  <2>2. QED BY <1>1, <2>1, FiniteImage
<1>3. {Row(n, Entries[n][i][1], Entries[n][i][2], Due[b][n][i]) : i \in I}
        = {f[i] : i \in I}
  OBVIOUS
<1>4. \A i \in I :
        Row(n, Entries[n][i][1], Entries[n][i][2], Due[b][n][i]) \in RowSet
  BY Amounts, UserTypes DEF Row, RowSet
<1>5. QED BY <1>2, <1>3, <1>4

LEMMA UserRowsType ==
  ASSUME NEW n \in Networks, NEW U, U \subseteq UsersOf(n),
         NEW owed, \A u \in U : owed[u] \in Nat
  PROVE  LET rows == {Row(n, Comptroller, u, owed[u]) : u \in U} IN
         IsFiniteSet(rows) /\ rows \subseteq RowSet
<1>1. IsFiniteSet(U)
  <2> DEFINE f == [i \in DOMAIN Entries[n] |-> Entries[n][i][2]]
  <2>1. IsFiniteSet(DOMAIN Entries[n]) BY FinitePositions
  <2>2. IsFiniteSet({f[i] : i \in DOMAIN Entries[n]})
    <3>1. DOMAIN f = DOMAIN Entries[n] OBVIOUS
    <3> HIDE DEF f
    <3>2. QED BY <2>1, <3>1, FiniteImage
  <2>3. UsersOf(n) = {f[i] : i \in DOMAIN Entries[n]} BY DEF UsersOf
  <2>4. QED BY <2>2, <2>3, FS_Subset
<1> DEFINE g == [u \in U |-> Row(n, Comptroller, u, owed[u])]
<1>2. IsFiniteSet({g[u] : u \in U})
  <2>1. DOMAIN g = U OBVIOUS
  <2> HIDE DEF g
  <2>2. QED BY <1>1, <2>1, FiniteImage
<1>3. {Row(n, Comptroller, u, owed[u]) : u \in U} = {g[u] : u \in U} OBVIOUS
<1>4. \A u \in U : Row(n, Comptroller, u, owed[u]) \in RowSet
  BY UserTypes DEF Row, RowSet, Comptroller
<1>5. QED BY <1>2, <1>3, <1>4

-----------------------------------------------------------------------------
(* Sorting.                                                                *)

LEMMA BeforeIsOrder ==
  /\ \A r \in RowSet : ~Before(r, r)
  /\ \A r, s \in RowSet : r = s \/ Before(r, s) \/ Before(s, r)
  /\ \A r, s, t \in RowSet : Before(r, s) /\ Before(s, t) => Before(r, t)
<1>1. \A r \in RowSet : /\ r.owed \in Nat /\ r.network \in Nat
                        /\ r.market \in Nat /\ r.user \in Nat
  BY UserTypes DEF RowSet
<1>2. \A r \in RowSet : ~Before(r, r) BY <1>1 DEF Before
<1>3. ASSUME NEW r \in RowSet, NEW s \in RowSet
      PROVE  r = s \/ Before(r, s) \/ Before(s, r)
  <2>1. CASE /\ r.owed = s.owed /\ r.network = s.network
             /\ r.market = s.market /\ r.user = s.user
    BY <2>1 DEF RowSet
  <2>2. CASE ~(/\ r.owed = s.owed /\ r.network = s.network
               /\ r.market = s.market /\ r.user = s.user)
    BY <1>1, <2>2 DEF Before
  <2>3. QED BY <2>1, <2>2
<1>4. ASSUME NEW r \in RowSet, NEW s \in RowSet, NEW t \in RowSet,
             Before(r, s), Before(s, t)
      PROVE  Before(r, t)
  BY <1>1, <1>4 DEF Before
<1>5. QED BY <1>2, <1>3, <1>4

(* A set of rows that is not empty has a first row.                        *)
LEMMA FirstExists ==
  ASSUME NEW rows, IsFiniteSet(rows), rows \subseteq RowSet, rows # {}
  PROVE  \E f \in rows : \A r \in rows \ {f} : Before(f, r)
<1> DEFINE First(R) == \E f \in R : \A r \in R \ {f} : Before(f, r)
           Bad(n) == \E R : /\ IsFiniteSet(R) /\ R \subseteq RowSet /\ R # {}
                            /\ Cardinality(R) = n /\ ~First(R)
           B == {n \in Nat : Bad(n)}
<1>1. SUFFICES B = {}
  <2>1. Cardinality(rows) \in Nat BY FS_CardinalityType
  <2>2. QED BY <1>1, <2>1
<1>2. SUFFICES ASSUME B # {} PROVE FALSE OBVIOUS
<1>3. PICK n \in Nat : Bad(n) /\ \A m \in Nat : m < n => ~Bad(m)
  <2>1. B \in SUBSET Nat OBVIOUS
  <2>2. PICK n \in B : \A x \in B : n <= x
    <3> HIDE DEF B
    <3>1. QED BY <1>2, <2>1, MinLemma
  <2> HIDE DEF Bad
  <2>3. n \in Nat /\ Bad(n) BY <2>2
  <2>4. \A m \in Nat : m < n => ~Bad(m) BY <2>2, <2>3
  <2>5. QED BY <2>3, <2>4
<1>4. PICK R : /\ IsFiniteSet(R) /\ R \subseteq RowSet /\ R # {}
               /\ Cardinality(R) = n /\ ~First(R)
  BY <1>3
<1>5. PICK x \in R : TRUE BY <1>4
<1> DEFINE S == R \ {x}
<1>6. IsFiniteSet(S) /\ Cardinality(S) = n - 1 /\ S \subseteq RowSet
  BY <1>4, <1>5, FS_RemoveElement
<1>7. S # {}
  <2>1. First({x}) OBVIOUS
  <2>2. R # {x} BY <1>4, <2>1
  <2>3. QED BY <1>5, <2>2
<1>8. n - 1 \in Nat /\ n - 1 < n
  <2>1. Cardinality(S) \in Nat BY <1>6, FS_CardinalityType
  <2>2. QED BY <1>6, <2>1
<1>9. First(S)
  <2>1. ~Bad(n - 1) BY <1>3, <1>8
  <2> HIDE DEF First, S
  <2>2. QED BY <1>6, <1>7, <2>1
<1>10. PICK y \in S : \A r \in S \ {y} : Before(y, r) BY <1>9
<1>11. x \in RowSet /\ y \in RowSet /\ x # y BY <1>4, <1>5, <1>10
<1>12. CASE Before(y, x)
  <2>1. \A r \in R \ {y} : Before(y, r) BY <1>10, <1>12
  <2>2. QED BY <1>4, <1>10, <2>1
<1>13. CASE Before(x, y)
  <2>1. \A r \in R \ {x} : r = y \/ (Before(y, r) /\ r \in RowSet)
    BY <1>4, <1>10
  <2>2. \A r \in R \ {x} : Before(x, r)
    BY <1>11, <1>13, <2>1, BeforeIsOrder
  <2>3. QED BY <1>4, <1>5, <2>2
<1>14. QED BY <1>11, <1>12, <1>13, BeforeIsOrder

InOrder(q) == \A i, j \in DOMAIN q : i < j => Before(q[i], q[j])

(* The rows can be put in order: a smallest set that could not be loses    *)
(* its first row.                                                          *)
LEMMA OrderExists ==
  ASSUME NEW rows, IsFiniteSet(rows), rows \subseteq RowSet
  PROVE  \E q \in [1 .. Cardinality(rows) -> rows] : InOrder(q)
<1> DEFINE Bad(n) == \E R : /\ IsFiniteSet(R) /\ R \subseteq RowSet
                            /\ Cardinality(R) = n
                            /\ ~ \E q \in [1 .. n -> R] : InOrder(q)
           B == {n \in Nat : Bad(n)}
<1>1. SUFFICES B = {}
  <2>1. Cardinality(rows) \in Nat BY FS_CardinalityType
  <2>2. QED BY <1>1, <2>1
<1>2. SUFFICES ASSUME B # {} PROVE FALSE OBVIOUS
<1>3. PICK n \in Nat : Bad(n) /\ \A m \in Nat : m < n => ~Bad(m)
  <2>1. B \in SUBSET Nat OBVIOUS
  <2>2. PICK n \in B : \A x \in B : n <= x
    <3> HIDE DEF B
    <3>1. QED BY <1>2, <2>1, MinLemma
  <2> HIDE DEF Bad
  <2>3. n \in Nat /\ Bad(n) BY <2>2
  <2>4. \A m \in Nat : m < n => ~Bad(m) BY <2>2, <2>3
  <2>5. QED BY <2>3, <2>4
<1>4. PICK R : /\ IsFiniteSet(R) /\ R \subseteq RowSet
               /\ Cardinality(R) = n
               /\ ~ \E q \in [1 .. n -> R] : InOrder(q)
  BY <1>3
<1>5. CASE R = {}
  <2>1. n = 0 BY <1>4, <1>5, FS_EmptySet
  <2>2. 1 .. n = {} BY <2>1
  <2> DEFINE q == [i \in 1 .. n |-> i]
  <2>3. q \in [1 .. n -> R] /\ InOrder(q) BY <2>2 DEF InOrder
  <2>4. QED BY <1>4, <2>3
<1>6. CASE R # {}
  <2>1. PICK first \in R : \A r \in R \ {first} : Before(first, r)
    BY <1>4, <1>6, FirstExists
  <2> DEFINE S == R \ {first}
  <2>2. IsFiniteSet(S) /\ Cardinality(S) = n - 1 /\ S \subseteq RowSet
    BY <1>4, FS_RemoveElement
  <2>3. n - 1 \in Nat /\ n - 1 < n
    <3>1. Cardinality(S) \in Nat BY <2>2, FS_CardinalityType
    <3>2. QED BY <2>2, <3>1
  <2>4. PICK q \in [1 .. n - 1 -> S] : InOrder(q)
    <3>1. ~Bad(n - 1) BY <1>3, <2>3
    <3> HIDE DEF S
    <3>2. QED BY <2>2, <3>1
  <2> DEFINE z == [i \in 1 .. n |-> IF i = 1 THEN first ELSE q[i - 1]]
  <2>5. \A i \in 1 .. n : i # 1 => i - 1 \in 1 .. n - 1 OBVIOUS
  <2>6. z \in [1 .. n -> R] BY <2>5
  <2>7. ASSUME NEW i \in 1 .. n, NEW j \in 1 .. n, i < j
        PROVE  Before(z[i], z[j])
    <3>1. j # 1 /\ j - 1 \in 1 .. n - 1 /\ q[j - 1] \in S
          /\ z[j] = q[j - 1]
      BY <2>7
    <3>2. CASE i = 1
      <4>1. z[i] = first BY <3>2
      <4>2. QED BY <2>1, <3>1, <4>1
    <3>3. CASE i # 1
      <4>1. i - 1 \in 1 .. n - 1 /\ i - 1 < j - 1 /\ z[i] = q[i - 1]
        BY <2>7, <3>3
      <4>2. DOMAIN q = 1 .. n - 1 OBVIOUS
      <4> HIDE DEF z
      <4>3. QED BY <2>4, <3>1, <4>1, <4>2 DEF InOrder
    <3>4. QED BY <3>2, <3>3
  <2>8. InOrder(z)
    <3>1. DOMAIN z = 1 .. n OBVIOUS
    <3> HIDE DEF z
    <3>2. QED BY <2>7, <3>1 DEF InOrder
  <2>9. QED BY <1>4, <2>6, <2>8
<1>7. QED BY <1>5, <1>6

LEMMA IsASeq ==
  ASSUME NEW n \in Nat, NEW S, NEW q \in [1 .. n -> S]
  PROVE  q \in Seq(S) /\ Len(q) = n
OBVIOUS

(* What the export pages through: all rows, in order.                      *)
LEMMA SortedLemma ==
  ASSUME NEW rows, IsFiniteSet(rows), rows \subseteq RowSet
  PROVE  /\ Sorted(rows) \in Seq(rows)
         /\ InOrder(Sorted(rows))
         /\ ToSet(Sorted(rows)) = rows
<1> DEFINE n == Cardinality(rows)
<1>1. n \in Nat BY FS_CardinalityType
<1>2. PICK q : q = Sorted(rows) OBVIOUS
<1>3. q \in [1 .. n -> rows] /\ InOrder(q)
  BY <1>2, OrderExists DEF Sorted, InOrder
<1>4. q \in Seq(rows) /\ Len(q) = n BY <1>1, <1>3, IsASeq
<1>5. q \in Injection(1 .. n, rows)
  <2> SUFFICES ASSUME NEW i \in 1 .. n, NEW j \in 1 .. n, q[i] = q[j]
               PROVE  i = j
    BY <1>3 DEF Injection, IsInjective
  <2>1. i < j \/ j < i \/ i = j BY <1>1
  <2>2. q[i] \in RowSet /\ ~Before(q[i], q[i]) BY <1>3, BeforeIsOrder
  <2>3. DOMAIN q = 1 .. n BY <1>3
  <2>4. QED BY <1>3, <2>1, <2>2, <2>3 DEF InOrder
<1>6. q \in Surjection(1 .. n, rows)
  <2>1. IsFiniteSet(1 .. n) /\ Cardinality(1 .. n) = n
    BY <1>1, FS_Interval
  <2>2. QED BY <1>5, <2>1, FS_Injection
<1>7. ToSet(q) = rows
  <2>1. \A r \in rows : \E j \in 1 .. n : q[j] = r BY <1>6 DEF Surjection
  <2>2. DOMAIN q = 1 .. n BY <1>3
  <2>3. QED BY <1>3, <2>1, <2>2 DEF ToSet
<1>8. QED BY <1>2, <1>3, <1>4, <1>7

-----------------------------------------------------------------------------
(* Every step keeps the types.                                             *)

LEMMA TypeInvInit == Init => TypeInv
<1> SUFFICES ASSUME Init PROVE TypeInv OBVIOUS
<1>1. 1 \in Blocks
  <2>1. Due \in Seq(Seq(Seq(Nat))) /\ Due # <<>> BY OwesAssumption
  <2>2. QED BY <2>1 DEF Blocks
<1>2. \A n \in Networks : at[n] \in 1 .. Len(Entries[n]) + 1
  BY EntryTypes DEF Init
<1>3. \A n \in Networks : /\ pending[n] \in [UsersOf(n) -> Nat]
                          /\ written[n] \subseteq UsersOf(n)
  BY DEF Init, NoPending
<1>4. /\ stage \in [Networks -> {"queued", "pending", "owed", "done"}]
      /\ at \in [Networks -> Nat]
      /\ pending = [n \in Networks |-> pending[n]]
      /\ written = [n \in Networks |-> written[n]]
  BY DEF Init, NoPending
<1>5. IsFiniteSet(table) BY FS_EmptySet DEF Init
<1>6. TypeOK BY <1>1, <1>2, <1>3, <1>4 DEF Init, TypeOK
<1>7. QED BY <1>4, <1>5, <1>6 DEF TypeInv

(* A process starts or dies.                                               *)
LEMMA FreshTypes ==
  ASSUME FreshMemory
  PROVE  /\ stage' \in [Networks -> {"queued", "pending", "owed", "done"}]
         /\ at' \in [Networks -> Nat]
         /\ pending' = [n \in Networks |-> pending'[n]]
         /\ written' = [n \in Networks |-> written'[n]]
         /\ failed' \subseteq Networks
         /\ \A n \in Networks :
              /\ at'[n] \in 1 .. Len(Entries[n]) + 1
              /\ pending'[n] \in [UsersOf(n) -> Nat]
              /\ written'[n] \subseteq UsersOf(n)
<1>1. \A n \in Networks : at'[n] \in 1 .. Len(Entries[n]) + 1
  BY EntryTypes DEF FreshMemory
<1>2. \A n \in Networks : /\ pending'[n] \in [UsersOf(n) -> Nat]
                          /\ written'[n] \subseteq UsersOf(n)
  BY DEF FreshMemory, NoPending
<1>3. QED BY <1>1, <1>2 DEF FreshMemory, NoPending

LEMMA StartTypes == ASSUME TypeInv, Start PROVE TypeInv'
<1>1. block' \in Blocks /\ phase' = "calc" /\ exit' = None
      /\ version' = version /\ files' = files /\ table' = {}
  BY DEF Start
<1>2. IsFiniteSet(table') BY <1>1, FS_EmptySet
<1>3. FreshMemory BY DEF Start
<1>4. TypeOK'
  BY <1>1, <1>3, FreshTypes DEF TypeInv, TypeOK, files
<1>5. QED BY <1>2, <1>3, <1>4, FreshTypes DEF TypeInv

LEMMA StopTypes == ASSUME TypeInv, Stop PROVE TypeInv'
<1>1. block' = block /\ phase' = "ended" /\ exit' = 1
      /\ version' = version /\ files' = files /\ table' = table
  BY DEF Stop
<1>2. FreshMemory BY DEF Stop
<1>3. TypeOK'
  BY <1>1, <1>2, FreshTypes DEF TypeInv, TypeOK, files
<1>4. QED BY <1>1, <1>2, <1>3, FreshTypes DEF TypeInv

(* One entry of a function of networks changes.                            *)
LEMMA PastTypes ==
  ASSUME TypeInv, NEW n \in Networks, at[n] \in DOMAIN Entries[n],
         NEW e \in at[n] .. Len(Entries[n]),
         at' = [at EXCEPT ![n] = e + 1]
  PROVE  /\ at' \in [Networks -> Nat]
         /\ \A k \in Networks : at'[k] \in 1 .. Len(Entries[k]) + 1
         /\ at'[n] = e + 1 /\ \A k \in Networks \ {n} : at'[k] = at[k]
<1>1. Len(Entries[n]) \in Nat /\ at[n] \in 1 .. Len(Entries[n])
  BY EntryTypes
<1>2. e + 1 \in 1 .. Len(Entries[n]) + 1 /\ e + 1 \in Nat BY <1>1
<1>3. at \in [Networks -> Nat] BY DEF TypeInv
<1>4. at'[n] = e + 1 /\ \A k \in Networks \ {n} : at'[k] = at[k] BY <1>3
<1>5. at' \in [Networks -> Nat] BY <1>2, <1>3
<1>6. \A k \in Networks : at[k] \in 1 .. Len(Entries[k]) + 1
  BY DEF TypeInv, TypeOK
<1>7. QED BY <1>2, <1>4, <1>5, <1>6

LEMMA TakeTypes ==
  ASSUME TypeInv, NEW n \in Networks, Take(n) \/ EndPass(n) PROVE TypeInv'
<1>1. stage' \in [Networks -> {"queued", "pending", "owed", "done"}]
  <2>1. stage \in [Networks -> {"queued", "pending", "owed", "done"}]
    BY DEF TypeInv, TypeOK
  <2>2. \E s \in {"queued", "pending", "owed", "done"} :
          stage' = [stage EXCEPT ![n] = s]
    BY <2>1 DEF Take, EndPass
  <2>3. QED BY <2>1, <2>2
<1>2. /\ at' \in [Networks -> Nat]
      /\ \A k \in Networks : at'[k] \in 1 .. Len(Entries[k]) + 1
  <2>1. at' = at \/ at' = [at EXCEPT ![n] = 1] BY DEF Take, EndPass
  <2>2. /\ at \in [Networks -> Nat]
        /\ \A k \in Networks : at[k] \in 1 .. Len(Entries[k]) + 1
    BY DEF TypeInv, TypeOK
  <2>3. 1 \in 1 .. Len(Entries[n]) + 1 BY EntryTypes
  <2>4. QED BY <2>1, <2>2, <2>3
<1>3. UNCHANGED <<version, block, phase, exit, pending, written, failed, table,
                  files>>
  BY DEF Take, EndPass
<1>4. QED BY <1>1, <1>2, <1>3 DEF TypeInv, TypeOK, files

LEMMA ReadPendingTypes ==
  ASSUME TypeInv, NEW n \in Networks, ReadPending(n) PROVE TypeInv'
<1>1. at[n] \in DOMAIN Entries[n] /\ Past(n, MarketOfPage(n))
  BY DEF ReadPending, Reading
<1>2. PICK e \in at[n] .. Len(Entries[n]) : Max(MarketOfPage(n)) = e
  BY <1>1, MarketIs
<1>3. at' = [at EXCEPT ![n] = e + 1] BY <1>1, <1>2 DEF Past
<1>4. /\ at' \in [Networks -> Nat]
      /\ \A k \in Networks : at'[k] \in 1 .. Len(Entries[k]) + 1
  BY <1>1, <1>3, PastTypes
<1>5. PICK F \in SUBSET MarketOfPage(n) :
        /\ pending' = [pending EXCEPT ![n] =
             [u \in UsersOf(n) |-> @[u] +
                SumAt(Due[block][n], {i \in MarketOfPage(n) \ F :
                                        Entries[n][i][2] = u})]]
        /\ failed' = IF F = {} THEN failed ELSE failed \union {n}
  BY DEF ReadPending
<1>6. failed' \subseteq Networks BY <1>5 DEF TypeInv, TypeOK
<1> DEFINE p == [u \in UsersOf(n) |-> pending[n][u] +
                   SumAt(Due[block][n], {i \in MarketOfPage(n) \ F :
                                           Entries[n][i][2] = u})]
<1>7. pending' = [pending EXCEPT ![n] = p] BY <1>5
<1>8. p \in [UsersOf(n) -> Nat]
  <2> SUFFICES ASSUME NEW u \in UsersOf(n),
                      NEW S
               PROVE  pending[n][u] + SumAt(Due[block][n], S) \in Nat
    OBVIOUS
  <2>1. pending[n][u] \in Nat BY DEF TypeInv, TypeOK
  <2>2. block \in Blocks BY DEF TypeInv, TypeOK
  <2>3. Due[block][n] \in Seq(Nat) BY <2>2, Amounts
  <2>4. SumAt(Due[block][n], S) \in Nat BY <2>3, SumNat
  <2>5. QED BY <2>1, <2>4
<1> HIDE DEF p
<1>9. /\ pending' = [k \in Networks |-> pending'[k]]
      /\ \A k \in Networks : pending'[k] \in [UsersOf(k) -> Nat]
  <2>1. /\ pending = [k \in Networks |-> pending[k]]
        /\ \A k \in Networks : pending[k] \in [UsersOf(k) -> Nat]
    BY DEF TypeInv, TypeOK
  <2>2. QED BY <1>7, <1>8, <2>1
<1>10. UNCHANGED <<version, block, phase, exit, stage, written, table, files>>
  BY DEF ReadPending
<1>11. QED BY <1>4, <1>6, <1>9, <1>10 DEF TypeInv, TypeOK, files

(* The three ways to go over a page.                                       *)
LEMMA PagePast ==
  ASSUME TypeInv, NEW n \in Networks, at[n] \in DOMAIN Entries[n],
         Past(n, RestOfPage(n))
  PROVE  /\ at' \in [Networks -> Nat]
         /\ \A k \in Networks : at'[k] \in 1 .. Len(Entries[k]) + 1
<1>1. PICK e \in at[n] .. Len(Entries[n]) : Max(RestOfPage(n)) = e
  BY RestIs
<1>2. at' = [at EXCEPT ![n] = e + 1] BY <1>1 DEF Past
<1>3. QED BY <1>2, PastTypes

LEMMA PageThrowsTypes ==
  ASSUME TypeInv, NEW n \in Networks, PageThrows(n) PROVE TypeInv'
<1>1. at[n] \in DOMAIN Entries[n] /\ Past(n, RestOfPage(n))
  BY DEF PageThrows, Reading
<1>2. failed' \subseteq Networks BY DEF PageThrows, TypeInv, TypeOK
<1>3. UNCHANGED <<version, block, phase, exit, stage, pending, written, table,
                  files>>
  BY DEF PageThrows
<1>4. QED BY <1>1, <1>2, <1>3, PagePast DEF TypeInv, TypeOK, files

LEMMA ReadOwedTypes ==
  ASSUME TypeInv, NEW n \in Networks, ReadOwed(n) PROVE TypeInv'
<1>1. at[n] \in DOMAIN Entries[n] /\ Past(n, RestOfPage(n))
  BY DEF ReadOwed, Reading
<1>2. PICK D \in SUBSET RestOfPage(n) :
        Upsert(NotZero({Row(n, Entries[n][i][1], Entries[n][i][2],
                            Due[block][n][i]) : i \in RestOfPage(n) \ D}))
  BY DEF ReadOwed
<1> DEFINE I == RestOfPage(n) \ D
           rows == {Row(n, Entries[n][i][1], Entries[n][i][2],
                        Due[block][n][i]) : i \in I}
<1>3. table' = With(table, NotZero(rows)) BY <1>2 DEF Upsert, With
<1>4. block \in Blocks /\ I \subseteq DOMAIN Entries[n]
  BY DEF TypeInv, TypeOK, RestOfPage
<1>5. IsFiniteSet(rows) /\ rows \subseteq RowSet
  <2> HIDE DEF I
  <2>1. QED BY <1>4, MarketRowsType
<1> HIDE DEF rows
<1>6. IsFiniteSet(table) /\ \A r \in table : r \in RowSet /\ r.owed > 0
  BY DEF TypeInv, TypeOK
<1>7. IsFiniteSet(table') /\ \A r \in table' : r \in RowSet /\ r.owed > 0
  BY <1>3, <1>5, <1>6, WithType
<1>8. UNCHANGED <<version, block, phase, exit, stage, pending, written, failed,
                  files>>
  BY DEF ReadOwed
<1>9. QED BY <1>1, <1>7, <1>8, PagePast DEF TypeInv, TypeOK, files

LEMMA ReadAccruedTypes ==
  ASSUME TypeInv, NEW n \in Networks, ReadAccrued(n) PROVE TypeInv'
<1> DEFINE U == {Entries[n][i][2] : i \in RestOfPage(n)} \ written[n]
<1>1. at[n] \in DOMAIN Entries[n] /\ Past(n, RestOfPage(n))
  BY DEF ReadAccrued, Reading
<1>2. PICK D \in SUBSET U :
        Upsert(NotZero({Row(n, Comptroller, u,
                            (IF u \in D THEN 0 ELSE Accrued[block][n][u])
                              + pending[n][u]) : u \in U}))
  BY DEF ReadAccrued
<1> DEFINE owed == [u \in U |->
                      (IF u \in D THEN 0 ELSE Accrued[block][n][u])
                        + pending[n][u]]
           rows == {Row(n, Comptroller, u, owed[u]) : u \in U}
<1>3. table' = With(table, NotZero(rows))
  <2>1. rows = {Row(n, Comptroller, u,
                    (IF u \in D THEN 0 ELSE Accrued[block][n][u])
                      + pending[n][u]) : u \in U}
    OBVIOUS
  <2> HIDE DEF U, rows
  <2>2. QED BY <1>2, <2>1 DEF Upsert, With
<1>4. block \in Blocks /\ U \subseteq UsersOf(n)
  BY DEF TypeInv, TypeOK, RestOfPage, UsersOf
<1>5. \A u \in U : owed[u] \in Nat
  <2> SUFFICES ASSUME NEW u \in UsersOf(n)
               PROVE  (IF u \in D THEN 0 ELSE Accrued[block][n][u])
                        + pending[n][u] \in Nat
    BY <1>4
  <2>1. Accrued[block][n][u] \in Nat BY <1>4, Amounts
  <2>2. pending[n][u] \in Nat BY DEF TypeInv, TypeOK
  <2>3. QED BY <2>1, <2>2
<1>6. IsFiniteSet(rows) /\ rows \subseteq RowSet
  <2> HIDE DEF U, owed
  <2>1. QED BY <1>4, <1>5, UserRowsType
<1>7. written' = [written EXCEPT ![n] = @ \union U] BY DEF ReadAccrued
<1> HIDE DEF rows, U
<1>8. IsFiniteSet(table) /\ \A r \in table : r \in RowSet /\ r.owed > 0
  BY DEF TypeInv, TypeOK
<1>9. IsFiniteSet(table') /\ \A r \in table' : r \in RowSet /\ r.owed > 0
  BY <1>3, <1>6, <1>8, WithType
<1>10. /\ written' = [k \in Networks |-> written'[k]]
       /\ \A k \in Networks : written'[k] \subseteq UsersOf(k)
  <2>1. /\ written = [k \in Networks |-> written[k]]
        /\ \A k \in Networks : written[k] \subseteq UsersOf(k)
    BY DEF TypeInv, TypeOK
  <2>2. QED BY <1>4, <1>7, <2>1
<1>11. UNCHANGED <<version, block, phase, exit, stage, pending, failed, files>>
  BY DEF ReadAccrued
<1>12. QED BY <1>1, <1>9, <1>10, <1>11, PagePast DEF TypeInv, TypeOK, files

(* The page that is fetched is the next part of the sorted table.          *)
LEMMA FetchIs ==
  ASSUME IsFiniteSet(table), table \subseteq RowSet,
         NEW o \in Nat, o <= Len(Sorted(table))
  PROVE  LET q == Sorted(table)
             f == FetchPage(o) IN
         /\ f \in Seq(table)
         /\ Len(f) = (IF o + ExportPage <= Len(q) THEN ExportPage
                                                  ELSE Len(q) - o)
         /\ \A i \in 1 .. Len(f) : f[i] = q[o + i]
<1> DEFINE q == Sorted(table)
           m == Min({o + ExportPage, Len(q)})
<1>1. q \in Seq(table) /\ Len(q) \in Nat BY SortedLemma
<1>2. ExportPage \in Nat BY OwesAssumption
<1>3. m = IF o + ExportPage <= Len(q) THEN o + ExportPage ELSE Len(q)
  <2>1. PICK a \in Nat : a = o + ExportPage BY <1>2
  <2>2. PICK b \in Nat : b = Len(q) BY <1>1
  <2>3. Min({a, b}) = IF a <= b THEN a ELSE b
    <3>1. CASE a <= b
      <4>1. \A x \in {a, b} : (\A y \in {a, b} : x <= y) <=> x = a BY <3>1
      <4>2. QED BY <3>1, <4>1 DEF Min
    <3>2. CASE ~(a <= b)
      <4>1. \A x \in {a, b} : (\A y \in {a, b} : x <= y) <=> x = b BY <3>2
      <4>2. QED BY <3>2, <4>1 DEF Min
    <3>3. QED BY <3>1, <3>2
  <2>4. QED BY <2>1, <2>2, <2>3
<1>4. FetchPage(o) = SubSeq(q, o + 1, m) BY DEF FetchPage
<1> HIDE DEF q, m
<1>5. m \in Nat /\ m <= Len(q) /\ o <= m BY <1>1, <1>2, <1>3 DEF q
<1>6. SubSeq(q, o + 1, m) = [i \in 1 .. m - o |-> q[o + i]]
  BY <1>1, <1>5
<1>7. \A i \in 1 .. m - o : o + i \in 1 .. Len(q) /\ q[o + i] \in table
  BY <1>1, <1>5
<1>8. PICK k \in Nat : k = m - o BY <1>5
<1>9. PICK f : f = FetchPage(o) OBVIOUS
<1>10. f = [i \in 1 .. k |-> q[o + i]] BY <1>4, <1>6, <1>8, <1>9
<1>11. f \in Seq(table) /\ Len(f) = k
  <2>1. f \in [1 .. k -> table] BY <1>7, <1>8, <1>10
  <2>2. QED BY <2>1, IsASeq
<1>12. k = IF o + ExportPage <= Len(q) THEN ExportPage ELSE Len(q) - o
  BY <1>1, <1>2, <1>3, <1>5, <1>8
<1>13. \A i \in 1 .. Len(f) : f[i] = q[o + i] BY <1>10, <1>11
<1>14. QED BY <1>9, <1>11, <1>12, <1>13 DEF q

-----------------------------------------------------------------------------
(* Every step keeps the files in line with the table.                      *)

LEMMA TableTypes ==
  TypeInv => IsFiniteSet(table) /\ table \subseteq RowSet
BY DEF TypeInv, TypeOK

(* The next page is appended to what the file has.                         *)
LEMMA AppendLemma ==
  ASSUME TypeInv, FilesInv, AppendDetail
  PROVE  TypeInv' /\ FilesInv'
<1> DEFINE q == Sorted(table)
           d == detail.rows
<1>1. q \in Seq(table) /\ Len(q) \in Nat BY TableTypes, SortedLemma
<1>2. d \in Seq(RowSet) /\ Len(d) \in Nat BY DEF TypeInv, TypeOK
<1>3. phase = "export" /\ IsPage(d, q) BY DEF AppendDetail, FilesInv
<1>4. Len(d) <= Len(q) BY <1>3 DEF IsPage
<1>5. PICK f : f = FetchPage(Len(d)) OBVIOUS
<1>6. /\ f \in Seq(table)
      /\ Len(f) = (IF Len(d) + ExportPage <= Len(q) THEN ExportPage
                                                   ELSE Len(q) - Len(d))
      /\ \A i \in 1 .. Len(f) : f[i] = q[Len(d) + i]
  <2> HIDE DEF d
  <2>1. QED BY <1>2, <1>4, <1>5, TableTypes, FetchIs
<1>7. /\ detail' = [detail EXCEPT !.rows = d \o f]
      /\ phase' = IF Len(f) < ExportPage THEN "close" ELSE "export"
  BY <1>5 DEF AppendDetail
<1>8. UNCHANGED <<version, block, exit, work, totals>> BY DEF AppendDetail
<1>9. detail'.rows = d \o f
  BY <1>7 DEF TypeInv, TypeOK
<1> HIDE DEF q, d
<1>10. ExportPage \in Nat /\ Len(f) \in Nat
  BY <1>6, OwesAssumption
<1>11. f \in Seq(RowSet) BY <1>6, TableTypes
<1>12. d \o f \in Seq(RowSet) /\ Len(d \o f) = Len(d) + Len(f)
  BY <1>2, <1>11
<1>13. \A i \in 1 .. Len(d) + Len(f) : (d \o f)[i] = q[i]
  <2> SUFFICES ASSUME NEW i \in 1 .. Len(d) + Len(f)
               PROVE  (d \o f)[i] = q[i]
    OBVIOUS
  <2>1. (d \o f)[i] = IF i <= Len(d) THEN d[i] ELSE f[i - Len(d)]
    BY <1>2, <1>11
  <2>2. CASE i <= Len(d)
    <3>1. i \in 1 .. Len(d) BY <1>2, <2>2
    <3>2. QED BY <1>3, <2>1, <2>2, <3>1 DEF IsPage
  <2>3. CASE ~(i <= Len(d))
    <3>1. i - Len(d) \in 1 .. Len(f) /\ Len(d) + (i - Len(d)) = i
      BY <1>2, <1>10, <2>3
    <3>2. QED BY <1>6, <2>1, <2>3, <3>1
  <2>4. QED BY <2>2, <2>3
<1>14. Len(d) + Len(f) <= Len(q) BY <1>1, <1>2, <1>4, <1>6, <1>10
<1>15. IsPage(d \o f, q) BY <1>12, <1>13, <1>14 DEF IsPage
<1>16. Len(f) < ExportPage => d \o f = q
  <2> SUFFICES ASSUME Len(f) < ExportPage PROVE d \o f = q OBVIOUS
  <2>1. Len(d) + Len(f) = Len(q) BY <1>1, <1>2, <1>4, <1>6, <1>10
  <2>2. q \in Seq(RowSet) BY <1>1, TableTypes
  <2>3. PICK r : r = d \o f OBVIOUS
  <2>4. r \in Seq(RowSet) /\ Len(r) = Len(q)
        /\ \A i \in 1 .. Len(q) : r[i] = q[i]
    BY <1>12, <1>13, <2>1, <2>3
  <2>5. r = q BY <2>2, <2>4
  <2>6. QED BY <2>3, <2>5
<1>17. exit # 0 BY <1>3 DEF FilesInv
<1>18. table' = table /\ totals' = totals /\ exit' = exit BY <1>8 DEF work
<1>19. Sorted(table)' = q BY <1>18 DEF q, Sorted
<1>20. TotalsOf(table)' = TotalsOf(table) BY <1>18
<1>21. FilesInv'
  <2>1. totals = TotalsOf(table) BY <1>3 DEF FilesInv
  <2>2. totals' = TotalsOf(table)' BY <1>18, <1>20, <2>1
  <2>3. phase' = "export" => IsPage(detail'.rows, Sorted(table)')
    BY <1>9, <1>15, <1>19
  <2>4. phase' = "close" => detail'.rows = Sorted(table)'
    BY <1>7, <1>9, <1>16, <1>19
  <2>5. exit' # 0 BY <1>17, <1>18
  <2>6. QED BY <2>2, <2>3, <2>4, <2>5 DEF FilesInv
<1>22. phase' \in {"close", "export"} BY <1>7
<1>23. TypeInv'
  <2>1. detail \in [rows : Seq(RowSet), closed : BOOLEAN]
    BY DEF TypeInv, TypeOK
  <2>2. detail' \in [rows : Seq(RowSet), closed : BOOLEAN]
    BY <1>7, <1>12, <2>1
  <2>3. QED BY <1>8, <1>22, <2>2 DEF TypeInv, TypeOK, work
<1>24. QED BY <1>21, <1>23

LEMMA TypeInvStep ==
  ASSUME TypeInv, FilesInv, [Next]_vars PROVE TypeInv'
<1>1. CASE Start BY <1>1, StartTypes
<1>2. CASE Stop BY <1>2, StopTypes
<1>3. ASSUME NEW n \in Networks, Take(n) \/ EndPass(n) PROVE TypeInv'
  BY <1>3, TakeTypes
<1>4. ASSUME NEW n \in Networks, ReadPending(n) PROVE TypeInv'
  BY <1>4, ReadPendingTypes
<1>5. ASSUME NEW n \in Networks, ReadAccrued(n) PROVE TypeInv'
  BY <1>5, ReadAccruedTypes
<1>6. ASSUME NEW n \in Networks, ReadOwed(n) PROVE TypeInv'
  BY <1>6, ReadOwedTypes
<1>7. ASSUME NEW n \in Networks, PageThrows(n) PROVE TypeInv'
  BY <1>7, PageThrowsTypes
<1>8. CASE FinishCalc
  BY <1>8 DEF FinishCalc, TypeInv, TypeOK, work, files
<1>9. CASE WriteTotals
  BY <1>9 DEF WriteTotals, TypeInv, TypeOK, work
<1>10. CASE OpenDetail
  BY <1>10 DEF OpenDetail, TypeInv, TypeOK, work
<1>11. CASE AppendDetail BY <1>11, AppendLemma
<1>12. CASE CloseDetail
  <2>1. detail'.rows = detail.rows BY <1>12 DEF CloseDetail
  <2>2. QED BY <1>12, <2>1 DEF CloseDetail, TypeInv, TypeOK, work
<1>13. CASE UNCHANGED vars
  BY <1>13 DEF TypeInv, TypeOK, vars, work, files
<1>14. QED
  BY <1>1, <1>2, <1>3, <1>4, <1>5, <1>6, <1>7, <1>8, <1>9, <1>10, <1>11,
     <1>12, <1>13 DEF Next, Progress

(* Where no file is written and no run has ended well, there is nothing    *)
(* to keep.                                                                *)
LEMMA NoFiles ==
  ASSUME phase' \in {"calc", "totals", "ended"}, exit' # 0 PROVE FilesInv'
BY DEF FilesInv

LEMMA FilesInvInit == Init => FilesInv
<1> SUFFICES ASSUME Init PROVE FilesInv OBVIOUS
<1>1. exit # 0 BY OwesAssumption DEF Init
<1>2. phase = "ended" BY DEF Init
<1>3. QED BY <1>1, <1>2 DEF FilesInv

LEMMA FilesInvStep ==
  ASSUME TypeInv, FilesInv, PublishInv, [Next]_vars PROVE FilesInv'
<1>1. CASE Start
  <2>1. exit' # 0 /\ phase' = "calc" BY <1>1, OwesAssumption DEF Start
  <2>2. QED BY <2>1, NoFiles
<1>2. CASE Stop
  <2>1. exit' # 0 /\ phase' = "ended" BY <1>2 DEF Stop
  <2>2. QED BY <2>1, NoFiles
<1>3. ASSUME NEW n \in Networks,
             \/ Take(n) \/ ReadPending(n) \/ EndPass(n)
             \/ ReadAccrued(n) \/ ReadOwed(n) \/ PageThrows(n)
      PROVE  FilesInv'
  <2>1. phase = "calc" /\ exit' = exit
    BY <1>3 DEF Take, ReadPending, EndPass, ReadAccrued, ReadOwed, PageThrows,
                Reading
  <2>2. exit # 0 BY <2>1 DEF FilesInv
  <2>3. QED BY <1>3, <2>1, <2>2, ReadersKeep, NoFiles
<1>4. CASE FinishCalc
  <2>1. phase = "calc" BY <1>4 DEF FinishCalc
  <2>2. exit # 0 BY <2>1 DEF FilesInv
  <2>3. phase' \in {"totals", "ended"} /\ exit' \in {exit, 1}
    BY <1>4 DEF FinishCalc
  <2>4. QED BY <2>2, <2>3, NoFiles
<1>5. CASE WriteTotals
  <2>1. /\ phase = "totals" /\ phase' = "open" /\ exit' = exit
        /\ totals' = TotalsOf(table) /\ table' = table
    BY <1>5 DEF WriteTotals, work
  <2>2. exit # 0 BY <2>1 DEF FilesInv
  <2>3. TotalsOf(table)' = TotalsOf(table) BY <2>1
  <2>4. QED BY <2>1, <2>2, <2>3 DEF FilesInv
<1>6. CASE OpenDetail
  <2>1. /\ phase = "open" /\ phase' = "export" /\ exit' = exit
        /\ totals' = totals /\ table' = table /\ detail'.rows = <<>>
    BY <1>6 DEF OpenDetail, work
  <2>2. exit # 0 /\ totals = TotalsOf(table) BY <2>1 DEF FilesInv
  <2>3. TotalsOf(table)' = TotalsOf(table) BY <2>1
  <2>4. PICK q : q = Sorted(table)' OBVIOUS
  <2>5. q \in Seq(table)
    <3>1. Sorted(table)' = Sorted(table) BY <2>1
    <3>2. QED BY <2>4, <3>1, TableTypes, SortedLemma
  <2>6. IsPage(<<>>, q) BY <2>5 DEF IsPage
  <2>7. QED BY <2>1, <2>2, <2>3, <2>4, <2>6 DEF FilesInv
<1>7. CASE AppendDetail BY <1>7, AppendLemma
<1>8. CASE CloseDetail
  <2>1. /\ phase = "close" /\ phase' = "ended" /\ exit' = 0
        /\ totals' = totals /\ table' = table /\ failed' = failed
        /\ stage' = stage
        /\ detail'.rows = detail.rows /\ detail'.closed
    <3>1. detail' = [detail EXCEPT !.closed = TRUE]
      BY <1>8 DEF CloseDetail
    <3>2. detail \in [rows : Seq(RowSet), closed : BOOLEAN]
      BY DEF TypeInv, TypeOK
    <3>3. QED BY <1>8, <3>1, <3>2 DEF CloseDetail, work
  <2>2. totals = TotalsOf(table) /\ detail.rows = Sorted(table)
    BY <2>1 DEF FilesInv
  <2>3. /\ TotalsOf(table)' = TotalsOf(table)
        /\ Sorted(table)' = Sorted(table)
    BY <2>1
  <2>4. failed = {} /\ \A n \in Networks : stage[n] = "done"
    BY <2>1 DEF PublishInv, Writing
  <2>5. QED BY <2>1, <2>2, <2>3, <2>4 DEF FilesInv
<1>9. CASE UNCHANGED vars
  <2>1. /\ phase' = phase /\ exit' = exit /\ totals' = totals
        /\ table' = table /\ detail' = detail /\ failed' = failed
        /\ stage' = stage
    BY <1>9 DEF vars, work, files
  <2>2. /\ TotalsOf(table)' = TotalsOf(table)
        /\ Sorted(table)' = Sorted(table)
    BY <2>1
  <2>3. QED BY <2>1, <2>2 DEF FilesInv
<1>10. QED
  BY <1>1, <1>2, <1>3, <1>4, <1>5, <1>6, <1>7, <1>8, <1>9 DEF Next, Progress

-----------------------------------------------------------------------------
(* What a read adds to the rows of its network.                            *)

LEMMA SameNetwork ==
  ASSUME NEW n, NEW v, NEW b, NEW st, NEW a, NEW p, NEW w,
         NEW t, NEW skip, NetworkOK(n, v, b, st, a, p, w, t, skip),
         NEW t2, RowsOf(t2, n) = RowsOf(t, n),
         NEW skip2, SkippedOf(skip2, n) = SkippedOf(skip, n)
  PROVE  NetworkOK(n, v, b, st, a, p, w, t2, skip2)
<1>1. \A m, u : <<n, m, u>> \in skip2 <=> <<n, m, u>> \in skip
  <2> SUFFICES ASSUME NEW m, NEW u
               PROVE  <<n, m, u>> \in skip2 <=> <<n, m, u>> \in skip
    OBVIOUS
  <2>1. <<n, m, u>>[1] = n OBVIOUS
  <2>2. QED BY <2>1 DEF SkippedOf
<1>2. \A I : MarketRows(n, b, I, skip2) = MarketRows(n, b, I, skip)
  BY <1>1 DEF MarketRows, KeyAt
<1>3. \A U : UserRows(n, b, U, skip2) = UserRows(n, b, U, skip)
  BY <1>1 DEF UserRows
<1>4. Untouched(n, t, skip) => Untouched(n, t2, skip2) BY DEF Untouched
<1>5. \A x : UsersOK(n, b, x, w, t, skip) => UsersOK(n, b, x, w, t2, skip2)
  BY <1>3 DEF UsersOK
<1>6. \A x : MarketsOK(n, b, x, t, skip) => MarketsOK(n, b, x, t2, skip2)
  BY <1>2 DEF MarketsOK
<1>7. QED BY <1>4, <1>5, <1>6 DEF NetworkOK

(* An upsert of rows of network n.                                         *)
AllOf(rows, n) == \A r \in rows : r.network = n

LEMMA WithOther ==
  ASSUME NEW n, NEW t, NEW rows, AllOf(rows, n),
         NEW k, k # n
  PROVE  RowsOf(With(t, rows), k) = RowsOf(t, k)
<1>1. \A r \in RowsOf(t, k) : \A s \in rows : Key(r) # Key(s)
  BY DEF AllOf, RowsOf, Key
<1>2. QED BY <1>1 DEF With, RowsOf, AllOf

LEMMA WithOwn ==
  ASSUME NEW n, NEW t, NEW rows, AllOf(rows, n),
         \A r \in RowsOf(t, n), s \in rows : Key(r) # Key(s)
  PROVE  RowsOf(With(t, rows), n) = RowsOf(t, n) \cup rows
BY DEF With, RowsOf, AllOf

LEMMA PendingStep ==
  ASSUME NEW n \in Networks, NEW b \in Blocks, NEW a \in 1 .. Len(Entries[n]),
         NEW e \in a .. Len(Entries[n]), NEW p, PendingOK(n, b, a, p),
         NEW p2, \A u \in UsersOf(n) :
                   p2[u] = p[u] + SumAt(Due[b][n], Of(n, a .. e, u))
  PROVE  PendingOK(n, b, e + 1, p2)
<1> SUFFICES ASSUME NEW u \in UsersOf(n)
             PROVE  p2[u] = SumAt(Due[b][n], Of(n, 1 .. e + 1 - 1, u))
  BY DEF PendingOK
<1>1. Due[b][n] \in Seq(Nat) BY Amounts
<1>2. Len(Entries[n]) \in Nat BY EntryTypes
<1> DEFINE A == Of(n, 1 .. a - 1, u)
           B == Of(n, a .. e, u)
<1>3. A \cap B = {} BY <1>2 DEF Of
<1>4. Of(n, 1 .. e + 1 - 1, u) = A \cup B
  <2>1. 1 .. e + 1 - 1 = (1 .. a - 1) \cup (a .. e) BY <1>2
  <2>2. QED BY <2>1 DEF Of
<1>5. p[u] = SumAt(Due[b][n], A) BY DEF PendingOK
<1>6. p2[u] = p[u] + SumAt(Due[b][n], B) OBVIOUS
<1> HIDE DEF A, B
<1>7. QED BY <1>1, <1>3, <1>4, <1>5, <1>6, SumUnion

LEMMA MarketStep ==
  ASSUME NEW n \in Networks, NEW b \in Blocks, NEW a \in 1 .. Len(Entries[n]),
         NEW e \in a .. Len(Entries[n]), NEW D, D \subseteq a .. e,
         NEW t, NEW skip, MarketsOK(n, b, a, t, skip),
         NEW rows, NEW skip2,
         rows = NotZero({Row(n, Entries[n][i][1], Entries[n][i][2],
                             Due[b][n][i]) : i \in (a .. e) \ D}),
         skip2 = skip \cup {KeyAt(n, i) : i \in D}
  PROVE  MarketsOK(n, b, e + 1, With(t, rows), skip2)
<1> DEFINE R(i) == Row(n, Entries[n][i][1], Entries[n][i][2], Due[b][n][i])
           N(I) == NotZero({R(i) : i \in I})
           Kept(I, s) == {j \in I : KeyAt(n, j) \notin s}
<1>1. Len(Entries[n]) \in Nat /\ DOMAIN Entries[n] = 1 .. Len(Entries[n])
  BY EntryTypes
<1>2. /\ 1 .. e + 1 - 1 = (1 .. a - 1) \cup (a .. e)
      /\ \A i \in 1 .. a - 1 : i \in DOMAIN Entries[n]
      /\ \A i \in a .. e : i \in DOMAIN Entries[n]
      /\ \A i \in 1 .. a - 1 : \A j \in a .. e : i < j
  BY <1>1
<1>3. \A i \in 1 .. a - 1 : \A j \in a .. e : KeyAt(n, i) # KeyAt(n, j)
  BY <1>2, Ordered
<1>4. \A i, j \in a .. e : i # j => KeyAt(n, i) # KeyAt(n, j)
  <2>1. \A i, j \in a .. e : i < j \/ j < i \/ i = j BY <1>1
  <2>2. QED BY <1>2, <2>1, Ordered
<1>5. \A j \in a .. e : KeyAt(n, j) \notin skip
  <2> SUFFICES ASSUME NEW j \in a .. e, KeyAt(n, j) \in skip PROVE FALSE
    OBVIOUS
  <2>1. KeyAt(n, j)[1] = n BY DEF KeyAt
  <2>2. \E i \in 1 .. a - 1 : KeyAt(n, j) = KeyAt(n, i)
    BY <2>1 DEF MarketsOK, SkippedOf
  <2>3. QED BY <1>3, <2>2
<1>6. Kept(1 .. a - 1, skip2) = Kept(1 .. a - 1, skip)
  BY <1>3
<1>7. Kept(a .. e, skip2) = (a .. e) \ D
  BY <1>4, <1>5
<1>8. Kept(1 .. e + 1 - 1, skip2) = Kept(1 .. a - 1, skip) \cup ((a .. e) \ D)
  BY <1>2, <1>6, <1>7
<1>9. \A I, J : N(I \cup J) = N(I) \cup N(J) BY DEF NotZero
<1>10. RowsOf(t, n) = N(Kept(1 .. a - 1, skip))
  BY DEF MarketsOK, MarketRows
<1>11. rows = N((a .. e) \ D) OBVIOUS
<1>12. MarketRows(n, b, 1 .. e + 1 - 1, skip2) = N(Kept(1 .. e + 1 - 1, skip2))
  BY DEF MarketRows
<1>13. \A i : R(i).network = n /\ Key(R(i)) = KeyAt(n, i)
  BY DEF Row, Key, KeyAt
<1>14. \A I : \A r \in N(I) : \E i \in I : r = R(i) BY DEF NotZero
<1> HIDE DEF R, N
<1>15. AllOf(rows, n) BY <1>11, <1>13, <1>14 DEF AllOf
<1>16. \A r \in RowsOf(t, n), s \in rows : Key(r) # Key(s)
  <2> SUFFICES ASSUME NEW r \in RowsOf(t, n), NEW s \in rows
               PROVE  Key(r) # Key(s)
    OBVIOUS
  <2>1. PICK i \in Kept(1 .. a - 1, skip) : r = R(i) BY <1>10, <1>14
  <2>2. PICK j \in (a .. e) \ D : s = R(j) BY <1>11, <1>14
  <2>3. KeyAt(n, i) # KeyAt(n, j) BY <1>3, <2>1, <2>2
  <2>4. QED BY <1>13, <2>1, <2>2, <2>3
<1>17. RowsOf(With(t, rows), n) = RowsOf(t, n) \cup rows
  BY <1>15, <1>16, WithOwn
<1>18. RowsOf(With(t, rows), n) = MarketRows(n, b, 1 .. e + 1 - 1, skip2)
  <2> DEFINE A == Kept(1 .. a - 1, skip)
             C == (a .. e) \ D
  <2>1. N(A \cup C) = N(A) \cup N(C) BY <1>9
  <2>2. Kept(1 .. e + 1 - 1, skip2) = A \cup C BY <1>8
  <2>3. MarketRows(n, b, 1 .. e + 1 - 1, skip2) = N(A \cup C)
    BY <1>12, <2>2
  <2>4. RowsOf(With(t, rows), n) = N(A) \cup N(C) BY <1>10, <1>11, <1>17
  <2> HIDE DEF A, C
  <2>5. QED BY <2>1, <2>3, <2>4
<1>19. \A k \in SkippedOf(skip2, n) :
         \E i \in 1 .. e + 1 - 1 : k = KeyAt(n, i)
  <2> SUFFICES ASSUME NEW k \in SkippedOf(skip2, n)
               PROVE  \E i \in 1 .. e + 1 - 1 : k = KeyAt(n, i)
    OBVIOUS
  <2>1. k \in SkippedOf(skip, n) \/ \E i \in D : k = KeyAt(n, i)
    BY DEF SkippedOf
  <2>2. k \in SkippedOf(skip, n) => \E i \in 1 .. a - 1 : k = KeyAt(n, i)
    BY DEF MarketsOK
  <2>3. QED BY <1>2, <2>1, <2>2
<1>20. QED BY <1>18, <1>19 DEF MarketsOK

(* The rows of the users of U, the accrued amounts of D left out.          *)
UserBatch(n, b, p, U, D) ==
  NotZero({Row(n, Comptroller, u,
               (IF u \in D THEN 0 ELSE Accrued[b][n][u]) + p[u]) : u \in U})

LEMMA UserStep ==
  ASSUME NEW n \in Networks, NEW b \in Blocks, NEW a \in 1 .. Len(Entries[n]),
         NEW e \in a .. Len(Entries[n]), NEW p, PendingOK(n, b, All(n), p),
         NEW w, NEW t, NEW skip, UsersOK(n, b, a, w, t, skip),
         NEW U, U = {Entries[n][i][2] : i \in a .. e} \ w,
         NEW D, D \subseteq U,
         NEW rows, NEW skip2,
         rows = UserBatch(n, b, p, U, D),
         skip2 = skip \cup {<<n, Comptroller, u>> : u \in D}
  PROVE  UsersOK(n, b, e + 1, w \cup U, With(t, rows), skip2)
<1> DEFINE Sum(u) == SumAt(Due[b][n], Of(n, DOMAIN Entries[n], u))
           R(u, s) == Row(n, Comptroller, u,
                          (IF <<n, Comptroller, u>> \in s
                           THEN 0 ELSE Accrued[b][n][u]) + Sum(u))
           N(V, s) == NotZero({R(u, s) : u \in V})
<1>1. Len(Entries[n]) \in Nat /\ DOMAIN Entries[n] = 1 .. Len(Entries[n])
  BY EntryTypes
<1>2. w = {Entries[n][i][2] : i \in 1 .. a - 1} BY DEF UsersOK
<1>3. w \cup U = {Entries[n][i][2] : i \in 1 .. e + 1 - 1}
  <2>1. 1 .. e + 1 - 1 = (1 .. a - 1) \cup (a .. e) BY <1>1
  <2>2. QED BY <1>2, <2>1
<1>4. U \cap w = {} /\ U \subseteq UsersOf(n)
  <2>1. \A i \in a .. e : i \in DOMAIN Entries[n] BY <1>1
  <2>2. QED BY <2>1 DEF UsersOf
<1>5. \A u \in U : p[u] = Sum(u)
  <2>1. 1 .. All(n) - 1 = DOMAIN Entries[n] BY <1>1 DEF All
  <2>2. QED BY <1>4, <2>1 DEF PendingOK
<1>6. \A u \in U : <<n, Comptroller, u>> \notin skip
  <2> SUFFICES ASSUME NEW u \in U, <<n, Comptroller, u>> \in skip PROVE FALSE
    OBVIOUS
  <2>1. <<n, Comptroller, u>> \in SkippedOf(skip, n) BY DEF SkippedOf
  <2>2. <<n, Comptroller, u>>[3] = u OBVIOUS
  <2>3. u \in w BY <2>1, <2>2 DEF UsersOK
  <2>4. QED BY <1>4, <2>3
<1>7. \A u \in w : <<n, Comptroller, u>> \in skip2
                     <=> <<n, Comptroller, u>> \in skip
  BY <1>4
<1>8. \A u \in U : <<n, Comptroller, u>> \in skip2 <=> u \in D
  BY <1>6
<1> HIDE DEF Sum
<1>9. \A u \in w : R(u, skip2) = R(u, skip) BY <1>7
<1>10. \A u \in U :
         R(u, skip2) = Row(n, Comptroller, u,
                           (IF u \in D THEN 0 ELSE Accrued[b][n][u]) + p[u])
  BY <1>5, <1>8
<1> HIDE DEF R
<1>11. RowsOf(t, n) = N(w, skip) BY DEF UsersOK, UserRows, Sum, R
<1>12. rows = N(U, skip2) BY <1>10 DEF UserBatch
<1>13. N(w, skip2) = N(w, skip) BY <1>9
<1>14. N(w \cup U, skip2) = N(w, skip2) \cup N(U, skip2) BY DEF NotZero
<1>15. UserRows(n, b, w \cup U, skip2) = N(w \cup U, skip2)
  BY DEF UserRows, Sum, R
<1>16. \A u, s : /\ R(u, s).network = n
                 /\ Key(R(u, s)) = <<n, Comptroller, u>>
  BY DEF R, Row, Key
<1>17. /\ \A r \in N(w, skip) : \E u \in w : r = R(u, skip)
       /\ \A r \in N(U, skip2) : \E u \in U : r = R(u, skip2)
  BY DEF NotZero
<1> HIDE DEF N
<1>18. \A s \in rows : \E x \in U : s = R(x, skip2)
  <2> SUFFICES ASSUME NEW s \in rows PROVE \E x \in U : s = R(x, skip2)
    OBVIOUS
  <2>1. s \in N(U, skip2) BY <1>12
  <2>2. QED BY <1>17, <2>1
<1>19. \A r \in RowsOf(t, n), s \in rows : Key(r) # Key(s)
  <2> SUFFICES ASSUME NEW r \in RowsOf(t, n), NEW s \in rows
               PROVE  Key(r) # Key(s)
    OBVIOUS
  <2>1. PICK u \in w : r = R(u, skip) BY <1>11, <1>17
  <2>2. PICK x \in U : s = R(x, skip2) BY <1>18
  <2>3. u # x BY <1>4
  <2>4. <<n, Comptroller, u>> # <<n, Comptroller, x>> BY <2>3
  <2>5. QED BY <1>16, <2>1, <2>2, <2>4
<1>20. RowsOf(With(t, rows), n) = RowsOf(t, n) \cup rows
  <2>1. ASSUME NEW s \in rows PROVE s.network = n
    <3>1. PICK x \in U : s = R(x, skip2) BY <1>18
    <3>2. R(x, skip2).network = n BY <1>16
    <3>3. QED BY <3>1, <3>2
  <2>2. AllOf(rows, n) BY <2>1 DEF AllOf
  <2>3. QED BY <1>19, <2>2, WithOwn
<1>21. RowsOf(With(t, rows), n) = UserRows(n, b, w \cup U, skip2)
  BY <1>11, <1>12, <1>13, <1>14, <1>15, <1>20
<1>22. \A k \in SkippedOf(skip2, n) : k[3] \in w \cup U
  <2> SUFFICES ASSUME NEW k \in SkippedOf(skip2, n) PROVE k[3] \in w \cup U
    OBVIOUS
  <2>1. k \in SkippedOf(skip, n) \/ \E u \in D : k = <<n, Comptroller, u>>
    BY DEF SkippedOf
  <2>2. k \in SkippedOf(skip, n) => k[3] \in w BY DEF UsersOK
  <2>3. \A u : <<n, Comptroller, u>>[3] = u OBVIOUS
  <2>4. QED BY <2>1, <2>2, <2>3
<1>23. QED BY <1>3, <1>21, <1>22 DEF UsersOK

-----------------------------------------------------------------------------
(* Every step keeps the rows exact.                                        *)

(* What a step of network n leaves alone.                                  *)
Apart(n) ==
  /\ version' = version /\ block' = block /\ failed \subseteq failed'
  /\ \A k \in Networks \ {n} :
       /\ stage'[k] = stage[k] /\ at'[k] = at[k]
       /\ pending'[k] = pending[k] /\ written'[k] = written[k]
       /\ RowsOf(table', k) = RowsOf(table, k)
       /\ SkippedOf(dropped', k) = SkippedOf(dropped, k)

LEMMA OthersKeep ==
  ASSUME ExactInv, Valid, NEW n \in Networks, Apart(n),
         n \notin failed' => Exact(n)'
  PROVE  ExactInv'
<1> SUFFICES ASSUME NEW k \in Networks \ failed', k # n PROVE Exact(k)'
  BY DEF ExactInv
<1>1. Exact(k) BY DEF ExactInv, Apart
<1>2. NetworkOK(k, version, block, stage[k], at[k], pending[k], written[k],
                table', dropped')
  BY <1>1, SameNetwork DEF Exact, Apart
<1>3. QED BY <1>2 DEF Exact, Apart

LEMMA Reads ==
  ASSUME NEW n \in Networks,
         \/ Take(n) \/ ReadPending(n) \/ EndPass(n)
         \/ ReadAccrued(n) \/ ReadOwed(n) \/ PageThrows(n)
  PROVE  phase = "calc" /\ Valid
BY DEF Take, ReadPending, EndPass, ReadAccrued, ReadOwed, PageThrows,
       Reading, Valid

LEMMA TakeExact ==
  ASSUME TypeInv, ExactInv, NEW n \in Networks, Take(n) PROVE ExactInv'
<1>1. Valid BY Reads
<1>2. /\ stage \in [Networks -> {"queued", "pending", "owed", "done"}]
      /\ version \in {2, 3}
  BY DEF TypeInv, TypeOK
<1>3. /\ stage[n] = "queued"
      /\ stage' = [stage EXCEPT ![n] =
                     IF version = 2 THEN "pending" ELSE "owed"]
      /\ UNCHANGED <<version, block, at, pending, written, failed, table,
                     dropped>>
  BY DEF Take
<1>4. /\ stage'[n] = IF version = 2 THEN "pending" ELSE "owed"
      /\ \A k \in Networks \ {n} : stage'[k] = stage[k]
  BY <1>2, <1>3
<1>5. Apart(n) BY <1>3, <1>4 DEF Apart
<1>6. ASSUME n \notin failed' PROVE Exact(n)'
  <2>1. /\ at[n] = 1 /\ written[n] = {} /\ Untouched(n, table, dropped)
        /\ PendingOK(n, block, 1, pending[n])
    BY <1>1, <1>3, <1>6 DEF ExactInv, Exact, NetworkOK
  <2>2. CASE version = 2
    BY <1>3, <1>4, <2>1, <2>2 DEF Exact, NetworkOK
  <2>3. CASE version = 3
    <3>1. 1 .. 1 - 1 = {} OBVIOUS
    <3>2. MarketsOK(n, block, 1, table, dropped)
      BY <2>1, <3>1 DEF MarketsOK, MarketRows, NotZero, Untouched
    <3>3. QED BY <1>3, <1>4, <2>1, <2>3, <3>2 DEF Exact, NetworkOK
  <2>4. QED BY <1>2, <2>2, <2>3
<1>7. QED BY <1>1, <1>5, <1>6, OthersKeep

LEMMA EndPassExact ==
  ASSUME TypeInv, ExactInv, NEW n \in Networks, EndPass(n) PROVE ExactInv'
<1>1. Valid BY Reads
<1>2. /\ stage \in [Networks -> {"queued", "pending", "owed", "done"}]
      /\ version \in {2, 3} /\ at \in [Networks -> Nat]
      /\ at[n] \in 1 .. Len(Entries[n]) + 1
  BY DEF TypeInv, TypeOK
<1>3. /\ stage[n] \in {"pending", "owed"}
      /\ stage' = [stage EXCEPT ![n] = IF @ = "pending" THEN "owed" ELSE "done"]
      /\ at' = [at EXCEPT ![n] = 1]
      /\ at[n] \notin DOMAIN Entries[n]
      /\ UNCHANGED <<version, block, pending, written, failed, table, dropped>>
  BY DEF EndPass
<1>4. /\ stage'[n] = IF stage[n] = "pending" THEN "owed" ELSE "done"
      /\ at'[n] = 1
      /\ \A k \in Networks \ {n} : stage'[k] = stage[k] /\ at'[k] = at[k]
  BY <1>2, <1>3
<1>5. at[n] = All(n)
  <2>1. Len(Entries[n]) \in Nat /\ DOMAIN Entries[n] = 1 .. Len(Entries[n])
    BY EntryTypes
  <2>2. QED BY <1>2, <1>3, <2>1 DEF All
<1>6. Apart(n) BY <1>3, <1>4 DEF Apart
<1>7. ASSUME n \notin failed' PROVE Exact(n)'
  <2>1. Exact(n) BY <1>1, <1>3, <1>7 DEF ExactInv
  <2>2. CASE stage[n] = "pending"
    <3>1. /\ version = 2 /\ written[n] = {} /\ Untouched(n, table, dropped)
          /\ PendingOK(n, block, All(n), pending[n])
      BY <1>5, <2>1, <2>2 DEF Exact, NetworkOK
    <3>2. 1 .. 1 - 1 = {} OBVIOUS
    <3>3. UsersOK(n, block, 1, {}, table, dropped)
      BY <3>1, <3>2 DEF UsersOK, UserRows, NotZero, Untouched
    <3>4. QED BY <1>3, <1>4, <2>2, <3>1, <3>3 DEF Exact, NetworkOK
  <2>3. CASE stage[n] = "owed"
    <3>1. /\ version = 2 =>
               UsersOK(n, block, All(n), written[n], table, dropped)
          /\ version = 3 => MarketsOK(n, block, All(n), table, dropped)
      BY <1>5, <2>1, <2>3 DEF Exact, NetworkOK
    <3>2. stage'[n] = "done" BY <1>4, <2>3
    <3>3. QED BY <1>3, <3>1, <3>2 DEF Exact, NetworkOK
  <2>4. QED BY <1>3, <2>2, <2>3
<1>8. QED BY <1>1, <1>6, <1>7, OthersKeep

LEMMA ReadPendingExact ==
  ASSUME TypeInv, ExactInv, NEW n \in Networks, ReadPending(n) PROVE ExactInv'
<1>1. Valid BY Reads
<1>2. /\ at[n] \in DOMAIN Entries[n] /\ Past(n, MarketOfPage(n))
      /\ stage[n] = "pending"
      /\ UNCHANGED <<version, block, stage, written, table, dropped>>
  BY DEF ReadPending, Reading
<1>3. PICK e \in at[n] .. Len(Entries[n]) :
        MarketOfPage(n) = at[n] .. e /\ Max(MarketOfPage(n)) = e
  BY <1>2, MarketIs
<1>4. at' = [at EXCEPT ![n] = e + 1] BY <1>2, <1>3 DEF Past
<1>5. at'[n] = e + 1 /\ \A k \in Networks \ {n} : at'[k] = at[k]
  BY <1>2, <1>4, PastTypes
<1>6. PICK F \in SUBSET MarketOfPage(n) :
        /\ pending' = [pending EXCEPT ![n] =
             [u \in UsersOf(n) |-> @[u] +
                SumAt(Due[block][n], {i \in MarketOfPage(n) \ F :
                                        Entries[n][i][2] = u})]]
        /\ failed' = IF F = {} THEN failed ELSE failed \union {n}
  BY DEF ReadPending
<1> DEFINE p == [u \in UsersOf(n) |-> pending[n][u] +
                   SumAt(Due[block][n], {i \in MarketOfPage(n) \ F :
                                           Entries[n][i][2] = u})]
<1>7. pending' = [pending EXCEPT ![n] = p] BY <1>6
<1>8. pending'[n] = p /\ \A k \in Networks \ {n} : pending'[k] = pending[k]
  <2>1. pending = [k \in Networks |-> pending[k]] BY DEF TypeInv
  <2> HIDE DEF p
  <2>2. QED BY <1>7, <2>1
<1>9. Apart(n) BY <1>2, <1>5, <1>6, <1>8 DEF Apart
<1>10. ASSUME n \notin failed' PROVE Exact(n)'
  <2>1. F = {} /\ n \notin failed BY <1>6, <1>10
  <2>2. /\ version = 2 /\ written[n] = {} /\ Untouched(n, table, dropped)
        /\ PendingOK(n, block, at[n], pending[n])
    BY <1>1, <1>2, <2>1 DEF ExactInv, Exact, NetworkOK
  <2>3. \A u \in UsersOf(n) :
          p[u] = pending[n][u]
                   + SumAt(Due[block][n], Of(n, at[n] .. e, u))
    BY <1>3, <2>1 DEF Of
  <2>4. at[n] \in 1 .. Len(Entries[n]) /\ block \in Blocks
    BY <1>2, EntryTypes DEF TypeInv, TypeOK
  <2> HIDE DEF p
  <2>5. PendingOK(n, block, e + 1, p) BY <2>2, <2>3, <2>4, PendingStep
  <2>6. QED BY <1>2, <1>5, <1>8, <2>2, <2>5 DEF Exact, NetworkOK
<1>11. QED BY <1>1, <1>9, <1>10, OthersKeep

LEMMA PageThrowsExact ==
  ASSUME TypeInv, ExactInv, NEW n \in Networks, PageThrows(n) PROVE ExactInv'
<1>1. Valid BY Reads
<1>2. /\ at[n] \in DOMAIN Entries[n] /\ Past(n, RestOfPage(n))
      /\ failed' = failed \union {n}
      /\ UNCHANGED <<version, block, stage, pending, written, table, dropped>>
  BY DEF PageThrows, Reading
<1>3. PICK e \in at[n] .. Len(Entries[n]) : Max(RestOfPage(n)) = e
  BY <1>2, RestIs
<1>4. at' = [at EXCEPT ![n] = e + 1] BY <1>2, <1>3 DEF Past
<1>5. \A k \in Networks \ {n} : at'[k] = at[k] BY <1>2, <1>4, PastTypes
<1>6. Apart(n) BY <1>2, <1>5 DEF Apart
<1>7. QED BY <1>1, <1>2, <1>6, OthersKeep

LEMMA ReadOwedExact ==
  ASSUME TypeInv, ExactInv, NEW n \in Networks, ReadOwed(n) PROVE ExactInv'
<1>1. Valid BY Reads
<1>2. /\ at[n] \in DOMAIN Entries[n] /\ Past(n, RestOfPage(n))
      /\ stage[n] = "owed" /\ version = 3
      /\ UNCHANGED <<version, block, stage, pending, written, failed>>
  BY DEF ReadOwed, Reading
<1>3. PICK e \in at[n] .. Len(Entries[n]) :
        RestOfPage(n) = at[n] .. e /\ Max(RestOfPage(n)) = e
  BY <1>2, RestIs
<1>4. at' = [at EXCEPT ![n] = e + 1] BY <1>2, <1>3 DEF Past
<1>5. at'[n] = e + 1 /\ \A k \in Networks \ {n} : at'[k] = at[k]
  BY <1>2, <1>4, PastTypes
<1>6. PICK D \in SUBSET RestOfPage(n) :
        /\ Upsert(NotZero({Row(n, Entries[n][i][1], Entries[n][i][2],
                               Due[block][n][i]) : i \in RestOfPage(n) \ D}))
        /\ dropped' = dropped \union
             {<<n, Entries[n][i][1], Entries[n][i][2]>> : i \in D}
  BY DEF ReadOwed
<1> DEFINE rows == NotZero({Row(n, Entries[n][i][1], Entries[n][i][2],
                                Due[block][n][i]) : i \in (at[n] .. e) \ D})
<1>7. table' = With(table, rows) BY <1>3, <1>6 DEF Upsert, With
<1>8. dropped' = dropped \cup {KeyAt(n, i) : i \in D} BY <1>6 DEF KeyAt
<1>9. AllOf(rows, n) BY DEF NotZero, Row, AllOf
<1>10. \A k \in Networks \ {n} :
         /\ RowsOf(table', k) = RowsOf(table, k)
         /\ SkippedOf(dropped', k) = SkippedOf(dropped, k)
  <2> SUFFICES ASSUME NEW k \in Networks \ {n}
               PROVE  /\ RowsOf(table', k) = RowsOf(table, k)
                      /\ SkippedOf(dropped', k) = SkippedOf(dropped, k)
    OBVIOUS
  <2>1. \A i : KeyAt(n, i)[1] = n BY DEF KeyAt
  <2>2. SkippedOf(dropped', k) = SkippedOf(dropped, k)
    BY <1>8, <2>1 DEF SkippedOf
  <2> HIDE DEF rows
  <2>3. PICK t, r : t = table /\ r = rows OBVIOUS
  <2>4. AllOf(r, n) BY <1>9, <2>3
  <2>5. RowsOf(With(t, r), k) = RowsOf(t, k) BY <2>4, WithOther
  <2>6. QED BY <1>7, <2>2, <2>3, <2>5
<1>11. Apart(n) BY <1>2, <1>5, <1>10 DEF Apart
<1>12. ASSUME n \notin failed' PROVE Exact(n)'
  <2>1. MarketsOK(n, block, at[n], table, dropped)
    BY <1>1, <1>2, <1>12 DEF ExactInv, Exact, NetworkOK
  <2>2. at[n] \in 1 .. Len(Entries[n]) /\ block \in Blocks
    BY <1>2, EntryTypes DEF TypeInv, TypeOK
  <2>3. PICK a : a = at[n] OBVIOUS
  <2>4. PICK b : b = block OBVIOUS
  <2>5. D \subseteq a .. e BY <1>3, <2>3
  <2>6. PICK r : /\ r = rows
                 /\ r = NotZero({Row(n, Entries[n][i][1], Entries[n][i][2],
                                     Due[b][n][i]) : i \in (a .. e) \ D})
    BY <2>3, <2>4
  <2>7. PICK s : s = dropped \cup {KeyAt(n, i) : i \in D} OBVIOUS
  <2> HIDE DEF rows
  <2>8. PICK t : t = table OBVIOUS
  <2>9. PICK d : d = dropped OBVIOUS
  <2>10. MarketsOK(n, b, a, t, d) BY <2>1, <2>3, <2>4, <2>8, <2>9
  <2>11. a \in 1 .. Len(Entries[n]) /\ e \in a .. Len(Entries[n])
         /\ b \in Blocks /\ s = d \cup {KeyAt(n, i) : i \in D}
    BY <2>2, <2>3, <2>4, <2>7, <2>9
  <2>12. MarketsOK(n, b, e + 1, With(t, r), s)
    BY <2>5, <2>6, <2>10, <2>11, MarketStep
  <2>13. With(t, r) = table' BY <1>7, <2>6, <2>8
  <2>14. MarketsOK(n, block', at'[n], table', dropped')
    BY <1>2, <1>5, <1>8, <2>4, <2>7, <2>12, <2>13
  <2>15. stage'[n] = "owed" /\ version' = 3 BY <1>2
  <2>16. QED BY <2>14, <2>15 DEF Exact, NetworkOK
<1>13. QED BY <1>1, <1>11, <1>12, OthersKeep

LEMMA ReadAccruedExact ==
  ASSUME TypeInv, ExactInv, NEW n \in Networks, ReadAccrued(n) PROVE ExactInv'
<1>1. Valid BY Reads
<1> DEFINE U == {Entries[n][i][2] : i \in RestOfPage(n)} \ written[n]
<1>2. /\ at[n] \in DOMAIN Entries[n] /\ Past(n, RestOfPage(n))
      /\ stage[n] = "owed" /\ version = 2
      /\ written' = [written EXCEPT ![n] = @ \union U]
      /\ UNCHANGED <<version, block, stage, pending, failed>>
  BY DEF ReadAccrued, Reading
<1>3. PICK e \in at[n] .. Len(Entries[n]) :
        RestOfPage(n) = at[n] .. e /\ Max(RestOfPage(n)) = e
  BY <1>2, RestIs
<1>4. at' = [at EXCEPT ![n] = e + 1] BY <1>2, <1>3 DEF Past
<1>5. at'[n] = e + 1 /\ \A k \in Networks \ {n} : at'[k] = at[k]
  BY <1>2, <1>4, PastTypes
<1>6. PICK D \in SUBSET U :
        /\ Upsert(NotZero({Row(n, Comptroller, u,
                               (IF u \in D THEN 0 ELSE Accrued[block][n][u])
                                 + pending[n][u]) : u \in U}))
        /\ dropped' = dropped \union {<<n, Comptroller, u>> : u \in D}
  BY DEF ReadAccrued
<1>7. PICK V : V = U /\ V = {Entries[n][i][2] : i \in at[n] .. e} \ written[n]
  BY <1>3
<1>8. D \subseteq V BY <1>6, <1>7
<1>9. written'[n] = written[n] \cup V
      /\ \A k \in Networks \ {n} : written'[k] = written[k]
  <2>1. written = [k \in Networks |-> written[k]] BY DEF TypeInv
  <2> HIDE DEF U
  <2>2. QED BY <1>2, <1>7, <2>1
<1>10. PICK rows : rows = UserBatch(n, block, pending[n], V, D) OBVIOUS
<1>11. table' = With(table, rows)
  <2> HIDE DEF U
  <2>1. QED BY <1>6, <1>7, <1>10 DEF Upsert, With, UserBatch
<1>12. dropped' = dropped \union {<<n, Comptroller, u>> : u \in D}
  BY <1>6
<1> HIDE DEF U
<1>13. AllOf(rows, n) BY <1>10 DEF UserBatch, NotZero, Row, AllOf
<1>14. \A k \in Networks \ {n} :
         /\ RowsOf(table', k) = RowsOf(table, k)
         /\ SkippedOf(dropped', k) = SkippedOf(dropped, k)
  <2> SUFFICES ASSUME NEW k \in Networks \ {n}
               PROVE  /\ RowsOf(table', k) = RowsOf(table, k)
                      /\ SkippedOf(dropped', k) = SkippedOf(dropped, k)
    OBVIOUS
  <2>1. \A u : <<n, Comptroller, u>>[1] = n OBVIOUS
  <2>2. SkippedOf(dropped', k) = SkippedOf(dropped, k)
    BY <1>12, <2>1 DEF SkippedOf
  <2>3. PICK t : t = table OBVIOUS
  <2>4. RowsOf(With(t, rows), k) = RowsOf(t, k) BY <1>13, WithOther
  <2>5. QED BY <1>11, <2>2, <2>3, <2>4
<1>15. Apart(n) BY <1>2, <1>5, <1>9, <1>14 DEF Apart
<1>16. ASSUME n \notin failed' PROVE Exact(n)'
  <2>1. /\ PendingOK(n, block, All(n), pending[n])
        /\ UsersOK(n, block, at[n], written[n], table, dropped)
    BY <1>1, <1>2, <1>16 DEF ExactInv, Exact, NetworkOK
  <2>2. at[n] \in 1 .. Len(Entries[n]) /\ block \in Blocks
    BY <1>2, EntryTypes DEF TypeInv, TypeOK
  <2>3. PICK a : a = at[n] OBVIOUS
  <2>4. PICK b : b = block OBVIOUS
  <2>5. PICK t : t = table OBVIOUS
  <2>6. PICK d : d = dropped OBVIOUS
  <2>7. PICK w : w = written[n] OBVIOUS
  <2>8. PICK p : p = pending[n] OBVIOUS
  <2>9. PICK s : s = d \cup {<<n, Comptroller, u>> : u \in D} OBVIOUS
  <2>10. /\ a \in 1 .. Len(Entries[n]) /\ e \in a .. Len(Entries[n])
         /\ b \in Blocks
         /\ PendingOK(n, b, All(n), p) /\ UsersOK(n, b, a, w, t, d)
         /\ V = {Entries[n][i][2] : i \in a .. e} \ w
    BY <1>7, <2>1, <2>2, <2>3, <2>4, <2>5, <2>6, <2>7, <2>8
  <2>11. rows = UserBatch(n, b, p, V, D) BY <1>10, <2>4, <2>8
  <2>12. UsersOK(n, b, e + 1, w \cup V, With(t, rows), s)
    BY <1>8, <2>9, <2>10, <2>11, UserStep
  <2>13. /\ b = block' /\ e + 1 = at'[n] /\ w \cup V = written'[n]
         /\ With(t, rows) = table' /\ s = dropped'
    BY <1>2, <1>5, <1>9, <1>11, <1>12, <2>4, <2>5, <2>6, <2>7, <2>9
  <2>14. UsersOK(n, block', at'[n], written'[n], table', dropped')
    BY <2>12, <2>13
  <2>15. /\ stage'[n] = "owed" /\ version' = 2
         /\ PendingOK(n, block', All(n), pending'[n])
    BY <1>2, <2>1
  <2>16. QED BY <2>14, <2>15 DEF Exact, NetworkOK
<1>17. QED BY <1>1, <1>15, <1>16, OthersKeep

(* A run starts with nothing.                                              *)
LEMMA StartExact == ASSUME TypeInv, Start PROVE ExactInv'
<1> SUFFICES ASSUME NEW n \in Networks PROVE Exact(n)'
  BY DEF ExactInv
<1>1. /\ stage'[n] = "queued" /\ at'[n] = 1 /\ written'[n] = {}
      /\ pending'[n] = [u \in UsersOf(n) |-> 0]
      /\ table' = {} /\ dropped' = {} /\ block' \in Blocks
  BY DEF Start, FreshMemory, NoPending
<1>2. Untouched(n, table', dropped')
  BY <1>1 DEF Untouched, RowsOf, SkippedOf
<1>3. PendingOK(n, block', 1, pending'[n])
  <2> SUFFICES ASSUME NEW u \in UsersOf(n)
               PROVE  0 = SumAt(Due[block'][n], Of(n, 1 .. 1 - 1, u))
    BY <1>1 DEF PendingOK
  <2>1. PICK b \in Blocks : b = block' BY <1>1
  <2>2. Due[b][n] \in Seq(Nat) BY Amounts
  <2>3. \A k : k \notin Of(n, 1 .. 1 - 1, u) BY DEF Of
  <2>4. SumAt(Due[b][n], Of(n, 1 .. 1 - 1, u)) = 0 BY <2>2, <2>3, SumEmpty
  <2>5. QED BY <2>1, <2>4
<1>4. QED BY <1>1, <1>2, <1>3 DEF Exact, NetworkOK

LEMMA ExactInvInit == Init => ExactInv
<1> SUFFICES ASSUME Init PROVE ~Valid BY DEF ExactInv
<1>1. phase = "ended" /\ exit # 0 BY OwesAssumption DEF Init
<1>2. QED BY <1>1 DEF Valid

(* Steps of the run itself leave the rows as they are.                     *)
LEMMA SameExact ==
  ASSUME ExactInv, Valid' => Valid,
         version' = version, block' = block, work' = work
  PROVE  ExactInv'
<1> SUFFICES ASSUME Valid', NEW n \in Networks \ failed'
             PROVE  Exact(n)'
  BY DEF ExactInv
<1>1. Exact(n) BY DEF ExactInv, work
<1>2. QED BY <1>1 DEF Exact, work

LEMMA ExactInvStep ==
  ASSUME TypeInv, ExactInv, [Next]_vars PROVE ExactInv'
<1>1. CASE Start BY <1>1, StartExact
<1>2. CASE Stop
  <2>1. ~Valid' BY <1>2 DEF Stop, Valid
  <2>2. QED BY <2>1 DEF ExactInv
<1>3. ASSUME NEW n \in Networks,
             \/ Take(n) \/ ReadPending(n) \/ EndPass(n)
             \/ ReadAccrued(n) \/ ReadOwed(n) \/ PageThrows(n)
      PROVE  ExactInv'
  BY <1>3, TakeExact, ReadPendingExact, EndPassExact, ReadAccruedExact,
     ReadOwedExact, PageThrowsExact
<1>4. CASE \/ FinishCalc \/ WriteTotals \/ OpenDetail \/ AppendDetail
           \/ CloseDetail
  <2>1. /\ Valid
        /\ version' = version /\ block' = block /\ work' = work
    BY <1>4 DEF FinishCalc, WriteTotals, OpenDetail, AppendDetail, CloseDetail,
                Valid
  <2>2. QED BY <2>1, SameExact
<1>5. CASE UNCHANGED vars
  <2>1. /\ Valid' => Valid
        /\ version' = version /\ block' = block /\ work' = work
    BY <1>5 DEF vars, Valid
  <2>2. QED BY <2>1, SameExact
<1>6. QED BY <1>1, <1>2, <1>3, <1>4, <1>5 DEF Next, Progress

-----------------------------------------------------------------------------
(* The results.                                                            *)

OwesInv == TypeInv /\ FilesInv /\ PublishInv /\ ExactInv

LEMMA OwesInvAlways == Spec => []OwesInv
<1>1. Init => OwesInv
  BY TypeInvInit, FilesInvInit, PublishInvInit, ExactInvInit DEF OwesInv
<1>2. OwesInv /\ [Next]_vars => OwesInv'
  BY TypeInvStep, FilesInvStep, PublishInvStep, ExactInvStep DEF OwesInv
<1>3. QED BY <1>1, <1>2, PTL DEF Spec

(* A pass that has read everything has made what is expected.              *)
LEMMA DoneIsExpected ==
  ASSUME TypeInv, NEW n \in Networks, Exact(n), stage[n] = "done"
  PROVE  RowsOf(table, n) = Expected(n, block, dropped)
<1>1. 1 .. All(n) - 1 = DOMAIN Entries[n]
  <2>1. Len(Entries[n]) \in Nat /\ DOMAIN Entries[n] = 1 .. Len(Entries[n])
    BY EntryTypes
  <2>2. QED BY <2>1 DEF All
<1>2. CASE version = 3
  <2>1. RowsOf(table, n) = MarketRows(n, block, DOMAIN Entries[n], dropped)
    BY <1>1, <1>2 DEF Exact, NetworkOK, MarketsOK
  <2>2. QED BY <1>2, <2>1 DEF MarketRows, KeyAt, Expected
<1>3. CASE version = 2
  <2>1. /\ written[n] = UsersOf(n)
        /\ RowsOf(table, n) = UserRows(n, block, written[n], dropped)
    BY <1>1, <1>3 DEF Exact, NetworkOK, UsersOK, UsersOf
  <2>2. QED BY <1>3, <2>1 DEF UserRows, Of, Expected
<1>4. QED BY <1>2, <1>3 DEF TypeInv, TypeOK

(* Variables keep their types: positions stay within the entries, amounts  *)
(* natural numbers, no row is zero.                                        *)
THEOREM TypeCorrect == Spec => []TypeOK
<1>1. OwesInv => TypeOK BY DEF OwesInv, TypeInv
<1>2. QED BY <1>1, OwesInvAlways, PTL

(* A network that is through without a counted failure has exactly its     *)
(* rows, however pages cut its markets and users, whoever else reads at    *)
(* the same time, and whatever an earlier run left.                        *)
THEOREM RowsAlwaysExact == Spec => []RowsExact
<1>1. OwesInv => RowsExact
  <2> SUFFICES ASSUME OwesInv, NEW n \in Networks, phase # "ended",
                      stage[n] = "done", n \notin failed
               PROVE  {r \in table : r.network = n}
                        = Expected(n, block, dropped)
    BY DEF RowsExact
  <2>1. Exact(n) BY DEF OwesInv, ExactInv, Valid
  <2>2. QED BY <2>1, DoneIsExpected DEF OwesInv, RowsOf
<1>2. QED BY <1>1, OwesInvAlways, PTL

(* After a run that ends well the two files tell the same.                 *)
THEOREM FilesAlwaysAgree == Spec => []FilesAgree
<1>1. OwesInv => FilesAgree
  <2> SUFFICES ASSUME OwesInv, exit = 0
               PROVE  /\ detail.closed
                      /\ ToSet(detail.rows) =
                           UNION {Expected(n, block, dropped) : n \in Networks}
                      /\ \A i, j \in DOMAIN detail.rows :
                           i < j => Before(detail.rows[i], detail.rows[j])
                      /\ totals = TotalsOf(ToSet(detail.rows))
    BY DEF FilesAgree
  <2>1. /\ phase = "ended" /\ detail.closed /\ failed = {}
        /\ \A n \in Networks : stage[n] = "done"
        /\ totals = TotalsOf(table) /\ detail.rows = Sorted(table)
    BY DEF OwesInv, FilesInv
  <2>2. ToSet(detail.rows) = table /\ InOrder(detail.rows)
    BY <2>1, TableTypes, SortedLemma DEF OwesInv
  <2>3. \A n \in Networks : RowsOf(table, n) = Expected(n, block, dropped)
    <3>1. \A n \in Networks : Exact(n)
      BY <2>1 DEF OwesInv, ExactInv, Valid
    <3>2. QED BY <2>1, <3>1, DoneIsExpected DEF OwesInv
  <2>4. table = UNION {Expected(n, block, dropped) : n \in Networks}
    <3>1. \A r \in table : r.network \in Networks
      BY TableTypes DEF OwesInv, RowSet
    <3>2. table = UNION {RowsOf(table, n) : n \in Networks}
      BY <3>1 DEF RowsOf
    <3>3. QED BY <2>3, <3>2
  <2>5. QED BY <2>1, <2>2, <2>4 DEF InOrder
<1>2. QED BY <1>1, OwesInvAlways, PTL
=============================================================================
